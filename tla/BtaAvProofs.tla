----------------------------- MODULE BtaAvProofs -----------------------------
(***************************************************************************)
(* What the operators of BtaAv do, for any set of devices: lemmas for the  *)
(* proofs about the two tasks in BtcAvProofs.  Each says that an operator  *)
(* keeps the invariant BtuInv of the BTU task's data, what it leaves       *)
(* alone, and what it adds to the messages to BTC:                         *)
(*                                                                         *)
(*   Below    AVDTP and L2CAP: neither the stream nor the messages to BTC  *)
(*   Stay     the stream keeps its state, and no CLOSE event is added      *)
(*   Moved    the stream may change its state                              *)
(*   Steps    it opens with an OPEN event or not at all                    *)
(*   Handled  an OPEN event names the peer of the stream it tells of       *)
(*                                                                         *)
(* The last lemmas put them together: one for each state of the stream's   *)
(* machine, and HandleSteps for the handler of the task; and the same for  *)
(* the peer of a stream that is open or configured (Peered, HandlePeered). *)
(***************************************************************************)
EXTENDS BtaAv, SequenceTheorems, TLAPS

\* The messages: those that name a device, and those that need not.
Peers == Devices \cup {None}
Named == {"API_OPEN", "SIG_UP", "DISCNT", "CONFIG_IND", "PENDING", "CONNECT_REQ", "QUE_CONNECT",
          "SINK_CONNECT"}
AnyDev == {"REG", "DEREG", "DISABLE", "CLOSE", "SDP_OK", "SDP_FAIL",
           "CI_OK", "CI_FAIL", "OPEN_OK", "CLOSED", "CONNECT", "DISCONNECT", "DISC_OK", "DISC_FAIL",
           "OPEN_FAIL", "START", "STOP", "START_OK", "START_FAIL", "SUSPEND_IND", "SUSPEND_CFM",
           "SIG_DOWN", "SIG_TIMER", "OPEN", "REJECT", "SUSPEND", "SUSPEND_REMOTE", "QUE_ADVANCE",
           "DISCONNECT_REQ", "START_REQ", "SUSPEND_REQ", "CTRL_START", "CTRL_SUSPEND", "DEINIT"}
Messages == {m \in [ev : AnyDev \cup Named, dev : Peers, ok : BOOLEAN] :
               m.ev \in Named => m.dev \in Devices}

\* The states of the stream, and of AVDTP below it.
StrStates == {"none", "init", "incoming", "opening", "open", "closing"}
Links == {"down", "opening", "up", "closing", "aborting"}
Ops == {None, "discover", "open", "start", "suspend"}
EpStates == {"idle", "indicated", "requested", "conf", "opening", "open", "streaming", "closing"}

\* The data of the BTU task is a record with these fields at least.
BtuFields == {"q", "evts", "scb", "lcb", "conn", "sig", "acp", "sdp",
              "link", "cback", "reconn", "op", "idle", "ep"}
ScbFields == {"state", "peer", "to", "api", "dereg"}
IsBtu(u) == /\ BtuFields \subseteq DOMAIN u /\ ScbFields \subseteq DOMAIN u.scb

\* The types of what AVDTP keeps, and of the whole.
AvdtTyped(u) ==
  /\ {"st", "dev"} \subseteq DOMAIN u.ep
  /\ u.link \in [Devices -> Links] /\ u.cback \in [Devices -> {"str", "conn"}]
  /\ u.reconn \in [Devices -> BOOLEAN] /\ u.idle \in [Devices -> BOOLEAN]
  /\ u.op \in [Devices -> Ops]
  /\ u.ep.st \in EpStates /\ u.ep.dev \in Peers

BtuTyped(u) ==
  /\ IsBtu(u)
  /\ u.q \in Seq(Messages) /\ u.evts \in Seq(Messages)
  /\ u.scb.state \in StrStates /\ u.scb.peer \in Peers /\ u.scb.to \in Peers /\ u.lcb \in Peers
  /\ AvdtTyped(u)

\* AVDTP: a channel that is down has no command and no timer, one is opened
\* again only when it has closed, and the command that opens the endpoint waits
\* for the endpoint's own device.
Avdt(u) ==
  /\ u.ep.st = "idle" <=> u.ep.dev = None
  /\ \A d \in Devices :
       /\ u.link[d] = "down" => u.op[d] = None /\ ~u.idle[d]
       /\ u.reconn[d] => u.link[d] \in {"closing", "aborting"}
       /\ u.op[d] = "open" => u.ep.dev = d /\ u.ep.st \in {"requested", "conf"}

\* BTA: a stream that is gone has no data, and one that opens has a peer.
Stream(u) ==
  /\ u.scb.state = "none" => u.scb = NoScb
  /\ u.scb.state = "opening" => u.scb.peer \in Devices
  /\ u.scb.api => u.scb.to \in Devices

BtuInv(u) == BtuTyped(u) /\ Avdt(u) /\ Stream(u)

\* A SETCONFIG of the peer's, before any message that a stream has opened.
Awaited(q) == \E i \in DOMAIN q : /\ q[i].ev = "CONFIG_IND"
                                  /\ \A j \in DOMAIN q : j < i => q[j].ev # "OPEN_OK"

\* A handler adds no registration, and takes neither a deregistration nor a
\* configuration back.
NoReg(q) == \A i \in DOMAIN q : q[i].ev # "REG"
HasDereg(q) == \E i \in DOMAIN q : q[i].ev = "DEREG"
Kept(v, u) ==
  /\ NoReg(u.q) => NoReg(v.q)
  /\ HasDereg(u.q) => HasDereg(v.q)
  /\ Awaited(u.q) => Awaited(v.q)
Below(v, u) == BtuInv(v) /\ v.scb = u.scb /\ v.evts = u.evts /\ Kept(v, u)

\* Messages of any kind, and those that name a device.
LEMMA AnyMsg ==
  ASSUME NEW ev \in AnyDev, NEW d \in Peers, NEW ok \in BOOLEAN
  PROVE  /\ Msg(ev, d, ok) \in Messages
         /\ Msg(ev, d, ok).ev = ev /\ Msg(ev, d, ok).dev = d /\ Msg(ev, d, ok).ok = ok
<1>1. ev \notin Named
  BY DEF AnyDev, Named
<1> QED
  BY <1>1 DEF Msg, Messages

LEMMA NamedMsg ==
  ASSUME NEW ev \in Named, NEW d \in Devices, NEW ok \in BOOLEAN
  PROVE  /\ Msg(ev, d, ok) \in Messages
         /\ Msg(ev, d, ok).ev = ev /\ Msg(ev, d, ok).dev = d /\ Msg(ev, d, ok).ok = ok
BY DEF Msg, Messages, Peers

\* The two differ in these fields only.
SameChannels(v, u) == /\ v.link = u.link /\ v.cback = u.cback /\ v.reconn = u.reconn
               /\ v.op = u.op /\ v.idle = u.idle
SameAvdt(v, u) == SameChannels(v, u) /\ v.ep = u.ep

\* Below is a preorder.
LEMMA BelowRefl == ASSUME NEW u, BtuInv(u) PROVE Below(u, u)
BY DEF Below, Kept

LEMMA BelowTrans == ASSUME NEW u, NEW v, NEW w, Below(v, u), Below(w, v) PROVE Below(w, u)
BY DEF Below, Kept

\* A queue keeps what it says of registrations when a message joins it.
LEMMA AppendKept ==
  ASSUME NEW q \in Seq(Messages), NEW m \in Messages, m.ev # "REG"
  PROVE  /\ Append(q, m) \in Seq(Messages)
         /\ NoReg(q) => NoReg(Append(q, m))
         /\ HasDereg(q) => HasDereg(Append(q, m))
         /\ Awaited(q) => Awaited(Append(q, m))
<1>1. /\ Append(q, m) \in Seq(Messages)
      /\ NoReg(q) => NoReg(Append(q, m))
      /\ HasDereg(q) => HasDereg(Append(q, m))
  BY DEF NoReg, HasDereg
<1>2. ASSUME Awaited(q) PROVE Awaited(Append(q, m))
  <2>1. PICK i \in DOMAIN q : /\ q[i].ev = "CONFIG_IND"
                              /\ \A j \in DOMAIN q : j < i => q[j].ev # "OPEN_OK"
    BY <1>2 DEF Awaited
  <2>2. /\ i \in DOMAIN Append(q, m) /\ Append(q, m)[i] = q[i]
        /\ \A j \in DOMAIN Append(q, m) : j < i => j \in DOMAIN q /\ Append(q, m)[j] = q[j]
    OBVIOUS
  <2> QED
    BY <2>1, <2>2 DEF Awaited
<1> QED
  BY <1>1, <1>2

\* A message to BTU.
LEMMA PostBelow ==
  ASSUME NEW u, BtuInv(u), NEW m \in Messages, m.ev # "REG"
  PROVE  Below(Post(u, m), u) /\ SameAvdt(Post(u, m), u)
<1> DEFINE v == [u EXCEPT !.q = Append(u.q, m)]
<1>1. Post(u, m) = v
  BY DEF Post
<1>2. DOMAIN v = DOMAIN u /\ v.q = Append(u.q, m) /\ \A f \in DOMAIN u : f # "q" => v[f] = u[f]
  BY DEF BtuInv, BtuTyped, IsBtu, BtuFields
<1>3. v.q \in Seq(Messages) /\ Kept(v, u)
  BY <1>2, AppendKept DEF BtuInv, BtuTyped, Kept
<1> HIDE DEF v
<1>4. /\ IsBtu(v) /\ v.evts = u.evts /\ v.scb = u.scb /\ v.lcb = u.lcb /\ v.ep = u.ep
      /\ v.link = u.link /\ v.cback = u.cback /\ v.reconn = u.reconn /\ v.op = u.op /\ v.idle = u.idle
  BY <1>2 DEF BtuInv, BtuTyped, IsBtu, BtuFields
<1>5. BtuTyped(v)
  BY <1>3, <1>4 DEF BtuInv, BtuTyped, AvdtTyped
<1>6. Avdt(v) /\ Stream(v)
  BY <1>4 DEF BtuInv, Avdt, Stream
<1> QED
  BY <1>1, <1>3, <1>4, <1>5, <1>6 DEF BtuInv, Below, SameAvdt, SameChannels

\* A message to the stream, if there is one.
LEMMA StrEvtBelow ==
  ASSUME NEW u, BtuInv(u), NEW m \in Messages, m.ev # "REG"
  PROVE  Below(StrEvt(u, m), u) /\ SameAvdt(StrEvt(u, m), u)
<1>1. CASE u.scb.state = "none"
  BY <1>1, BelowRefl DEF StrEvt, SameAvdt, SameChannels
<1>2. CASE u.scb.state # "none"
  BY <1>2, PostBelow DEF StrEvt
<1> QED
  BY <1>1, <1>2

\* An event of a channel: to the control block, and to the stream if it asked.
LEMMA CtrlEvtBelow ==
  ASSUME NEW u, BtuInv(u), NEW d \in Devices, NEW ev \in {"CONNECT", "DISCONNECT"}, NEW acp \in BOOLEAN
  PROVE  Below(CtrlEvt(u, d, ev, acp), u) /\ SameAvdt(CtrlEvt(u, d, ev, acp), u)
<1> DEFINE m == Msg(ev, d, TRUE)
           n == Msg(IF ev = "CONNECT" THEN "SIG_UP" ELSE "SIG_DOWN", d, acp)
           v == IF u.cback[d] = "str" THEN StrEvt(u, m) ELSE u
<1>1. m \in Messages /\ m.ev # "REG" /\ n \in Messages /\ n.ev # "REG"
  <2>1. ev \in AnyDev /\ "SIG_DOWN" \in AnyDev /\ "SIG_UP" \in Named /\ d \in Peers
    BY DEF AnyDev, Named, Peers
  <2> QED
    BY <2>1, AnyMsg, NamedMsg
<1>2. CtrlEvt(u, d, ev, acp) = Post(v, n)
  BY DEF CtrlEvt
<1> HIDE DEF m, n
<1>3. Below(v, u) /\ SameAvdt(v, u)
  <2>1. CASE u.cback[d] = "str"
    BY <1>1, <2>1, StrEvtBelow
  <2>2. CASE u.cback[d] # "str"
    BY <2>2, BelowRefl DEF SameAvdt, SameChannels
  <2> QED
    BY <2>1, <2>2
<1> HIDE DEF v
<1>4. Below(Post(v, n), v) /\ SameAvdt(Post(v, n), v)
  BY <1>1, <1>3, PostBelow DEF Below
<1> QED
  BY <1>2, <1>3, <1>4, BelowTrans DEF SameAvdt, SameChannels


\* What AVDTP changes: the rest of the data is as before.
LEMMA BelowBy ==
  ASSUME NEW u, BtuInv(u), NEW v, IsBtu(v), AvdtTyped(v), Avdt(v),
         v.q = u.q, v.evts = u.evts, v.scb = u.scb, v.lcb = u.lcb
  PROVE  Below(v, u)
BY DEF BtuInv, BtuTyped, Stream, Below, Kept

\* A command of AVDTP is sent.
LEMMA SendsBelow ==
  ASSUME NEW u, BtuInv(u), NEW d \in Devices, u.link[d] # "down",
         NEW op \in Ops, op = "open" => u.ep.dev = d /\ u.ep.st \in {"requested", "conf"}
  PROVE  /\ Below(Sends(u, d, op), u)
         /\ Sends(u, d, op).link = u.link /\ Sends(u, d, op).reconn = u.reconn
<1> DEFINE v == [u EXCEPT !.op[d] = op, !.idle[d] = FALSE]
<1>2. /\ v.op = [u.op EXCEPT ![d] = op] /\ v.idle = [u.idle EXCEPT ![d] = FALSE]
      /\ DOMAIN v = DOMAIN u /\ \A f \in DOMAIN u : f \notin {"op", "idle"} => v[f] = u[f]
  BY DEF BtuInv, BtuTyped, IsBtu, BtuFields
<1>3. Sends(u, d, op) = v
  BY DEF Sends
<1> HIDE DEF v
<1>4. /\ IsBtu(v) /\ AvdtTyped(v) /\ v.q = u.q /\ v.evts = u.evts /\ v.scb = u.scb /\ v.lcb = u.lcb
      /\ v.link = u.link /\ v.reconn = u.reconn
  BY <1>2 DEF BtuInv, BtuTyped, AvdtTyped, IsBtu, BtuFields
<1>5. Avdt(v)
  BY <1>2 DEF BtuInv, BtuTyped, AvdtTyped, IsBtu, BtuFields, Avdt
<1> QED
  BY <1>3, <1>4, <1>5, BelowBy

\* The endpoint alone.
EpOK(u, e) ==
  /\ {"st", "dev"} \subseteq DOMAIN e /\ e.st \in EpStates /\ e.dev \in Peers
  /\ e.st = "idle" <=> e.dev = None
  /\ \A d \in Devices : u.op[d] = "open" => e.dev = d /\ e.st \in {"requested", "conf"}

\* The endpoint changes.
LEMMA EpBelow ==
  ASSUME NEW u, BtuInv(u), NEW e, EpOK(u, e)
  PROVE  LET v == [u EXCEPT !.ep = e] IN Below(v, u) /\ SameChannels(v, u) /\ v.ep = e
<1> DEFINE v == [u EXCEPT !.ep = e]
<1>1. v.ep = e /\ DOMAIN v = DOMAIN u /\ \A f \in DOMAIN u : f # "ep" => v[f] = u[f]
  BY DEF BtuInv, BtuTyped, IsBtu, BtuFields
<1> HIDE DEF v
<1>2. /\ IsBtu(v) /\ v.q = u.q /\ v.evts = u.evts /\ v.scb = u.scb /\ v.lcb = u.lcb
      /\ SameChannels(v, u)
  BY <1>1 DEF BtuInv, BtuTyped, IsBtu, BtuFields, SameChannels
<1>3. AvdtTyped(v)
  BY <1>1, <1>2 DEF BtuInv, BtuTyped, AvdtTyped, EpOK, SameChannels
<1>4. Avdt(v)
  BY <1>1, <1>2 DEF BtuInv, Avdt, EpOK, SameChannels
<1>5. Below(v, u) /\ SameChannels(v, u) /\ v.ep = e
  BY <1>1, <1>2, <1>3, <1>4, BelowBy
<1> QED
  BY <1>5 DEF v

\* The endpoint is freed.
LEMMA EpIdleOK ==
  /\ EpIdle.st = "idle" /\ EpIdle.dev = None /\ {"st", "dev"} \subseteq DOMAIN EpIdle
  /\ EpIdle.st \in EpStates /\ EpIdle.dev \in Peers
BY DEF EpIdle, EpStates, Peers

\* The channel of a device, without its commands.
LEMMA ChkCloseBelow ==
  ASSUME NEW u, BtuInv(u), NEW d \in Devices
  PROVE  Below(ChkClose(u, d), u)
<1> DEFINE x == u.ep.dev # d /\ u.link[d] = "up"
           v == [u EXCEPT !.idle[d] = x]
<1>1. ChkClose(u, d) = v
  BY DEF ChkClose
<1>2. x \in BOOLEAN /\ (u.link[d] = "down" => x = FALSE)
  OBVIOUS
<1>3. /\ v.idle = [u.idle EXCEPT ![d] = x] /\ DOMAIN v = DOMAIN u
      /\ \A f \in DOMAIN u : f # "idle" => v[f] = u[f]
  BY DEF BtuInv, BtuTyped, IsBtu, BtuFields
<1> HIDE DEF v, x
<1>4. /\ IsBtu(v) /\ AvdtTyped(v) /\ v.q = u.q /\ v.evts = u.evts /\ v.scb = u.scb /\ v.lcb = u.lcb
      /\ v.link = u.link /\ v.reconn = u.reconn /\ v.op = u.op /\ v.ep = u.ep
  BY <1>2, <1>3 DEF BtuInv, BtuTyped, AvdtTyped, IsBtu, BtuFields
<1>5. Avdt(v)
  BY <1>2, <1>3, <1>4 DEF BtuInv, BtuTyped, AvdtTyped, Avdt
<1> QED
  BY <1>1, <1>4, <1>5, BelowBy

\* A command that has failed.
LEMMA FailMsg ==
  ASSUME NEW op \in Ops \ {None}, NEW d \in Devices
  PROVE  Msg(FailOf(op), d, FALSE) \in Messages /\ Msg(FailOf(op), d, FALSE).ev # "REG"
<1>1. FailOf(op) \in {"DISC_FAIL", "OPEN_FAIL", "START_FAIL", "SUSPEND_CFM"}
  BY DEF Ops, FailOf
<1>2. FailOf(op) \in AnyDev /\ FailOf(op) # "REG" /\ d \in Peers
  BY <1>1 DEF AnyDev, Peers
<1> QED
  BY <1>2, AnyMsg

\* The commands of a channel are given up.
LEMMA ClearCmdsBelow ==
  ASSUME NEW u, BtuInv(u), NEW d \in Devices
  PROVE  LET v == ClearCmds(u, d)
         IN /\ Below(v, u) /\ v.link = u.link /\ v.reconn = u.reconn /\ v.cback = u.cback /\ v.op[d] = None
            /\ v.idle = u.idle
<1> DEFINE e == IF u.op[d] = "open" THEN EpIdle ELSE u.ep
           x == [u EXCEPT !.op[d] = None, !.ep = e]
           m == Msg(FailOf(u.op[d]), d, FALSE)
           v == IF u.op[d] = None THEN u ELSE StrEvt(x, m)
<1>1. u.op[d] \in Ops
  BY DEF BtuInv, BtuTyped, AvdtTyped
<1>2. /\ Below(x, u) /\ x.link = u.link /\ x.reconn = u.reconn /\ x.op[d] = None
      /\ x.cback = u.cback /\ x.idle = u.idle
  <2>1. /\ x.op = [u.op EXCEPT ![d] = None] /\ x.ep = e /\ DOMAIN x = DOMAIN u
        /\ \A f \in DOMAIN u : f \notin {"op", "ep"} => x[f] = u[f]
    BY DEF BtuInv, BtuTyped, IsBtu, BtuFields
  <2>2. u.op \in [Devices -> Ops] /\ None \in Ops
    BY DEF BtuInv, BtuTyped, AvdtTyped, Ops
  <2>3. x.op \in [Devices -> Ops] /\ x.op[d] = None /\ \A c \in Devices : c # d => x.op[c] = u.op[c]
    BY <2>1, <2>2
  <2>4. /\ {"st", "dev"} \subseteq DOMAIN e /\ e.st \in EpStates /\ e.dev \in Peers
        /\ e.st = "idle" <=> e.dev = None
        /\ \A c \in Devices : x.op[c] = "open" => e.dev = c /\ e.st \in {"requested", "conf"}
    <3>1. CASE u.op[d] = "open"
      <4> HIDE DEF x
      <4>1. \A c \in Devices : x.op[c] # "open"
        BY <3>1, <2>3, CommandsAssumption DEF BtuInv, Avdt
      <4> QED
        BY <3>1, <4>1, EpIdleOK
    <3>2. CASE u.op[d] # "open"
      BY <3>2, <2>3, CommandsAssumption DEF BtuInv, BtuTyped, AvdtTyped, Avdt
    <3> QED
      BY <3>1, <3>2
  <2> HIDE DEF x, e
  <2>5. /\ IsBtu(x) /\ x.q = u.q /\ x.evts = u.evts /\ x.scb = u.scb /\ x.lcb = u.lcb
        /\ x.link = u.link /\ x.reconn = u.reconn /\ x.cback = u.cback /\ x.idle = u.idle
    BY <2>1 DEF BtuInv, BtuTyped, IsBtu, BtuFields
  <2>6. AvdtTyped(x)
    BY <2>1, <2>3, <2>4, <2>5 DEF BtuInv, BtuTyped, AvdtTyped
  <2>7. Avdt(x)
    BY <2>1, <2>3, <2>4, <2>5 DEF BtuInv, Avdt
  <2> QED
    BY <2>3, <2>5, <2>6, <2>7, BelowBy
<1>3. /\ Below(v, u) /\ v.link = u.link /\ v.reconn = u.reconn /\ v.op[d] = None
      /\ v.cback = u.cback /\ v.idle = u.idle
  <2>1. CASE u.op[d] = None
    BY <2>1, BelowRefl
  <2>2. CASE u.op[d] # None
    <3>1. m \in Messages /\ m.ev # "REG"
      BY <1>1, <2>2, FailMsg
    <3> HIDE DEF m, x
    <3>2. Below(StrEvt(x, m), x) /\ SameAvdt(StrEvt(x, m), x)
      BY <1>2, <3>1, StrEvtBelow DEF Below
    <3> QED
      BY <1>2, <2>2, <3>2, BelowTrans DEF SameAvdt, SameChannels
  <2> QED
    BY <2>1, <2>2
<1> DEFINE w == IF v.ep.dev # d \/ v.ep.st \in {"idle", "closing"} THEN v
                ELSE CASE v.ep.st = "indicated" -> [v EXCEPT !.ep = EpIdle]
                       [] v.ep.st = "conf" -> StrEvt([v EXCEPT !.ep = EpIdle], Msg("CLOSED", d, TRUE))
                       [] OTHER -> [v EXCEPT !.ep.st = "closing"]
<1>4. ClearCmds(u, d) = w
  BY DEF ClearCmds
<1> HIDE DEF v
<1>5. BtuInv(v)
  BY <1>3 DEF Below
<1>6. v.ep.dev = d /\ v.ep.st \notin {"idle", "closing"} => EpOK(v, EpIdle)
  <2> SUFFICES ASSUME v.ep.dev = d, NEW c \in Devices, v.op[c] = "open" PROVE FALSE
    BY EpIdleOK DEF EpOK
  <2>1. c = d
    BY <1>5 DEF BtuInv, Avdt
  <2> QED
    BY <1>3, <2>1, CommandsAssumption
<1>7. Below(w, v) /\ SameChannels(w, v)
  <2>1. CASE v.ep.dev # d \/ v.ep.st \in {"idle", "closing"}
    <3>1. w = v
      BY <2>1
    <3> QED
      BY <1>5, <3>1, BelowRefl DEF SameChannels
  <2>2. CASE v.ep.dev = d /\ v.ep.st = "indicated"
    BY <1>5, <1>6, <2>2, EpBelow
  <2>3. CASE v.ep.dev = d /\ v.ep.st = "conf"
    <3> DEFINE y == [v EXCEPT !.ep = EpIdle]
               n == Msg("CLOSED", d, TRUE)
    <3>1. Below(y, v) /\ SameChannels(y, v)
      BY <1>5, <1>6, <2>3, EpBelow
    <3>2. n \in Messages /\ n.ev # "REG"
      <4>1. "CLOSED" \in AnyDev /\ d \in Peers
        BY DEF AnyDev, Peers
      <4> QED
        BY <4>1, AnyMsg
    <3>3. w = StrEvt(y, n)
      BY <2>3
    <3> HIDE DEF y, n, w
    <3>4. Below(StrEvt(y, n), y) /\ SameAvdt(StrEvt(y, n), y)
      BY <3>1, <3>2, StrEvtBelow DEF Below
    <3> QED
      BY <3>1, <3>3, <3>4, BelowTrans DEF SameAvdt, SameChannels
  <2>4. CASE v.ep.dev = d /\ v.ep.st \notin {"idle", "closing", "indicated", "conf"}
    <3> DEFINE y == [v.ep EXCEPT !.st = "closing"]
    <3>1. w = [v EXCEPT !.ep = y]
      BY <2>4
    <3>2. DOMAIN y = DOMAIN v.ep /\ y.st = "closing" /\ y.dev = d
      BY <1>5, <2>4 DEF BtuInv, BtuTyped, AvdtTyped
    <3> HIDE DEF y, w
    <3>3. EpOK(v, y)
      BY <1>5, <1>6, <2>4, <3>2, EpIdleOK, DevicesAssumption DEF BtuInv, BtuTyped, AvdtTyped, EpOK, EpStates, Peers
    <3> QED
      BY <1>5, <3>1, <3>3, EpBelow
  <2> QED
    BY <2>1, <2>2, <2>3, <2>4
<1> HIDE DEF w
<1>8. Below(w, u)
  BY <1>3, <1>7, BelowTrans
<1> QED
  BY <1>3, <1>4, <1>7, <1>8 DEF SameChannels

\* Changes of one channel: v is u with the fields of one device changed.
Channel(v, u, d) ==
  /\ IsBtu(v) /\ v.q = u.q /\ v.evts = u.evts /\ v.scb = u.scb /\ v.lcb = u.lcb /\ v.ep = u.ep
  /\ AvdtTyped(v)
  /\ \A c \in Devices : c # d => /\ v.link[c] = u.link[c] /\ v.reconn[c] = u.reconn[c]
                                 /\ v.op[c] = u.op[c] /\ v.idle[c] = u.idle[c]

\* A channel changes.
LEMMA ChannelBelow ==
  ASSUME NEW u, BtuInv(u), NEW d \in Devices, NEW v, Channel(v, u, d),
         v.link[d] = "down" => v.op[d] = None /\ ~v.idle[d],
         v.reconn[d] => v.link[d] \in {"closing", "aborting"},
         v.op[d] = "open" => u.ep.dev = d /\ u.ep.st \in {"requested", "conf"}
  PROVE  Below(v, u)
<1>1. Avdt(v)
  <2>1. v.ep.st = "idle" <=> v.ep.dev = None
    BY DEF BtuInv, Avdt, Channel
  <2>2. ASSUME NEW c \in Devices
        PROVE  /\ v.link[c] = "down" => v.op[c] = None /\ ~v.idle[c]
               /\ v.reconn[c] => v.link[c] \in {"closing", "aborting"}
               /\ v.op[c] = "open" => v.ep.dev = c /\ v.ep.st \in {"requested", "conf"}
    <3>1. CASE c = d
      BY <3>1 DEF Channel
    <3>2. CASE c # d
      BY <3>2 DEF BtuInv, Avdt, Channel
    <3> QED
      BY <3>1, <3>2
  <2> QED
    BY <2>1, <2>2 DEF Avdt
<1> QED
  BY <1>1, BelowBy DEF Channel

\* AVDT_ConnectReq and AVDT_DisconnectReq.
LEMMA ConnectReqBelow ==
  ASSUME NEW u, BtuInv(u), NEW d \in Devices PROVE Below(ConnectReq(u, d), u)
<1>1. u.link[d] \in Links /\ \A c \in Links : c \in Links
  BY DEF BtuInv, BtuTyped, AvdtTyped
<1>2. CASE u.link[d] = "down"
  <2> DEFINE v == [u EXCEPT !.link[d] = "opening", !.cback[d] = "str"]
  <2>1. "opening" \in Links
    BY DEF Links
  <2>2. Channel(v, u, d) /\ v.link[d] = "opening" /\ v.reconn = u.reconn /\ v.op = u.op
    BY <2>1 DEF BtuInv, BtuTyped, IsBtu, BtuFields, AvdtTyped, Channel
  <2>3. ConnectReq(u, d) = v
    BY <1>2 DEF ConnectReq
  <2> HIDE DEF v
  <2> QED
    BY <1>2, <2>2, <2>3, ChannelBelow, CommandsAssumption DEF BtuInv, Avdt
<1>3. CASE u.link[d] \in {"opening", "aborting"}
  BY <1>3, BelowRefl DEF ConnectReq
<1>4. CASE u.link[d] = "up"
  <2> DEFINE v == [u EXCEPT !.cback[d] = "str"]
  <2>1. Channel(v, u, d) /\ v.link = u.link /\ v.reconn = u.reconn /\ v.op = u.op /\ v.idle = u.idle
    BY DEF BtuInv, BtuTyped, IsBtu, BtuFields, AvdtTyped, Channel
  <2>2. ConnectReq(u, d) = CtrlEvt(v, d, "CONNECT", FALSE)
    BY <1>4 DEF ConnectReq
  <2> HIDE DEF v
  <2>3. Below(v, u)
    BY <2>1, ChannelBelow DEF BtuInv, Avdt
  <2>4. Below(CtrlEvt(v, d, "CONNECT", FALSE), v)
    BY <2>3, CtrlEvtBelow DEF Below
  <2> QED
    BY <2>2, <2>3, <2>4, BelowTrans
<1>5. CASE u.link[d] = "closing"
  <2> DEFINE v == [u EXCEPT !.reconn[d] = TRUE, !.cback[d] = "str"]
  <2>1. Channel(v, u, d) /\ v.link = u.link /\ v.op = u.op /\ v.idle = u.idle
    BY DEF BtuInv, BtuTyped, IsBtu, BtuFields, AvdtTyped, Channel
  <2>2. ConnectReq(u, d) = v
    BY <1>5 DEF ConnectReq
  <2> HIDE DEF v
  <2> QED
    BY <1>5, <2>1, <2>2, ChannelBelow DEF BtuInv, Avdt
<1> QED
  BY <1>1, <1>2, <1>3, <1>4, <1>5 DEF Links

\* AVDT_DisconnectReq.
LEMMA DisconnectReqBelow ==
  ASSUME NEW u, BtuInv(u), NEW d \in Devices, NEW x \in {"str", "conn"}
  PROVE  Below(DisconnectReq(u, d, x), u)
<1>1. CASE u.link[d] = "down"
  BY <1>1, BelowRefl DEF DisconnectReq
<1>2. CASE u.link[d] \in {"opening", "up"}
  <2> DEFINE w == ClearCmds(u, d)
             l == IF w.link[d] = "up" THEN "closing" ELSE "aborting"
             v == [w EXCEPT !.link[d] = l, !.cback[d] = x]
  <2>1. Below(w, u) /\ w.op[d] = None /\ w.reconn = u.reconn /\ w.link = u.link
    BY ClearCmdsBelow
  <2>2. DisconnectReq(u, d, x) = [w EXCEPT !.cback[d] = x, !.link[d] = l]
    BY <1>2 DEF DisconnectReq
  <2>3. l \in Links /\ l \in {"closing", "aborting"}
    BY DEF Links
  <2> HIDE DEF w, l
  <2>4. [w EXCEPT !.cback[d] = x, !.link[d] = l] = v
    BY <2>1 DEF Below, BtuInv, BtuTyped, IsBtu, BtuFields
  <2>5. BtuInv(w)
    BY <2>1 DEF Below
  <2>6. Channel(v, w, d) /\ v.link[d] = l /\ v.op = w.op
    BY <2>3, <2>5 DEF BtuInv, BtuTyped, IsBtu, BtuFields, AvdtTyped, Channel
  <2> HIDE DEF v
  <2>7. Below(v, w)
    BY <2>1, <2>3, <2>5, <2>6, ChannelBelow, CommandsAssumption
  <2> QED
    BY <2>1, <2>2, <2>4, <2>7, BelowTrans
<1>3. CASE u.link[d] \notin {"down", "opening", "up"}
  <2> DEFINE v == [u EXCEPT !.reconn[d] = FALSE, !.cback[d] = x]
  <2>1. Channel(v, u, d) /\ v.link = u.link /\ v.reconn[d] = FALSE /\ v.op = u.op /\ v.idle = u.idle
    BY DEF BtuInv, BtuTyped, IsBtu, BtuFields, AvdtTyped, Channel
  <2>2. DisconnectReq(u, d, x) = v
    BY <1>3 DEF DisconnectReq
  <2> HIDE DEF v
  <2> QED
    BY <2>1, <2>2, ChannelBelow DEF BtuInv, Avdt
<1> QED
  BY <1>1, <1>2, <1>3

\* AVDT_DiscoverReq.
LEMMA DiscoverReqBelow ==
  ASSUME NEW u, BtuInv(u), NEW d \in Devices PROVE Below(DiscoverReq(u, d), u)
<1> DEFINE v == Sends(u, d, "discover")
<1>1. CASE u.op[d] # None
  BY <1>1, BelowRefl DEF DiscoverReq
<1>2. CASE u.op[d] = None /\ u.link[d] = "down"
  <2> DEFINE w == [v EXCEPT !.link[d] = "opening", !.cback[d] = "conn"]
  <2>1. v = [u EXCEPT !.op[d] = "discover", !.idle[d] = FALSE]
    BY DEF Sends
  <2>2. v.link[d] = "down"
    BY <1>2, <2>1 DEF BtuInv, BtuTyped, IsBtu, BtuFields
  <2>3. DiscoverReq(u, d) = w
    BY <1>2, <2>2 DEF DiscoverReq
  <2>4. /\ Channel(v, u, d) /\ v.link = u.link /\ v.reconn = u.reconn /\ v.op[d] = "discover"
        /\ v.cback = u.cback
    <3>1. "discover" \in Ops
      BY DEF Ops
    <3> QED
      BY <3>1 DEF Sends, BtuInv, BtuTyped, IsBtu, BtuFields, AvdtTyped, Channel
  <2> HIDE DEF v
  <2>5. Channel(w, u, d) /\ w.link[d] = "opening" /\ w.reconn = u.reconn /\ w.op[d] = "discover"
    BY <2>4 DEF BtuInv, BtuTyped, IsBtu, BtuFields, AvdtTyped, Channel, Links
  <2> HIDE DEF w
  <2> QED
    BY <1>2, <2>3, <2>5, ChannelBelow DEF BtuInv, Avdt
<1>3. CASE u.op[d] = None /\ u.link[d] # "down"
  <2>1. Below(v, u) /\ v.link = u.link
    BY <1>3, SendsBelow DEF Ops
  <2> HIDE DEF v
  <2>2. CASE u.link[d] \in {"opening", "up"}
    BY <1>3, <2>1, <2>2 DEF DiscoverReq, v
  <2>3. CASE u.link[d] \notin {"opening", "up"}
    <3> DEFINE w == [v EXCEPT !.reconn[d] = TRUE]
    <3>1. BtuInv(v)
      BY <2>1 DEF Below
    <3>2. Channel(w, v, d) /\ w.link = v.link /\ w.reconn[d] = TRUE /\ w.op = v.op /\ w.idle = v.idle
      BY <3>1 DEF BtuInv, BtuTyped, IsBtu, BtuFields, AvdtTyped, Channel
    <3>3. DiscoverReq(u, d) = w
      BY <1>3, <2>1, <2>3 DEF DiscoverReq, v
    <3> HIDE DEF w
    <3>4. u.link[d] \in {"closing", "aborting"}
      BY <1>3, <2>3 DEF BtuInv, BtuTyped, AvdtTyped, Links
    <3>5. Below(w, v)
      BY <2>1, <3>1, <3>2, <3>4, ChannelBelow DEF BtuInv, Avdt
    <3> QED
      BY <2>1, <3>3, <3>5, BelowTrans
  <2> QED
    BY <2>2, <2>3
<1> QED
  BY <1>1, <1>2, <1>3

\* AVDT_OpenReq, AVDT_CloseReq, AVDT_ConfigRsp, AVDT_StartReq and AVDT_SuspendReq.
LEMMA OpenReqBelow ==
  ASSUME NEW u, BtuInv(u), NEW d \in Devices PROVE Below(OpenReq(u, d), u)
<1>1. CASE u.link[d] = "down"
  BY <1>1, BelowRefl DEF OpenReq
<1>2. CASE u.link[d] # "down" /\ u.ep.st = "idle"
  <2> DEFINE e == [EpIdle EXCEPT !.st = "requested", !.dev = d]
             v == [u EXCEPT !.ep = e]
  <2>1. e.st = "requested" /\ e.dev = d /\ DOMAIN e = DOMAIN EpIdle
    BY DEF EpIdle
  <2>2. OpenReq(u, d) = Sends(v, d, "open")
    BY <1>2 DEF OpenReq
  <2> HIDE DEF e
  <2>3. EpOK(u, e)
    BY <1>2, <2>1, EpIdleOK, DevicesAssumption DEF EpOK, EpStates, Peers, BtuInv, Avdt
  <2>4. Below(v, u) /\ SameChannels(v, u) /\ v.ep = e
    BY <2>3, EpBelow
  <2> HIDE DEF v
  <2>5. "open" \in Ops /\ v.link[d] # "down" /\ v.ep.dev = d /\ v.ep.st \in {"requested", "conf"}
    BY <1>2, <2>1, <2>4 DEF Ops, SameChannels
  <2>6. Below(Sends(v, d, "open"), v)
    BY <2>4, <2>5, SendsBelow DEF Below
  <2> QED
    BY <2>2, <2>4, <2>6, BelowTrans
<1>3. CASE u.link[d] # "down" /\ u.ep.st # "idle"
  <2>1. "OPEN_FAIL" \in AnyDev /\ d \in Peers
    BY DEF AnyDev, Peers
  <2>2. Msg("OPEN_FAIL", d, FALSE) \in Messages /\ Msg("OPEN_FAIL", d, FALSE).ev # "REG"
    BY <2>1, AnyMsg
  <2> QED
    BY <1>3, <2>2, StrEvtBelow DEF OpenReq
<1> QED
  BY <1>1, <1>2, <1>3

\* AVDT_CloseReq.
LEMMA CloseReqBelow == ASSUME NEW u, BtuInv(u) PROVE Below(CloseReq(u), u)
<1>1. CASE u.ep.st \notin {"conf", "opening", "open", "streaming"}
  BY <1>1, BelowRefl DEF CloseReq
<1>2. CASE u.ep.st \in {"conf", "opening", "open", "streaming"}
  <2> DEFINE d == u.ep.dev
             o == IF u.op[d] = "open" THEN None ELSE u.op[d]
             v == [u EXCEPT !.ep.st = "closing", !.ep.int = TRUE, !.idle[d] = FALSE, !.op[d] = o]
  <2>1. d \in Devices
    BY <1>2 DEF BtuInv, BtuTyped, AvdtTyped, Avdt, Peers
  <2>2. o \in Ops /\ o # "open" /\ (u.op[d] = None => o = None)
    BY <2>1, CommandsAssumption DEF BtuInv, BtuTyped, AvdtTyped, Ops
  <2>3. CloseReq(u) = v
    BY <1>2 DEF CloseReq
  <2> HIDE DEF o
  <2>4. /\ v.ep.st = "closing" /\ v.ep.dev = d /\ DOMAIN v.ep = DOMAIN u.ep
        /\ v.idle = [u.idle EXCEPT ![d] = FALSE] /\ v.op = [u.op EXCEPT ![d] = o]
        /\ DOMAIN v = DOMAIN u /\ \A f \in DOMAIN u : f \notin {"ep", "idle", "op"} => v[f] = u[f]
    BY DEF BtuInv, BtuTyped, IsBtu, BtuFields, AvdtTyped
  <2> HIDE DEF v
  <2>5. /\ IsBtu(v) /\ v.q = u.q /\ v.evts = u.evts /\ v.scb = u.scb /\ v.lcb = u.lcb
        /\ v.link = u.link /\ v.reconn = u.reconn /\ v.cback = u.cback
    BY <2>4 DEF BtuInv, BtuTyped, IsBtu, BtuFields
  <2>6. AvdtTyped(v)
    BY <2>1, <2>2, <2>4, <2>5 DEF BtuInv, BtuTyped, AvdtTyped, EpStates
  <2>7. Avdt(v)
    <3>1. \A c \in Devices : v.op[c] # "open"
      BY <2>1, <2>2, <2>4 DEF BtuInv, BtuTyped, AvdtTyped, Avdt
    <3>2. \A c \in Devices : u.op[c] = None => v.op[c] = None
      BY <2>1, <2>2, <2>4 DEF BtuInv, BtuTyped, AvdtTyped
    <3>3. \A c \in Devices : ~u.idle[c] => ~v.idle[c]
      BY <2>1, <2>4 DEF BtuInv, BtuTyped, AvdtTyped
    <3>4. d # None
      BY <2>1, DevicesAssumption
    <3> QED
      BY <2>4, <2>5, <3>1, <3>2, <3>3, <3>4 DEF BtuInv, Avdt
  <2> QED
    BY <2>3, <2>5, <2>6, <2>7, BelowBy
<1> QED
  BY <1>1, <1>2

\* AVDT_ConfigRsp.
LEMMA ConfigRspBelow ==
  ASSUME NEW u, BtuInv(u), NEW ok \in BOOLEAN PROVE Below(ConfigRsp(u, ok), u)
<1>1. CASE u.ep.st # "indicated"
  BY <1>1, BelowRefl DEF ConfigRsp
<1>2. CASE u.ep.st = "indicated"
  <2> DEFINE e == IF ok THEN [u.ep EXCEPT !.st = "conf"] ELSE EpIdle
  <2>1. ConfigRsp(u, ok) = [u EXCEPT !.ep = e]
    BY <1>2 DEF ConfigRsp
  <2>2. \A c \in Devices : u.op[c] # "open"
    BY <1>2 DEF BtuInv, Avdt
  <2>3. EpOK(u, e)
    <3>1. CASE ok
      BY <1>2, <2>2, <3>1 DEF EpOK, EpStates, BtuInv, BtuTyped, AvdtTyped, Avdt
    <3>2. CASE ~ok
      BY <2>2, <3>2, EpIdleOK DEF EpOK
    <3> QED
      BY <3>1, <3>2
  <2> HIDE DEF e
  <2> QED
    BY <2>1, <2>3, EpBelow
<1> QED
  BY <1>1, <1>2

\* AVDT_StartReq and AVDT_SuspendReq.
LEMMA StreamReqBelow ==
  ASSUME NEW u, BtuInv(u), NEW op \in {"start", "suspend"} PROVE Below(StreamReq(u, op), u)
<1>1. CASE u.ep.dev # None /\ u.link[u.ep.dev] = "up" /\ u.ep.st \in {"open", "streaming"}
  <2>1. u.ep.dev \in Devices /\ op \in Ops /\ op # "open"
    BY <1>1 DEF BtuInv, BtuTyped, AvdtTyped, Peers, Ops
  <2>2. Below(Sends(u, u.ep.dev, op), u)
    BY <1>1, <2>1, SendsBelow
  <2> QED
    BY <1>1, <2>2 DEF StreamReq
<1>2. CASE ~(u.ep.dev # None /\ u.link[u.ep.dev] = "up" /\ u.ep.st \in {"open", "streaming"})
  <2>1. StreamReq(u, op) = u
    BY <1>2 DEF StreamReq
  <2> QED
    BY <2>1, BelowRefl
<1> QED
  BY <1>1, <1>2

-----------------------------------------------------------------------------
(* The stream's actions.                                                   *)

\* A queue without CLOSE, and one whose last word is that the stream is open; a
\* stream that is gone, or goes.
NoClose(q) == \A i \in DOMAIN q : q[i].ev # "CLOSE"
Opens(q) == \E i \in DOMAIN q : /\ q[i].ev = "OPEN" /\ q[i].ok
                                /\ \A j \in DOMAIN q : j > i => q[j].ev # "CLOSE"
Gone(u) == u.scb.state = "none" \/ (u.scb.dereg /\ u.scb.state = "closing")

\* An OPEN event that tells of an open stream, and the stream it tells of.
IsOpen(m) == m.ev = "OPEN" /\ m.ok
NoOpen(q) == \A i \in DOMAIN q : ~IsOpen(q[i])
Names(u) ==
  \A i \in DOMAIN u.evts : IsOpen(u.evts[i]) =>
    u.scb.state = "open" /\ u.evts[i].dev = u.scb.peer

Moved(v, u) == BtuInv(v) /\ Kept(v, u) /\ (NoOpen(u.evts) => NoOpen(v.evts))
Handled(v, u) == BtuInv(v) /\ Kept(v, u) /\ (NoOpen(u.evts) => Names(v))
Stay(v, u) ==
  /\ Moved(v, u)
  /\ v.scb.state = u.scb.state /\ v.scb.dereg = u.scb.dereg
  /\ u.scb.peer # None => v.scb.peer # None
  /\ NoClose(u.evts) => NoClose(v.evts)
Steps(v, u) ==
  /\ Handled(v, u)
  /\ v.scb.state = "open" => \/ u.scb.state = "open" /\ (NoClose(u.evts) => NoClose(v.evts))
                             \/ Opens(v.evts)
  /\ Gone(u) => Gone(v)

\* The notions compared.
LEMMA MovedHandled == ASSUME NEW u, NEW v, Moved(v, u) PROVE Handled(v, u)
BY DEF Moved, Handled, NoOpen, Names

LEMMA StaySteps == ASSUME NEW u, NEW v, Stay(v, u) PROVE Steps(v, u)
BY MovedHandled DEF Stay, Steps, Gone

LEMMA BelowStay == ASSUME NEW u, NEW v, Below(v, u) PROVE Stay(v, u)
BY DEF Stay, Below, Moved

\* They compose.
LEMMA StayRefl == ASSUME NEW u, BtuInv(u) PROVE Stay(u, u)
BY BelowRefl, BelowStay

LEMMA StayTrans == ASSUME NEW u, NEW v, NEW w, Stay(v, u), Stay(w, v) PROVE Stay(w, u)
BY DEF Stay, Moved, Kept

LEMMA MovedTrans == ASSUME NEW u, NEW v, NEW w, Moved(v, u), Moved(w, v) PROVE Moved(w, u)
BY DEF Moved, Kept

\* The stream's control block.
ScbOK(s) ==
  /\ ScbFields \subseteq DOMAIN s
  /\ s.state \in StrStates /\ s.peer \in Peers /\ s.to \in Peers
  /\ s.state = "none" => s = NoScb
  /\ s.state = "opening" => s.peer \in Devices
  /\ s.api => s.to \in Devices

\* The stream of an invariant state, and what keeps it.
LEMMA ScbGood == ASSUME NEW u, BtuInv(u) PROVE ScbOK(u.scb)
BY DEF BtuInv, BtuTyped, IsBtu, Stream, ScbOK

\* What leaves AVDTP and the queues alone.
LEMMA MovedBy ==
  ASSUME NEW u, BtuInv(u), NEW v, BtuFields \subseteq DOMAIN v, v.q = u.q, v.evts \in Seq(Messages),
         SameAvdt(v, u), v.lcb \in Peers, ScbOK(v.scb), NoOpen(u.evts) => NoOpen(v.evts)
  PROVE  Moved(v, u)
BY DEF BtuInv, BtuTyped, IsBtu, AvdtTyped, Avdt, Stream, ScbOK, SameAvdt, SameChannels, Moved, Kept

LEMMA StayBy ==
  ASSUME NEW u, BtuInv(u), NEW v, BtuFields \subseteq DOMAIN v, v.q = u.q, v.evts = u.evts,
         SameAvdt(v, u), v.lcb \in Peers, ScbOK(v.scb),
         v.scb.state = u.scb.state, v.scb.dereg = u.scb.dereg,
         u.scb.peer # None => v.scb.peer # None
  PROVE  Stay(v, u)
<1>1. u.evts \in Seq(Messages)
  BY DEF BtuInv, BtuTyped
<1> QED
  BY <1>1, MovedBy DEF Stay

\* A message to BTC: any but that of an open stream leaves the stream as it is.
LEMMA ReportMoved ==
  ASSUME NEW u, BtuInv(u), NEW m \in Messages, ~IsOpen(m)
  PROVE  LET v == Report(u, m)
         IN /\ Moved(v, u) /\ v.scb = u.scb /\ v.evts = Append(u.evts, m)
            /\ m.ev # "CLOSE" => Stay(v, u)
<1> DEFINE v == [u EXCEPT !.evts = Append(u.evts, m)]
<1>1. Report(u, m) = v
  BY DEF Report
<1>2. /\ DOMAIN v = DOMAIN u /\ v.evts = Append(u.evts, m)
      /\ \A f \in DOMAIN u : f # "evts" => v[f] = u[f]
  BY DEF BtuInv, BtuTyped, IsBtu, BtuFields
<1> HIDE DEF v
<1>3. /\ BtuFields \subseteq DOMAIN v /\ v.q = u.q /\ SameAvdt(v, u) /\ v.lcb = u.lcb /\ v.scb = u.scb
  BY <1>2 DEF BtuInv, BtuTyped, IsBtu, BtuFields, SameAvdt, SameChannels
<1>4. u.evts \in Seq(Messages) /\ u.lcb \in Peers
  BY DEF BtuInv, BtuTyped
<1>5. v.evts \in Seq(Messages) /\ (m.ev # "CLOSE" => (NoClose(u.evts) => NoClose(v.evts)))
  BY <1>2, <1>4 DEF NoClose
<1>7. NoOpen(u.evts) => NoOpen(v.evts)
  BY <1>2, <1>4 DEF NoOpen
<1>6. Moved(v, u)
  BY <1>3, <1>4, <1>5, <1>7, ScbGood, MovedBy
<1> QED
  BY <1>1, <1>2, <1>3, <1>5, <1>6 DEF Stay

\* A report without a device.
LEMMA ReportStay ==
  ASSUME NEW u, BtuInv(u), NEW ev \in AnyDev \ {"CLOSE"}, NEW d \in Peers, NEW ok \in BOOLEAN,
         ev # "OPEN" \/ ~ok
  PROVE  Stay(Report(u, Msg(ev, d, ok)), u)
<1>1. Msg(ev, d, ok) \in Messages /\ Msg(ev, d, ok).ev = ev /\ ~IsOpen(Msg(ev, d, ok))
  BY AnyMsg DEF IsOpen
<1> QED
  BY <1>1, ReportMoved

\* A message of the stream's to BTU.
LEMMA PostStay ==
  ASSUME NEW u, BtuInv(u), NEW m \in Messages, m.ev # "REG" PROVE Stay(Post(u, m), u)
BY PostBelow, BelowStay

\* The control block of the stream alone, and the flags and timers of BTA.
LEMMA ScbStay ==
  ASSUME NEW u, BtuInv(u), NEW s, ScbOK(s)
  PROVE  LET v == [u EXCEPT !.scb = s]
         IN /\ Moved(v, u) /\ v.scb = s /\ v.evts = u.evts /\ v.lcb = u.lcb
            /\ /\ s.state = u.scb.state /\ s.dereg = u.scb.dereg
               /\ u.scb.peer # None => s.peer # None
               => Stay(v, u)
<1> DEFINE v == [u EXCEPT !.scb = s]
<1>1. DOMAIN v = DOMAIN u /\ v.scb = s /\ \A f \in DOMAIN u : f # "scb" => v[f] = u[f]
  BY DEF BtuInv, BtuTyped, IsBtu, BtuFields
<1> HIDE DEF v
<1>2. /\ BtuFields \subseteq DOMAIN v /\ v.q = u.q /\ SameAvdt(v, u) /\ v.lcb = u.lcb /\ v.evts = u.evts
  BY <1>1 DEF BtuInv, BtuTyped, IsBtu, BtuFields, SameAvdt, SameChannels
<1>3. u.evts \in Seq(Messages) /\ u.lcb \in Peers
  BY DEF BtuInv, BtuTyped
<1>4. Moved(v, u)
  BY <1>1, <1>2, <1>3, MovedBy
<1>5. /\ Moved(v, u) /\ v.scb = s /\ v.evts = u.evts /\ v.lcb = u.lcb
      /\ (/\ s.state = u.scb.state /\ s.dereg = u.scb.dereg
          /\ u.scb.peer # None => s.peer # None
          => Stay(v, u))
  BY <1>1, <1>2, <1>4 DEF Stay
<1> QED
  BY <1>5 DEF v

\* conn, sig, acp and sdp.
Aside(v, u) ==
  /\ DOMAIN v = DOMAIN u
  /\ v.q = u.q /\ v.evts = u.evts /\ v.scb = u.scb /\ v.lcb = u.lcb /\ SameAvdt(v, u)

\* The fields that the invariant does not speak of.
LEMMA AsideStay == ASSUME NEW u, BtuInv(u), NEW v, Aside(v, u) PROVE Stay(v, u)
<1>1. BtuFields \subseteq DOMAIN v /\ v.lcb \in Peers
  BY DEF BtuInv, BtuTyped, IsBtu, Aside
<1> QED
  BY <1>1, ScbGood, StayBy DEF Aside

LEMMA AsideFields ==
  ASSUME NEW u, BtuInv(u), NEW x, NEW y
  PROVE  /\ Aside([u EXCEPT !.conn = x], u) /\ Aside([u EXCEPT !.sig = x], u)
         /\ Aside([u EXCEPT !.acp = x], u) /\ Aside([u EXCEPT !.sdp = x], u)
         /\ Aside([u EXCEPT !.sig = x, !.acp = y], u)
BY DEF BtuInv, BtuTyped, IsBtu, BtuFields, Aside, SameAvdt, SameChannels

\* Flags and timers of the stream and of BTA.
Flags(v, u) ==
  /\ DOMAIN v = DOMAIN u /\ v.q = u.q /\ v.evts = u.evts /\ v.lcb = u.lcb /\ SameAvdt(v, u)
  /\ DOMAIN v.scb = DOMAIN u.scb
  /\ v.scb.state = u.scb.state /\ v.scb.peer = u.scb.peer /\ v.scb.to = u.scb.to
  /\ v.scb.api = u.scb.api /\ v.scb.dereg = u.scb.dereg

\* Flags of the stream.
LEMMA FlagsStay ==
  ASSUME NEW u, BtuInv(u), u.scb.state # "none", NEW v, Flags(v, u)
  PROVE  Stay(v, u)
<1>1. BtuFields \subseteq DOMAIN v /\ v.lcb \in Peers
  BY DEF BtuInv, BtuTyped, IsBtu, Flags
<1>2. ScbOK(v.scb)
  BY ScbGood DEF ScbOK, Flags
<1> QED
  BY <1>1, <1>2, StayBy DEF Flags

\* bta_av_ssm_execute sets the next state.
LEMMA GoMoved ==
  ASSUME NEW u, BtuInv(u), NEW s \in StrStates \ {"none"}, s = "opening" => u.scb.peer \in Devices
  PROVE  LET v == Go(u, s)
         IN /\ Moved(v, u) /\ v.scb = [u.scb EXCEPT !.state = s]
            /\ v.scb.state = s /\ v.scb.dereg = u.scb.dereg /\ v.scb.peer = u.scb.peer
            /\ v.evts = u.evts /\ v.lcb = u.lcb
<1> DEFINE t == [u.scb EXCEPT !.state = s]
           v == [u EXCEPT !.scb = t]
<1>1. Go(u, s) = v
  BY DEF Go
<1>2. t.state = s /\ t.dereg = u.scb.dereg /\ t.peer = u.scb.peer /\ ScbOK(t)
  BY ScbGood DEF ScbOK, ScbFields
<1>3. Moved(v, u) /\ v.scb = t /\ v.evts = u.evts /\ v.lcb = u.lcb
  <2> HIDE DEF t
  <2> QED
    BY <1>2, ScbStay
<1> QED
  BY <1>1, <1>2, <1>3

\* bta_av_cleanup, always in INIT: a deregistered stream is given up.
LEMMA CleanupDone ==
  ASSUME NEW u, BtuInv(u), u.scb.state = "init"
  PROVE  LET v == Cleanup(u)
         IN /\ Moved(v, u) /\ v.evts = u.evts
            /\ v.scb.state = IF u.scb.dereg THEN "none" ELSE "init"
<1> DEFINE t == [u.scb EXCEPT !.sdb = FALSE, !.failed = FALSE, !.started = FALSE,
                              !.startInt = FALSE, !.timer = FALSE]
           v == [u EXCEPT !.scb = t]
<1>1. /\ t.state = "init" /\ t.dereg = u.scb.dereg /\ t.to = u.scb.to /\ t.peer = u.scb.peer
      /\ t.api = u.scb.api /\ DOMAIN t = DOMAIN u.scb
  BY DEF BtuInv, BtuTyped, IsBtu, ScbFields
<1>2. ScbOK(t)
  BY <1>1, ScbGood DEF ScbOK
<1>3. BtuInv(v) /\ Moved(v, u) /\ v.scb = t /\ v.evts = u.evts
  <2> HIDE DEF t
  <2> QED
    BY <1>2, ScbStay DEF Moved
<1>4. CASE u.scb.dereg
  <2>1. Cleanup(u) = [v EXCEPT !.scb = NoScb]
    BY <1>4 DEF Cleanup
  <2>2. ScbOK(NoScb) /\ NoScb.state = "none"
    BY DevicesAssumption DEF ScbOK, NoScb, ScbFields, StrStates, Peers
  <2> HIDE DEF v
  <2>3. /\ Moved([v EXCEPT !.scb = NoScb], v) /\ [v EXCEPT !.scb = NoScb].scb = NoScb
        /\ [v EXCEPT !.scb = NoScb].evts = v.evts
    BY <1>3, <2>2, ScbStay
  <2> QED
    BY <1>3, <1>4, <2>1, <2>2, <2>3, MovedTrans
<1>5. CASE ~u.scb.dereg
  <2> DEFINE x == [v.scb EXCEPT !.peer = None]
             w == [v EXCEPT !.scb = x]
             c == IF u.lcb # None /\ u.lcb = u.scb.peer THEN FALSE ELSE v.conn
             y == [w EXCEPT !.conn = c]
  <2>1. ScbOK(x) /\ x.state = "init" /\ x.dereg = u.scb.dereg
    <3> HIDE DEF t, v
    <3> QED
      BY <1>1, <1>2, <1>3 DEF ScbOK, ScbFields, Peers
  <2>2. Cleanup(u) = y
    BY <1>5 DEF Cleanup
  <2> HIDE DEF v, x, c
  <2>3. Moved(w, v) /\ w.scb = x /\ w.evts = v.evts
    BY <1>3, <2>1, ScbStay
  <2> HIDE DEF w
  <2>4. Aside(y, w)
    BY <2>3, AsideFields DEF Moved
  <2> HIDE DEF y
  <2>5. Stay(y, w) /\ y.evts = w.evts /\ y.scb = w.scb
    BY <2>3, <2>4, AsideStay DEF Moved, Aside
  <2> QED
    BY <1>3, <1>5, <2>1, <2>2, <2>3, <2>5, MovedTrans DEF Stay
<1> QED
  BY <1>4, <1>5

\* bta_av_str_stopped: a suspension is asked for, or its end is reported.
LEMMA StrStoppedStay ==
  ASSUME NEW u, BtuInv(u), u.scb.state # "none", NEW suspend \in BOOLEAN
  PROVE  Stay(StrStopped(u, suspend), u)
<1> DEFINE v == [u EXCEPT !.scb.co = FALSE]
<1>1. Flags(v, u)
  BY DEF BtuInv, BtuTyped, IsBtu, BtuFields, ScbFields, Flags, SameAvdt, SameChannels
<1> HIDE DEF v
<1>2. Stay(v, u) /\ BtuInv(v)
  BY <1>1, FlagsStay DEF Stay, Moved
<1>3. "STOP" \in AnyDev \ {"CLOSE"} /\ "SUSPEND" \in AnyDev \ {"CLOSE"} /\ None \in Peers
  BY DEF AnyDev, Peers
<1>4. CASE ~suspend
  <2>1. Stay(Report(v, Msg("STOP", None, TRUE)), v)
    BY <1>2, <1>3, ReportStay
  <2> QED
    BY <1>2, <1>4, <2>1, StayTrans DEF StrStopped, v
<1>5. CASE suspend /\ u.scb.started /\ u.scb.sup
  <2>1. Stay(StreamReq(v, "suspend"), v)
    BY <1>2, StreamReqBelow, BelowStay
  <2> QED
    BY <1>2, <1>5, <2>1, StayTrans DEF StrStopped, v
<1>6. CASE suspend /\ ~(u.scb.started /\ u.scb.sup)
  <2>1. Stay(Report(v, Msg("SUSPEND", None, TRUE)), v)
    BY <1>2, <1>3, ReportStay
  <2>2. StrStopped(u, suspend) = Report(v, Msg("SUSPEND", None, TRUE))
    BY <1>6 DEF StrStopped, v
  <2> QED
    BY <1>2, <2>1, <2>2, StayTrans
<1> QED
  BY <1>4, <1>5, <1>6

\* bta_av_str_closed: the stream is given up, and its end reported.
LEMMA StrClosedDone ==
  ASSUME NEW u, BtuInv(u), u.scb.state = "init"
  PROVE  LET v == StrClosed(u)
         IN Moved(v, u) /\ v.scb.state = IF u.scb.dereg THEN "none" ELSE "init"
<1>1. CASE u.scb.failed
  <2> DEFINE w == Cleanup(u)
             m == Msg("OPEN", u.scb.peer, FALSE)
  <2>1. m \in Messages /\ ~IsOpen(m)
    <3>1. "OPEN" \in AnyDev /\ u.scb.peer \in Peers
      BY DEF AnyDev, BtuInv, BtuTyped
    <3> QED
      BY <3>1, AnyMsg DEF IsOpen
  <2>2. StrClosed(u) = Report(w, m)
    BY <1>1 DEF StrClosed
  <2> HIDE DEF w, m
  <2>3. Moved(w, u) /\ w.scb.state = IF u.scb.dereg THEN "none" ELSE "init"
    BY CleanupDone DEF w
  <2>4. Moved(Report(w, m), w) /\ Report(w, m).scb = w.scb
    BY <2>1, <2>3, ReportMoved DEF Moved
  <2> QED
    BY <2>2, <2>3, <2>4, MovedTrans
<1>2. CASE ~u.scb.failed
  <2> DEFINE x == IF u.scb.co THEN StrStopped(u, FALSE) ELSE u
             w == Cleanup(x)
             m == Msg("CLOSE", None, TRUE)
  <2>1. m \in Messages /\ ~IsOpen(m)
    <3>1. "CLOSE" \in AnyDev /\ None \in Peers
      BY DEF AnyDev, Peers
    <3> QED
      BY <3>1, AnyMsg DEF IsOpen
  <2>2. StrClosed(u) = Report(w, m)
    BY <1>2 DEF StrClosed
  <2>3. Stay(x, u)
    BY StrStoppedStay, StayRefl
  <2> HIDE DEF x, m
  <2>4. Moved(w, x) /\ w.scb.state = IF x.scb.dereg THEN "none" ELSE "init"
    BY <2>3, CleanupDone DEF Stay, Moved
  <2> HIDE DEF w
  <2>5. Moved(Report(w, m), w) /\ Report(w, m).scb = w.scb
    BY <2>1, <2>4, ReportMoved DEF Moved
  <2> QED
    BY <2>2, <2>3, <2>4, <2>5, MovedTrans DEF Stay
<1> QED
  BY <1>1, <1>2

\* bta_av_save_addr.
LEMMA SaveAddrStay ==
  ASSUME NEW u, BtuInv(u), u.scb.state # "none", NEW d \in Devices
  PROVE  Stay(SaveAddr(u, d), u) /\ SaveAddr(u, d).scb.peer = d
<1> DEFINE t == [u.scb EXCEPT !.sup = u.scb.sup \/ u.scb.peer # d, !.peer = d]
<1>1. SaveAddr(u, d) = [u EXCEPT !.scb = t]
  BY DEF SaveAddr
<1>2. ScbOK(t) /\ t.state = u.scb.state /\ t.dereg = u.scb.dereg /\ t.peer = d /\ d # None
  BY ScbGood, DevicesAssumption DEF ScbOK, ScbFields, Peers
<1> HIDE DEF t
<1> QED
  BY <1>1, <1>2, ScbStay

\* bta_av_do_disc_a2d, with the state machine already in OPENING.
LEMMA DoDiscMoved ==
  ASSUME NEW u, BtuInv(u), u.scb.state = "init", NEW d \in Devices
  PROVE  LET v == DoDisc(Go(u, "opening"), d) IN Moved(v, u) /\ v.scb.state = "opening"
<1> DEFINE g == Go(u, "opening")
           x == SaveAddr(g, d)
           w == [x EXCEPT !.scb.to = d, !.scb.sdb = TRUE]
           m == Msg("SDP_FAIL", None, TRUE)
<1>1. /\ DOMAIN g = DOMAIN u /\ \A f \in DOMAIN u : f # "scb" => g[f] = u[f]
      /\ DOMAIN g.scb = DOMAIN u.scb /\ g.scb.state = "opening" /\ g.scb.to = u.scb.to
      /\ g.scb.api = u.scb.api
  BY DEF Go, BtuInv, BtuTyped, IsBtu, BtuFields, ScbFields
<1>2. DoDisc(g, d) = IF g.sdp THEN Post(w, m) ELSE [w EXCEPT !.sdp = TRUE]
  BY DEF DoDisc
<1> HIDE DEF g
<1>3. /\ DOMAIN x = DOMAIN u /\ \A f \in DOMAIN u : f # "scb" => x[f] = u[f]
      /\ DOMAIN x.scb = DOMAIN u.scb /\ x.scb.state = "opening" /\ x.scb.to = u.scb.to
      /\ x.scb.api = u.scb.api /\ x.scb.peer = d
  BY <1>1 DEF SaveAddr, BtuInv, BtuTyped, IsBtu, BtuFields, ScbFields
<1> HIDE DEF x
<1>4. /\ DOMAIN w = DOMAIN u /\ \A f \in DOMAIN u : f # "scb" => w[f] = u[f]
      /\ DOMAIN w.scb = DOMAIN u.scb /\ w.scb.state = "opening" /\ w.scb.to = d
      /\ w.scb.api = u.scb.api /\ w.scb.peer = d
  BY <1>3 DEF BtuInv, BtuTyped, IsBtu, BtuFields, ScbFields
<1> HIDE DEF w
<1>5. ScbOK(w.scb)
  BY <1>4 DEF ScbOK, Peers, StrStates, BtuInv, BtuTyped, IsBtu
<1>6. /\ BtuFields \subseteq DOMAIN w /\ w.q = u.q /\ w.evts = u.evts /\ w.lcb = u.lcb
      /\ SameAvdt(w, u)
  BY <1>4 DEF BtuInv, BtuTyped, IsBtu, BtuFields, SameAvdt, SameChannels
<1>7. Moved(w, u) /\ w.scb.state = "opening"
  BY <1>4, <1>5, <1>6, MovedBy DEF BtuInv, BtuTyped
<1>8. Stay(Post(w, m), w)
  <2>1. "SDP_FAIL" \in AnyDev /\ None \in Peers
    BY DEF AnyDev, Peers
  <2>2. m \in Messages /\ m.ev = "SDP_FAIL"
    BY <2>1, AnyMsg
  <2> HIDE DEF m
  <2> QED
    BY <1>7, <2>2, PostStay DEF Moved
<1>9. Stay([w EXCEPT !.sdp = TRUE], w)
  BY <1>7, AsideFields, AsideStay DEF Moved
<1> HIDE DEF m
<1>10. Moved(DoDisc(g, d), u) /\ DoDisc(g, d).scb.state = "opening"
  BY <1>2, <1>7, <1>8, <1>9, MovedTrans DEF Stay
<1> QED
  BY <1>10 DEF g

\* bta_av_free_sdb.
LEMMA FreeSdbStay ==
  ASSUME NEW u, BtuInv(u), u.scb.state # "none"
  PROVE  Stay(FreeSdb(u), u) /\ FreeSdb(u).scb.peer = u.scb.peer
<1>1. Flags(FreeSdb(u), u)
  BY DEF FreeSdb, BtuInv, BtuTyped, IsBtu, BtuFields, ScbFields, Flags, SameAvdt, SameChannels
<1> QED
  BY <1>1, FlagsStay DEF Flags

\* bta_av_open_at_inc.
LEMMA OpenAtIncMoved ==
  ASSUME NEW u, BtuInv(u), u.scb.state = "incoming", NEW d \in Devices
  PROVE  LET v == OpenAtInc(u, d)
         IN Moved(v, u) /\ v.scb.state \in {"incoming", "init"} /\ v.scb.peer = u.scb.peer
<1> DEFINE t == [u.scb EXCEPT !.to = d]
           v == [u EXCEPT !.scb = t]
<1>1. ScbOK(t) /\ t.state = "incoming" /\ t.peer = u.scb.peer
  BY ScbGood DEF ScbOK, ScbFields, Peers
<1>2. OpenAtInc(u, d) = IF v.scb.inc THEN [v EXCEPT !.scb.api = TRUE]
                        ELSE Post([v EXCEPT !.scb.api = FALSE, !.scb.state = "init"], Msg("API_OPEN", d, TRUE))
  BY DEF OpenAtInc
<1>3. Moved(v, u) /\ v.scb = t /\ t.to = d
  <2>1. t.to = d
    BY DEF BtuInv, BtuTyped, IsBtu, ScbFields
  <2> HIDE DEF t
  <2> QED
    BY <1>1, <2>1, ScbStay
<1> HIDE DEF v
<1>4. CASE v.scb.inc
  <2> DEFINE x == [v.scb EXCEPT !.api = TRUE]
  <2>1. ScbOK(x) /\ x.state = "incoming" /\ x.peer = u.scb.peer
    <3> HIDE DEF t
    <3> QED
      BY <1>1, <1>3 DEF ScbOK, ScbFields
  <2> HIDE DEF x
  <2>2. Moved([v EXCEPT !.scb = x], v) /\ [v EXCEPT !.scb = x].scb = x
    BY <1>3, <2>1, ScbStay DEF Moved
  <2> QED
    BY <1>2, <1>3, <1>4, <2>1, <2>2, MovedTrans DEF x
<1>5. CASE ~v.scb.inc
  <2> DEFINE x == [v.scb EXCEPT !.api = FALSE, !.state = "init"]
             y == [v EXCEPT !.scb = x]
             m == Msg("API_OPEN", d, TRUE)
  <2>1. ScbOK(x) /\ x.state = "init" /\ x.peer = u.scb.peer
    <3> HIDE DEF t
    <3> QED
      BY <1>1, <1>3 DEF ScbOK, ScbFields, StrStates
  <2>2. m \in Messages /\ m.ev = "API_OPEN"
    <3>1. "API_OPEN" \in Named
      BY DEF Named
    <3> QED
      BY <3>1, NamedMsg
  <2>3. OpenAtInc(u, d) = Post(y, m)
    BY <1>2, <1>5
  <2> HIDE DEF x, m
  <2>4. Moved(y, v) /\ y.scb = x
    BY <1>3, <2>1, ScbStay DEF Moved
  <2> HIDE DEF y
  <2>5. Stay(Post(y, m), y) /\ Post(y, m).scb = y.scb
    BY <2>2, <2>4, PostStay, PostBelow DEF Moved, Below
  <2> QED
    BY <1>3, <2>1, <2>3, <2>4, <2>5, MovedTrans DEF Stay
<1> QED
  BY <1>4, <1>5

\* bta_av_disconnect_req in CLOSING: the stream is given up if it has no
\* channel, and stays otherwise.
Closes(v, u) ==
  /\ Moved(v, u)
  /\ v.scb.state \in {"none", "init", "closing"}
  /\ u.scb.dereg => Gone(v)

\* bta_av_str_closed on the way from CLOSING to INIT.
LEMMA ClosedFromClosing ==
  ASSUME NEW u, BtuInv(u) PROVE Closes(StrClosed(Go(u, "init")), u)
<1> DEFINE g == Go(u, "init")
<1>1. Moved(g, u) /\ g.scb.state = "init" /\ g.scb.dereg = u.scb.dereg
  <2>1. "init" \in StrStates \ {"none"}
    BY DEF StrStates
  <2> QED
    BY <2>1, GoMoved
<1> HIDE DEF g
<1>2. /\ Moved(StrClosed(g), g)
      /\ StrClosed(g).scb.state = IF g.scb.dereg THEN "none" ELSE "init"
  BY <1>1, StrClosedDone DEF Moved
<1>3. Closes(StrClosed(g), u)
  BY <1>1, <1>2, MovedTrans DEF Closes, Gone
<1> QED
  BY <1>3 DEF g

\* Closing a stream: what it says, and steps that keep it closing.
LEMMA ClosesAfterStay ==
  ASSUME NEW u, NEW v, NEW w, Stay(v, u), Closes(w, v) PROVE Closes(w, u)
BY MovedTrans DEF Stay, Closes

LEMMA ClosingStays ==
  ASSUME NEW u, NEW v, u.scb.state = "closing", Stay(v, u) PROVE Closes(v, u)
BY DEF Stay, Closes, Gone

\* bta_av_disconnect_req.
LEMMA DoDisconnectCloses ==
  ASSUME NEW u, BtuInv(u), u.scb.state = "closing" PROVE Closes(DoDisconnect(u), u)
<1> DEFINE v == [u EXCEPT !.sig = FALSE, !.scb.timer = FALSE]
<1>1. Flags(v, u)
  BY DEF BtuInv, BtuTyped, IsBtu, BtuFields, ScbFields, Flags, SameAvdt, SameChannels
<1>2. DoDisconnect(u) = IF v.lcb = None THEN StrClosed(Go(v, "init"))
                        ELSE IF v.scb.peer = None THEN v ELSE DisconnectReq(v, v.scb.peer, "str")
  BY DEF DoDisconnect
<1> HIDE DEF v
<1>3. Stay(v, u) /\ BtuInv(v) /\ v.scb.state = "closing"
  BY <1>1, FlagsStay DEF Stay, Moved
<1>4. CASE v.lcb = None
  BY <1>2, <1>3, <1>4, ClosedFromClosing, ClosesAfterStay
<1>5. CASE v.lcb # None /\ v.scb.peer = None
  BY <1>2, <1>3, <1>5, ClosingStays
<1>6. CASE v.lcb # None /\ v.scb.peer # None
  <2>1. v.scb.peer \in Devices
    BY <1>3, <1>6 DEF BtuInv, BtuTyped, Peers
  <2>2. Stay(DisconnectReq(v, v.scb.peer, "str"), v)
    BY <1>3, <2>1, DisconnectReqBelow, BelowStay
  <2>3. Stay(DisconnectReq(v, v.scb.peer, "str"), u)
    BY <1>3, <2>2, StayTrans
  <2> QED
    BY <1>2, <1>6, <2>3, ClosingStays
<1> QED
  BY <1>4, <1>5, <1>6

\* bta_av_do_close.
LEMMA DoCloseStay == ASSUME NEW u, BtuInv(u), u.scb.state # "none" PROVE Stay(DoClose(u), u)
<1> DEFINE v == IF u.scb.co THEN StrStopped(u, FALSE) ELSE u
           w == [v EXCEPT !.sig = FALSE, !.scb.started = FALSE, !.scb.timer = TRUE]
<1>1. Stay(v, u)
  BY StrStoppedStay, StayRefl
<1>2. DoClose(u) = CloseReq(w)
  BY DEF DoClose
<1> HIDE DEF v
<1>3. BtuInv(v) /\ v.scb.state # "none"
  BY <1>1 DEF Stay, Moved
<1>4. Flags(w, v)
  BY <1>3 DEF BtuInv, BtuTyped, IsBtu, BtuFields, ScbFields, Flags, SameAvdt, SameChannels
<1> HIDE DEF w
<1>5. Stay(w, v)
  BY <1>3, <1>4, FlagsStay
<1>6. Stay(CloseReq(w), w)
  BY <1>5, CloseReqBelow, BelowStay DEF Stay, Moved
<1> QED
  BY <1>1, <1>2, <1>5, <1>6, StayTrans

\* bta_av_connect_req.
LEMMA ConnectAfterSdpStay ==
  ASSUME NEW u, BtuInv(u), u.scb.state = "opening" PROVE Stay(ConnectAfterSdp(u), u)
<1> DEFINE v == FreeSdb(u)
<1>1. Stay(v, u) /\ BtuInv(v) /\ u.scb.peer \in Devices
  BY FreeSdbStay DEF Stay, Moved, BtuInv, Stream
<1>2. ConnectAfterSdp(u) = IF u.scb.inc THEN v ELSE ConnectReq(v, u.scb.peer)
  BY DEF ConnectAfterSdp
<1> HIDE DEF v
<1>3. Stay(ConnectReq(v, u.scb.peer), v)
  BY <1>1, ConnectReqBelow, BelowStay
<1> QED
  BY <1>1, <1>2, <1>3, StayTrans

\* bta_av_open_failed: the flag, then the steps.
LEMMA FailedFlag ==
  ASSUME NEW u, BtuInv(u), u.scb.state # "none" PROVE Stay([u EXCEPT !.scb.failed = TRUE], u)
<1>1. Flags([u EXCEPT !.scb.failed = TRUE], u)
  BY DEF BtuInv, BtuTyped, IsBtu, BtuFields, ScbFields, Flags, SameAvdt, SameChannels
<1> QED
  BY <1>1, FlagsStay

\* bta_av_open_failed.
LEMMA OpenFailedCloses ==
  ASSUME NEW u, BtuInv(u), u.scb.state = "closing" PROVE Closes(OpenFailed(u), u)
<1> DEFINE v == [u EXCEPT !.scb.failed = TRUE]
<1>1. Stay(v, u)
  BY FailedFlag
<1>2. OpenFailed(u) = IF v.scb.peer = None THEN v ELSE DisconnectReq(v, v.scb.peer, "str")
  BY DEF OpenFailed
<1> HIDE DEF v
<1>3. BtuInv(v) /\ v.scb.state = "closing"
  BY <1>1 DEF Stay, Moved
<1>4. CASE v.scb.peer = None
  BY <1>1, <1>2, <1>4, ClosingStays
<1>5. CASE v.scb.peer # None
  <2>1. v.scb.peer \in Devices
    BY <1>3, <1>5 DEF BtuInv, BtuTyped, Peers
  <2>2. Stay(DisconnectReq(v, v.scb.peer, "str"), v)
    BY <1>3, <2>1, DisconnectReqBelow, BelowStay
  <2>3. Stay(DisconnectReq(v, v.scb.peer, "str"), u)
    BY <1>1, <2>2, StayTrans
  <2> QED
    BY <1>2, <1>5, <2>3, ClosingStays
<1> QED
  BY <1>4, <1>5

LEMMA FailedCloses ==
  ASSUME NEW u, BtuInv(u) PROVE Closes(Failed(Go(u, "init")), u)
<1> DEFINE g == Go(u, "init")
           v == [g EXCEPT !.scb.failed = TRUE]
<1>1. Moved(g, u) /\ g.scb.state = "init" /\ g.scb.dereg = u.scb.dereg
  <2>1. "init" \in StrStates \ {"none"}
    BY DEF StrStates
  <2> QED
    BY <2>1, GoMoved
<1>2. Failed(Go(u, "init")) = StrClosed(v)
  BY DEF Failed
<1> HIDE DEF g
<1>3. Stay(v, g)
  BY <1>1, FailedFlag DEF Moved
<1> HIDE DEF v
<1>4. Moved(StrClosed(v), v) /\ StrClosed(v).scb.state = IF v.scb.dereg THEN "none" ELSE "init"
  BY <1>1, <1>3, StrClosedDone DEF Stay, Moved
<1> QED
  BY <1>1, <1>2, <1>3, <1>4, MovedTrans DEF Closes, Gone, Stay

\* bta_av_config_ind, and what bta_av_setconfig_rsp and _rej answer.
LEMMA ConfigIndStay ==
  ASSUME NEW u, BtuInv(u), u.scb.state = "incoming", NEW m \in Messages, m.ev = "CONFIG_IND"
  PROVE  Stay(ConfigInd(u, m), u) /\ ConfigInd(u, m).scb.peer # None
<1> DEFINE x == SaveAddr(u, m.dev)
           v == [x EXCEPT !.scb.inc = FALSE, !.scb.api = FALSE, !.acp = FALSE]
           n == Msg(IF m.ok THEN "CI_OK" ELSE "CI_FAIL", m.dev, TRUE)
<1>1. m.dev \in Devices /\ m.dev \in Peers
  BY DEF Messages, Named, Peers
<1>2. Stay(x, u) /\ x.scb.peer # None
  BY <1>1, SaveAddrStay, DevicesAssumption
<1>3. ConfigInd(u, m) = Post(v, n)
  BY DEF ConfigInd
<1> HIDE DEF x
<1>4. BtuInv(x) /\ x.scb.state = "incoming"
  BY <1>2 DEF Stay, Moved
<1>5. /\ DOMAIN v = DOMAIN x /\ v.q = x.q /\ v.evts = x.evts /\ v.lcb = x.lcb /\ SameAvdt(v, x)
      /\ DOMAIN v.scb = DOMAIN x.scb /\ v.scb.state = x.scb.state /\ v.scb.peer = x.scb.peer
      /\ v.scb.to = x.scb.to /\ v.scb.api = FALSE /\ v.scb.dereg = x.scb.dereg
  BY <1>4 DEF BtuInv, BtuTyped, IsBtu, BtuFields, ScbFields, SameAvdt, SameChannels
<1> HIDE DEF v
<1>6. ScbOK(v.scb)
  BY <1>4, <1>5, ScbGood DEF ScbOK
<1>7. Stay(v, x)
  BY <1>4, <1>5, <1>6, StayBy DEF BtuInv, BtuTyped, IsBtu
<1>8. n \in Messages /\ n.ev # "REG"
  <2>1. "CI_OK" \in AnyDev /\ "CI_FAIL" \in AnyDev
    BY DEF AnyDev
  <2> QED
    BY <1>1, <2>1, AnyMsg
<1> HIDE DEF n
<1>9. Stay(Post(v, n), v)
  BY <1>7, <1>8, PostStay DEF Stay, Moved
<1>10. Stay(Post(v, n), x)
  BY <1>7, <1>9, StayTrans
<1> QED
  BY <1>2, <1>3, <1>10, StayTrans DEF Stay

\* bta_av_setconfig_rsp, bta_av_setconfig_rej.
LEMMA SetconfigRspStay == ASSUME NEW u, BtuInv(u) PROVE Stay(SetconfigRsp(u), u)
<1> DEFINE v == ConfigRsp(u, TRUE)
<1>1. Stay(v, u)
  BY ConfigRspBelow, BelowStay
<1>2. SetconfigRsp(u) = [v EXCEPT !.sig = FALSE]
  BY DEF SetconfigRsp
<1> HIDE DEF v
<1>3. Stay([v EXCEPT !.sig = FALSE], v)
  BY <1>1, AsideFields, AsideStay DEF Stay, Moved
<1> QED
  BY <1>1, <1>2, <1>3, StayTrans

LEMMA SetconfigRejStay ==
  ASSUME NEW u, BtuInv(u), NEW d \in Peers PROVE Stay(SetconfigRej(u, d), u)
<1>1. Stay(ConfigRsp(u, FALSE), u)
  BY ConfigRspBelow, BelowStay
<1>2. "REJECT" \in AnyDev \ {"CLOSE"}
  BY DEF AnyDev
<1>3. Stay(Report(ConfigRsp(u, FALSE), Msg("REJECT", d, TRUE)), ConfigRsp(u, FALSE))
  BY <1>1, <1>2, ReportStay DEF Stay, Moved
<1> QED
  BY <1>1, <1>3, StayTrans DEF SetconfigRej

\* bta_av_str_opened: OPEN is the last report.
LEMMA OpensLast ==
  ASSUME NEW q \in Seq(Messages), NEW m \in Messages, m.ev = "OPEN", m.ok
  PROVE  Opens(Append(q, m))
<1> DEFINE r == Append(q, m)
<1>1. r[Len(q) + 1] = m /\ DOMAIN r = 1..(Len(q) + 1) /\ Len(q) \in Nat
  OBVIOUS
<1> HIDE DEF r
<1>2. Len(q) + 1 \in DOMAIN r /\ \A j \in DOMAIN r : ~(j > Len(q) + 1)
  BY <1>1
<1>3. Opens(r)
  BY <1>1, <1>2 DEF Opens
<1> QED
  BY <1>3 DEF r

\* bta_av_str_opened: OPEN is reported, with the peer of the stream.
LEMMA StrOpenedOpens ==
  ASSUME NEW u, BtuInv(u), u.scb.state = "open"
  PROVE  LET v == StrOpened(u) IN Handled(v, u) /\ v.scb = u.scb /\ Opens(v.evts)
<1> DEFINE x == u.conn \/ (u.lcb # None /\ u.lcb = u.scb.peer)
           v == [u EXCEPT !.conn = x]
           m == Msg("OPEN", u.scb.peer, TRUE)
           w == [v EXCEPT !.evts = Append(v.evts, m)]
<1>1. StrOpened(u) = w
  BY DEF StrOpened, Report
<1> HIDE DEF x
<1>2. Aside(v, u)
  BY AsideFields
<1> HIDE DEF v
<1>3. Stay(v, u) /\ BtuInv(v) /\ v.scb = u.scb /\ v.evts = u.evts
  BY <1>2, AsideStay DEF Aside, Stay, Moved
<1>4. m \in Messages /\ m.ev = "OPEN" /\ m.ok /\ m.dev = u.scb.peer
  <2>1. "OPEN" \in AnyDev /\ u.scb.peer \in Peers
    BY DEF AnyDev, BtuInv, BtuTyped
  <2> QED
    BY <2>1, AnyMsg
<1> HIDE DEF m
<1>5. v.evts \in Seq(Messages) /\ Append(v.evts, m) \in Seq(Messages)
  BY <1>3, <1>4 DEF BtuInv, BtuTyped
<1>6. Opens(Append(v.evts, m))
  BY <1>4, <1>5, OpensLast
<1>7. BtuInv(w) /\ w.evts = Append(v.evts, m) /\ w.scb = v.scb /\ w.q = v.q
  <2>1. /\ DOMAIN w = DOMAIN v /\ w.evts = Append(v.evts, m)
        /\ \A f \in DOMAIN v : f # "evts" => w[f] = v[f]
    BY <1>3 DEF BtuInv, BtuTyped, IsBtu, BtuFields
  <2> HIDE DEF w
  <2>2. /\ IsBtu(w) /\ w.q = v.q /\ SameAvdt(w, v) /\ w.lcb = v.lcb /\ w.scb = v.scb
    BY <1>3, <2>1 DEF BtuInv, BtuTyped, IsBtu, BtuFields, SameAvdt, SameChannels
  <2>3. BtuTyped(w)
    BY <1>3, <1>5, <2>1, <2>2 DEF BtuInv, BtuTyped, AvdtTyped, SameAvdt, SameChannels
  <2>4. Avdt(w) /\ Stream(w)
    BY <1>3, <2>2 DEF BtuInv, Avdt, Stream, SameAvdt, SameChannels
  <2> QED
    BY <2>1, <2>2, <2>3, <2>4 DEF BtuInv
<1> HIDE DEF w
<1>8. NoOpen(u.evts) => Names(w)
  <2> SUFFICES ASSUME NoOpen(u.evts), NEW i \in DOMAIN w.evts, IsOpen(w.evts[i])
               PROVE  w.evts[i] = m
    BY <1>3, <1>4, <1>7 DEF Names
  <2>1. i \in DOMAIN u.evts => w.evts[i] = u.evts[i]
    BY <1>3, <1>5, <1>7
  <2>2. i \notin DOMAIN u.evts
    BY <2>1 DEF NoOpen
  <2> QED
    BY <1>3, <1>5, <1>7, <2>2
<1>9. Handled(w, u)
  BY <1>3, <1>7, <1>8 DEF Stay, Moved, Kept, Handled
<1> QED
  BY <1>1, <1>3, <1>6, <1>7, <1>9

\* A change that reports no open stream, then one that may.
LEMMA MovedThenHandled ==
  ASSUME NEW u, NEW v, NEW w, Moved(v, u), Handled(w, v) PROVE Handled(w, u)
BY DEF Moved, Handled, Kept

\* The actions of OPEN.
LEMMA StartOkStay == ASSUME NEW u, BtuInv(u), u.scb.state # "none" PROVE Stay(StartOk(u), u)
<1> DEFINE v == [u EXCEPT !.scb.started = TRUE, !.scb.co = TRUE, !.scb.startInt = FALSE]
<1>1. Flags(v, u)
  BY DEF BtuInv, BtuTyped, IsBtu, BtuFields, ScbFields, Flags, SameAvdt, SameChannels
<1>2. StartOk(u) = Report(v, Msg("START", None, TRUE))
  BY DEF StartOk
<1> HIDE DEF v
<1>3. Stay(v, u)
  BY <1>1, FlagsStay
<1>4. "START" \in AnyDev \ {"CLOSE"} /\ None \in Peers
  BY DEF AnyDev, Peers
<1>5. Stay(Report(v, Msg("START", None, TRUE)), v)
  BY <1>3, <1>4, ReportStay DEF Stay, Moved
<1> QED
  BY <1>2, <1>3, <1>5, StayTrans

\* bta_av_start_failed, bta_av_do_start.
LEMMA StartFailedStay == ASSUME NEW u, BtuInv(u), u.scb.state # "none" PROVE Stay(StartFailed(u), u)
<1> DEFINE v == [u EXCEPT !.scb.startInt = FALSE]
<1>1. Flags(v, u)
  BY DEF BtuInv, BtuTyped, IsBtu, BtuFields, ScbFields, Flags, SameAvdt, SameChannels
<1>2. StartFailed(u) = IF u.scb.started \/ u.scb.co THEN u ELSE Report(v, Msg("START", None, FALSE))
  BY DEF StartFailed
<1> HIDE DEF v
<1>3. Stay(v, u)
  BY <1>1, FlagsStay
<1>4. "START" \in AnyDev \ {"CLOSE"} /\ None \in Peers
  BY DEF AnyDev, Peers
<1>5. Stay(Report(v, Msg("START", None, FALSE)), v)
  BY <1>3, <1>4, ReportStay DEF Stay, Moved
<1>6. Stay(Report(v, Msg("START", None, FALSE)), u)
  BY <1>3, <1>5, StayTrans
<1> QED
  BY <1>2, <1>6, StayRefl

LEMMA DoStartStay == ASSUME NEW u, BtuInv(u), u.scb.state # "none" PROVE Stay(DoStart(u), u)
<1>1. CASE u.scb.started
  BY <1>1, StartOkStay DEF DoStart
<1>2. CASE ~u.scb.started /\ u.scb.startInt
  BY <1>2, StayRefl DEF DoStart
<1>3. CASE ~u.scb.started /\ ~u.scb.startInt
  <2> DEFINE v == [u EXCEPT !.scb.startInt = TRUE]
  <2>1. Flags(v, u)
    BY DEF BtuInv, BtuTyped, IsBtu, BtuFields, ScbFields, Flags, SameAvdt, SameChannels
  <2>2. DoStart(u) = StreamReq(v, "start")
    BY <1>3 DEF DoStart
  <2> HIDE DEF v
  <2>3. Stay(v, u)
    BY <2>1, FlagsStay
  <2>4. Stay(StreamReq(v, "start"), v)
    BY <2>3, StreamReqBelow, BelowStay DEF Stay, Moved
  <2> QED
    BY <2>2, <2>3, <2>4, StayTrans
<1> QED
  BY <1>1, <1>2, <1>3

\* bta_av_suspend_cfm: the stream stays open, or is closed after a failure.
LEMMA SuspendCfmSteps ==
  ASSUME NEW u, BtuInv(u), u.scb.state = "open", NEW m \in Messages
  PROVE  Stay(SuspendCfm(u, m), u) \/ (Moved(SuspendCfm(u, m), u) /\ SuspendCfm(u, m).scb.state = "closing")
<1>1. CASE ~u.scb.started
  BY <1>1, StayRefl DEF SuspendCfm
<1>2. CASE u.scb.started
  <2> DEFINE ev == IF m.ev = "SUSPEND_IND" THEN "SUSPEND_REMOTE" ELSE "SUSPEND"
             v == IF m.ok THEN [u EXCEPT !.scb.started = FALSE]
                  ELSE DoClose(Go([u EXCEPT !.scb.sup = FALSE], "closing"))
             w == [v EXCEPT !.scb.co = FALSE]
  <2>1. SuspendCfm(u, m) = Report(w, Msg(ev, None, m.ok))
    BY <1>2 DEF SuspendCfm
  <2>2. ev \in AnyDev \ {"CLOSE"} /\ ev # "OPEN" /\ None \in Peers /\ m.ok \in BOOLEAN
    BY DEF AnyDev, Peers, Messages
  <2> HIDE DEF ev
  <2>3. Stay(v, u) \/ (Moved(v, u) /\ v.scb.state = "closing")
    <3>1. CASE m.ok
      <4>1. Flags([u EXCEPT !.scb.started = FALSE], u)
        BY DEF BtuInv, BtuTyped, IsBtu, BtuFields, ScbFields, Flags, SameAvdt, SameChannels
      <4> QED
        BY <3>1, <4>1, FlagsStay
    <3>2. CASE ~m.ok
      <4> DEFINE x == [u EXCEPT !.scb.sup = FALSE]
      <4>1. Flags(x, u)
        BY DEF BtuInv, BtuTyped, IsBtu, BtuFields, ScbFields, Flags, SameAvdt, SameChannels
      <4>2. v = DoClose(Go(x, "closing"))
        BY <3>2
      <4> HIDE DEF x, v
      <4>3. Stay(x, u)
        BY <4>1, FlagsStay
      <4>4. "closing" \in StrStates \ {"none"}
        BY DEF StrStates
      <4>5. Moved(Go(x, "closing"), x) /\ Go(x, "closing").scb.state = "closing"
        <5>1. BtuInv(x)
          BY <4>3 DEF Stay, Moved
        <5> QED
          BY <4>4, <5>1, GoMoved
      <4>6. Stay(DoClose(Go(x, "closing")), Go(x, "closing"))
        BY <4>5, DoCloseStay DEF Moved
      <4> QED
        BY <4>2, <4>3, <4>5, <4>6, MovedTrans DEF Stay
    <3> QED
      BY <3>1, <3>2
  <2> HIDE DEF v
  <2>4. BtuInv(v) /\ v.scb.state # "none"
    BY <2>3 DEF Stay, Moved
  <2>5. Flags(w, v)
    BY <2>4 DEF BtuInv, BtuTyped, IsBtu, BtuFields, ScbFields, Flags, SameAvdt, SameChannels
  <2> HIDE DEF w
  <2>6. Stay(w, v)
    BY <2>4, <2>5, FlagsStay
  <2>7. Stay(Report(w, Msg(ev, None, m.ok)), w)
    BY <2>2, <2>6, ReportStay DEF Stay, Moved
  <2>8. Stay(Report(w, Msg(ev, None, m.ok)), v)
    BY <2>6, <2>7, StayTrans
  <2> QED
    BY <2>1, <2>3, <2>8, StayTrans, MovedTrans DEF Stay
<1> QED
  BY <1>1, <1>2

-----------------------------------------------------------------------------
(* bta_av_ssm_execute.                                                     *)

\* Leaving INIT, INCOMING, OPENING or OPEN for any state but OPEN.
LEMMA LeavesSteps ==
  ASSUME NEW u, u.scb.state \in {"init", "incoming", "opening", "open"},
         NEW v, Moved(v, u), v.scb.state # "open"
  PROVE  Steps(v, u)
BY MovedHandled DEF Steps, Gone

\* A step that closes the stream or leaves OPEN.
LEMMA ClosesSteps ==
  ASSUME NEW u, u.scb.state = "closing", NEW v, Closes(v, u) PROVE Steps(v, u)
BY MovedHandled DEF Steps, Gone, Closes

\* The next state, and then an action that stays there.
LEMMA GoState ==
  ASSUME NEW u, BtuInv(u), NEW s \in {"init", "incoming", "open", "closing"}
  PROVE  /\ Moved(Go(u, s), u) /\ BtuInv(Go(u, s)) /\ Go(u, s).scb.state = s
         /\ Go(u, s).scb.dereg = u.scb.dereg /\ Go(u, s).scb.peer = u.scb.peer
         /\ Go(u, s).evts = u.evts
<1>1. s \in StrStates \ {"none"} /\ s # "opening"
  BY DEF StrStates
<1> QED
  BY <1>1, GoMoved DEF Moved

\* The state INIT of the stream.
LEMMA InitSstSteps ==
  ASSUME NEW u, BtuInv(u), u.scb.state = "init", NEW m \in Messages
  PROVE  Steps(InitSst(u, m), u)
<1>1. CASE m.ev = "API_OPEN"
  <2>1. m.dev \in Devices
    BY <1>1 DEF Messages, Named
  <2>2. Moved(DoDisc(Go(u, "opening"), m.dev), u) /\ DoDisc(Go(u, "opening"), m.dev).scb.state = "opening"
    BY <2>1, DoDiscMoved
  <2> QED
    BY <1>1, <2>2, LeavesSteps DEF InitSst
<1>2. CASE m.ev = "CLOSE"
  <2>1. Moved(Cleanup(u), u) /\ Cleanup(u).scb.state # "open"
    BY CleanupDone
  <2> QED
    BY <1>2, <2>1, LeavesSteps DEF InitSst
<1>3. CASE m.ev = "CONFIG_IND"
  <2>1. Stay(ConfigInd(Go(u, "incoming"), m), Go(u, "incoming"))
    BY <1>3, GoState, ConfigIndStay
  <2>2. /\ Moved(ConfigInd(Go(u, "incoming"), m), u)
        /\ ConfigInd(Go(u, "incoming"), m).scb.state = "incoming"
    BY <2>1, GoState, MovedTrans DEF Stay
  <2> QED
    BY <1>3, <2>2, LeavesSteps DEF InitSst
<1>4. CASE m.ev \in {"SDP_OK", "SDP_FAIL"}
  BY <1>4, FreeSdbStay, StaySteps DEF InitSst
<1>5. CASE m.ev \notin {"API_OPEN", "CLOSE", "CONFIG_IND", "SDP_OK", "SDP_FAIL"}
  <2>1. m.ev # "ACP_CONNECT"
    BY DEF Messages, AnyDev, Named
  <2>2. InitSst(u, m) = u
    BY <1>5, <2>1 DEF InitSst
  <2> QED
    BY <2>2, StayRefl, StaySteps
<1> QED
  BY <1>1, <1>2, <1>3, <1>4, <1>5

\* INCOMING.
LEMMA IncomingSstSteps ==
  ASSUME NEW u, BtuInv(u), u.scb.state = "incoming", NEW m \in Messages
  PROVE  Steps(IncomingSst(u, m), u)
<1>0. m.dev \in Peers
  BY DEF Messages
<1>1. CASE m.ev = "API_OPEN"
  <2>1. m.dev \in Devices
    BY <1>1 DEF Messages, Named
  <2>2. Moved(OpenAtInc(u, m.dev), u) /\ OpenAtInc(u, m.dev).scb.state # "open"
    BY <2>1, OpenAtIncMoved
  <2> QED
    BY <1>1, <2>2, LeavesSteps DEF IncomingSst
<1>2. CASE m.ev = "CLOSE"
  <2>1. Closes(DoDisconnect(Go(u, "closing")), Go(u, "closing"))
    BY GoState, DoDisconnectCloses
  <2>2. Moved(DoDisconnect(Go(u, "closing")), u) /\ DoDisconnect(Go(u, "closing")).scb.state # "open"
    BY <2>1, GoState, MovedTrans DEF Closes
  <2> QED
    BY <1>2, <2>2, LeavesSteps DEF IncomingSst
<1>3. CASE m.ev = "CI_OK"
  BY <1>3, SetconfigRspStay, StaySteps DEF IncomingSst
<1>4. CASE m.ev = "CI_FAIL"
  <2> DEFINE g == Go(u, "init")
             v == SetconfigRej(g, m.dev)
  <2>1. IncomingSst(u, m) = Cleanup(v)
    BY <1>4 DEF IncomingSst
  <2>2. Moved(g, u) /\ BtuInv(g) /\ g.scb.state = "init"
    BY GoState
  <2> HIDE DEF g
  <2>3. Stay(v, g)
    BY <1>0, <2>2, SetconfigRejStay
  <2> HIDE DEF v
  <2>4. Moved(Cleanup(v), v) /\ Cleanup(v).scb.state # "open"
    BY <2>2, <2>3, CleanupDone DEF Stay, Moved
  <2> QED
    BY <2>1, <2>2, <2>3, <2>4, MovedTrans, LeavesSteps DEF Stay
<1>5. CASE m.ev = "OPEN_OK"
  <2>1. /\ Handled(StrOpened(Go(u, "open")), Go(u, "open"))
        /\ Opens(StrOpened(Go(u, "open")).evts)
    BY GoState, StrOpenedOpens
  <2>2. Handled(StrOpened(Go(u, "open")), u)
    BY <2>1, GoState, MovedThenHandled
  <2> QED
    BY <1>5, <2>1, <2>2 DEF IncomingSst, Steps, Gone
<1>6. CASE m.ev \in {"CLOSED", "DISCONNECT"}
  <2>1. Moved(Cleanup(Go(u, "init")), Go(u, "init")) /\ Cleanup(Go(u, "init")).scb.state # "open"
    BY GoState, CleanupDone
  <2>2. Moved(Cleanup(Go(u, "init")), u)
    BY <2>1, GoState, MovedTrans
  <2> QED
    BY <1>6, <2>1, <2>2, LeavesSteps DEF IncomingSst
<1>7. CASE m.ev = "CONFIG_IND"
  BY <1>7, ConfigIndStay, StaySteps DEF IncomingSst
<1>8. CASE m.ev \in {"SDP_OK", "SDP_FAIL"}
  BY <1>8, FreeSdbStay, StaySteps DEF IncomingSst
<1>9. CASE m.ev \notin {"API_OPEN", "CLOSE", "CI_OK", "CI_FAIL", "OPEN_OK", "CLOSED", "DISCONNECT",
                        "CONFIG_IND", "SDP_OK", "SDP_FAIL"}
  <2>1. IncomingSst(u, m) = u
    BY <1>9 DEF IncomingSst
  <2> QED
    BY <2>1, StayRefl, StaySteps
<1> QED
  BY <1>1, <1>2, <1>3, <1>4, <1>5, <1>6, <1>7, <1>8, <1>9

\* OPENING.
LEMMA OpeningSstSteps ==
  ASSUME NEW u, BtuInv(u), u.scb.state = "opening", NEW m \in Messages
  PROVE  Steps(OpeningSst(u, m), u)
<1>0. u.scb.peer \in Devices
  BY DEF BtuInv, Stream
<1>1. CASE m.ev = "CLOSE"
  <2>1. Stay(DoClose(Go(u, "closing")), Go(u, "closing"))
    BY GoState, DoCloseStay
  <2>2. Moved(DoClose(Go(u, "closing")), u) /\ DoClose(Go(u, "closing")).scb.state # "open"
    BY <2>1, GoState, MovedTrans DEF Stay
  <2> QED
    BY <1>1, <2>2, LeavesSteps DEF OpeningSst
<1>2. CASE m.ev = "SDP_OK"
  BY <1>2, ConnectAfterSdpStay, StaySteps DEF OpeningSst
<1>3. CASE m.ev = "SDP_FAIL"
  <2> DEFINE g == Go(u, "init")
             v == FreeSdb(g)
             n == Msg("OPEN", u.scb.peer, FALSE)
  <2>1. OpeningSst(u, m) = Report(v, n)
    BY <1>3 DEF OpeningSst
  <2>2. Moved(g, u) /\ BtuInv(g) /\ g.scb.state = "init"
    BY GoState
  <2> HIDE DEF g
  <2>3. Stay(v, g)
    BY <2>2, FreeSdbStay
  <2> HIDE DEF v
  <2>4. "OPEN" \in AnyDev \ {"CLOSE"} /\ u.scb.peer \in Peers
    BY <1>0 DEF AnyDev, Peers
  <2>5. Stay(Report(v, n), v)
    BY <2>3, <2>4, ReportStay DEF Stay, Moved
  <2>6. Stay(Report(v, n), g)
    BY <2>3, <2>5, StayTrans
  <2> HIDE DEF n
  <2> QED
    BY <2>1, <2>2, <2>6, MovedTrans, LeavesSteps DEF Stay
<1>4. CASE m.ev = "DISC_OK"
  BY <1>0, <1>4, OpenReqBelow, BelowStay, StaySteps DEF OpeningSst
<1>5. CASE m.ev \in {"DISC_FAIL", "OPEN_FAIL"}
  <2>1. Closes(OpenFailed(Go(u, "closing")), Go(u, "closing"))
    BY GoState, OpenFailedCloses
  <2>2. Moved(OpenFailed(Go(u, "closing")), u) /\ OpenFailed(Go(u, "closing")).scb.state # "open"
    BY <2>1, GoState, MovedTrans DEF Closes
  <2> QED
    BY <1>5, <2>2, LeavesSteps DEF OpeningSst
<1>6. CASE m.ev = "OPEN_OK"
  <2>1. /\ Handled(StrOpened(Go(u, "open")), Go(u, "open"))
        /\ Opens(StrOpened(Go(u, "open")).evts)
    BY GoState, StrOpenedOpens
  <2>2. Handled(StrOpened(Go(u, "open")), u)
    BY <2>1, GoState, MovedThenHandled
  <2> QED
    BY <1>6, <2>1, <2>2 DEF OpeningSst, Steps, Gone
<1>7. CASE m.ev = "CONFIG_IND"
  <2>1. Stay(ConfigInd(Go(u, "incoming"), m), Go(u, "incoming"))
    BY <1>7, GoState, ConfigIndStay
  <2>2. /\ Moved(ConfigInd(Go(u, "incoming"), m), u)
        /\ ConfigInd(Go(u, "incoming"), m).scb.state = "incoming"
    BY <2>1, GoState, MovedTrans DEF Stay
  <2> QED
    BY <1>7, <2>2, LeavesSteps DEF OpeningSst
<1>8. CASE m.ev = "CONNECT"
  BY <1>0, <1>8, DiscoverReqBelow, BelowStay, StaySteps DEF OpeningSst
<1>9. CASE m.ev = "DISCONNECT"
  <2>1. Moved(Failed(Go(u, "init")), u) /\ Failed(Go(u, "init")).scb.state # "open"
    BY FailedCloses DEF Closes
  <2> QED
    BY <1>9, <2>1, LeavesSteps DEF OpeningSst
<1>10. CASE m.ev \notin {"CLOSE", "SDP_OK", "SDP_FAIL", "DISC_OK", "DISC_FAIL", "OPEN_FAIL", "OPEN_OK",
                         "CONFIG_IND", "CONNECT", "DISCONNECT"}
  <2>1. OpeningSst(u, m) = u
    BY <1>10 DEF OpeningSst
  <2> QED
    BY <2>1, StayRefl, StaySteps
<1> QED
  BY <1>1, <1>2, <1>3, <1>4, <1>5, <1>6, <1>7, <1>8, <1>9, <1>10

\* OPEN.
LEMMA OpenSstSteps ==
  ASSUME NEW u, BtuInv(u), u.scb.state = "open", NEW m \in Messages
  PROVE  Steps(OpenSst(u, m), u)
<1>0. m.dev \in Peers
  BY DEF Messages
<1>1. CASE m.ev = "CLOSE"
  <2>1. Stay(DoClose(Go(u, "closing")), Go(u, "closing"))
    BY GoState, DoCloseStay
  <2>2. Moved(DoClose(Go(u, "closing")), u) /\ DoClose(Go(u, "closing")).scb.state # "open"
    BY <2>1, GoState, MovedTrans DEF Stay
  <2> QED
    BY <1>1, <2>2, LeavesSteps DEF OpenSst
<1>2. CASE m.ev = "START"
  BY <1>2, DoStartStay, StaySteps DEF OpenSst
<1>3. CASE m.ev = "STOP"
  BY <1>3, StrStoppedStay, StaySteps DEF OpenSst
<1>4. CASE m.ev = "START_OK"
  BY <1>4, StartOkStay, StaySteps DEF OpenSst
<1>5. CASE m.ev = "START_FAIL"
  BY <1>5, StartFailedStay, StaySteps DEF OpenSst
<1>6. CASE m.ev \in {"CLOSED", "DISCONNECT"}
  <2>1. Moved(StrClosed(Go(u, "init")), u) /\ StrClosed(Go(u, "init")).scb.state # "open"
    BY ClosedFromClosing DEF Closes
  <2> QED
    BY <1>6, <2>1, LeavesSteps DEF OpenSst
<1>7. CASE m.ev = "CONFIG_IND"
  BY <1>0, <1>7, SetconfigRejStay, StaySteps DEF OpenSst
<1>8. CASE m.ev \in {"SUSPEND_IND", "SUSPEND_CFM"}
  <2>1. Stay(SuspendCfm(u, m), u) => Steps(SuspendCfm(u, m), u)
    BY StaySteps
  <2>2. Moved(SuspendCfm(u, m), u) /\ SuspendCfm(u, m).scb.state = "closing" => Steps(SuspendCfm(u, m), u)
    BY LeavesSteps
  <2>3. OpenSst(u, m) = SuspendCfm(u, m)
    BY <1>8 DEF OpenSst
  <2> QED
    BY <2>1, <2>2, <2>3, SuspendCfmSteps
<1>9. CASE m.ev \in {"SDP_OK", "SDP_FAIL"}
  BY <1>9, FreeSdbStay, StaySteps DEF OpenSst
<1>10. CASE m.ev \notin {"CLOSE", "START", "STOP", "START_OK", "START_FAIL", "CLOSED", "DISCONNECT",
                         "CONFIG_IND", "SUSPEND_IND", "SUSPEND_CFM", "SDP_OK", "SDP_FAIL"}
  <2>1. OpenSst(u, m) = u
    BY <1>10 DEF OpenSst
  <2> QED
    BY <2>1, StayRefl, StaySteps
<1> QED
  BY <1>1, <1>2, <1>3, <1>4, <1>5, <1>6, <1>7, <1>8, <1>9, <1>10

\* CLOSING.
LEMMA ClosingSstSteps ==
  ASSUME NEW u, BtuInv(u), u.scb.state = "closing", NEW m \in Messages
  PROVE  Steps(ClosingSst(u, m), u)
<1>0. m.dev \in Peers
  BY DEF Messages
<1>1. CASE m.ev \in {"CLOSE", "CLOSED", "OPEN_FAIL"}
  BY <1>1, DoDisconnectCloses, ClosesSteps DEF ClosingSst
<1>2. CASE m.ev \in {"SDP_OK", "SDP_FAIL"}
  <2> DEFINE g == Go(u, "init")
             f == FreeSdb(g)
             v == [f EXCEPT !.scb.failed = TRUE]
  <2>1. ClosingSst(u, m) = StrClosed(v)
    BY <1>2 DEF ClosingSst, Failed
  <2>2. Moved(g, u) /\ BtuInv(g) /\ g.scb.state = "init" /\ g.scb.dereg = u.scb.dereg
    BY GoState
  <2> HIDE DEF g
  <2>3. Stay(f, g)
    BY <2>2, FreeSdbStay
  <2> HIDE DEF f
  <2>4. Stay(v, f)
    BY <2>2, <2>3, FailedFlag DEF Stay, Moved
  <2> HIDE DEF v
  <2>5. Moved(StrClosed(v), v) /\ StrClosed(v).scb.state = IF v.scb.dereg THEN "none" ELSE "init"
    BY <2>2, <2>3, <2>4, StrClosedDone DEF Stay, Moved
  <2>6. Moved(StrClosed(v), u)
    BY <2>2, <2>3, <2>4, <2>5, MovedTrans DEF Stay
  <2>7. Closes(StrClosed(v), u)
    BY <2>2, <2>3, <2>4, <2>5, <2>6 DEF Closes, Gone, Stay
  <2> QED
    BY <2>1, <2>7, ClosesSteps
<1>3. CASE m.ev = "OPEN_OK"
  BY <1>3, DoCloseStay, StaySteps DEF ClosingSst
<1>4. CASE m.ev = "CONFIG_IND"
  BY <1>0, <1>4, SetconfigRejStay, StaySteps DEF ClosingSst
<1>5. CASE m.ev = "DISCONNECT"
  BY <1>5, ClosedFromClosing, ClosesSteps DEF ClosingSst
<1>6. CASE m.ev \notin {"CLOSE", "CLOSED", "OPEN_FAIL", "SDP_OK", "SDP_FAIL", "OPEN_OK", "CONFIG_IND",
                        "DISCONNECT"}
  <2>1. ClosingSst(u, m) = u
    BY <1>6 DEF ClosingSst
  <2> QED
    BY <2>1, StayRefl, StaySteps
<1> QED
  BY <1>1, <1>2, <1>3, <1>4, <1>5, <1>6

\* bta_av_ssm_execute.
LEMMA SsmSteps ==
  ASSUME NEW u, BtuInv(u), NEW m \in Messages PROVE Steps(Ssm(u, m), u)
<1>1. u.scb.state \in StrStates
  BY DEF BtuInv, BtuTyped
<1>2. CASE u.scb.state = "none"
  BY <1>2, StayRefl, StaySteps DEF Ssm
<1>3. CASE u.scb.state = "init"
  BY <1>3, InitSstSteps DEF Ssm
<1>4. CASE u.scb.state = "incoming"
  BY <1>4, IncomingSstSteps DEF Ssm
<1>5. CASE u.scb.state = "opening"
  BY <1>5, OpeningSstSteps DEF Ssm
<1>6. CASE u.scb.state = "open"
  BY <1>6, OpenSstSteps DEF Ssm
<1>7. CASE u.scb.state = "closing"
  BY <1>7, ClosingSstSteps DEF Ssm
<1> QED
  BY <1>1, <1>2, <1>3, <1>4, <1>5, <1>6, <1>7 DEF StrStates

-----------------------------------------------------------------------------
(* The control block, and the handler of the BTU task.                     *)

\* A step after a change that keeps the state.
LEMMA StayThenSteps ==
  ASSUME NEW u, NEW v, NEW w, Stay(v, u), Steps(w, v) PROVE Steps(w, u)
BY MovedThenHandled DEF Stay, Steps, Gone

\* The signalling timer: PENDING is reported of the channel that waits.
LEMMA SigTimerStay == ASSUME NEW u, BtuInv(u) PROVE Stay(SigTimer(u), u)
<1>1. CASE u.lcb = None \/ u.conn
  BY <1>1, StayRefl DEF SigTimer
<1>2. CASE ~(u.lcb = None \/ u.conn)
  <2> DEFINE v == [u EXCEPT !.sig = TRUE]
             m == Msg("PENDING", u.lcb, TRUE)
  <2>1. SigTimer(u) = Report(v, m)
    BY <1>2 DEF SigTimer
  <2>2. u.lcb \in Devices /\ "PENDING" \in Named
    BY <1>2 DEF BtuInv, BtuTyped, Peers, Named
  <2>3. m \in Messages /\ m.ev # "CLOSE" /\ ~IsOpen(m)
    BY <2>2, NamedMsg DEF IsOpen
  <2> HIDE DEF m
  <2>4. Stay(v, u)
    BY AsideFields, AsideStay
  <2> HIDE DEF v
  <2>5. Stay(Report(v, m), v)
    BY <2>3, <2>4, ReportMoved DEF Stay, Moved
  <2> QED
    BY <2>1, <2>4, <2>5, StayTrans
<1> QED
  BY <1>1, <1>2

\* bta_av_sig_chg: the peer of the channel it takes for the stream is saved.
LEMMA SigUpSteps ==
  ASSUME NEW u, BtuInv(u), NEW d \in Devices, NEW acp \in BOOLEAN
  PROVE  LET v == SigUp(u, d, acp)
         IN Steps(v, u) /\ (Stay(v, u) \/ v.scb.peer # None)
<1>1. CASE u.lcb = d
  BY <1>1, StayRefl, StaySteps DEF SigUp
<1>2. CASE u.lcb # d /\ (u.lcb # None \/ u.scb.state = "none")
  <2>1. u.cback[d] \in {"str", "conn"}
    BY DEF BtuInv, BtuTyped, AvdtTyped
  <2>2. Stay(DisconnectReq(u, d, u.cback[d]), u)
    BY <2>1, DisconnectReqBelow, BelowStay
  <2> QED
    BY <1>2, <2>2, StaySteps DEF SigUp
<1>3. CASE u.lcb # d /\ u.lcb = None /\ u.scb.state # "none"
  <2> DEFINE v == [u EXCEPT !.lcb = d, !.conn = FALSE]
             x == [v EXCEPT !.scb.peer = d]
             m == Msg("ACP_CONNECT", d, TRUE)
             y == Ssm(x, m)
             w == SigTimer(y)
             z == [w EXCEPT !.scb.inc = TRUE, !.scb.api = FALSE, !.acp = TRUE]
  <2>1. SigUp(u, d, acp) = IF acp THEN z ELSE v
    BY <1>3 DEF SigUp
  <2>2. /\ BtuFields \subseteq DOMAIN v /\ v.q = u.q /\ v.evts = u.evts /\ v.scb = u.scb /\ v.lcb = d
        /\ SameAvdt(v, u)
    BY DEF BtuInv, BtuTyped, IsBtu, BtuFields, SameAvdt, SameChannels
  <2>3. m.ev = "ACP_CONNECT"
    BY DEF Msg
  <2> HIDE DEF v, m
  <2>4. Stay(v, u) /\ BtuInv(v)
    <3>1. v.lcb \in Peers
      BY <2>2 DEF Peers
    <3>2. Stay(v, u)
      BY <2>2, <3>1, ScbGood, StayBy
    <3> QED
      BY <3>2 DEF Stay, Moved
  <2>5. Stay(x, v) /\ BtuInv(x)
    <3> DEFINE t == [v.scb EXCEPT !.peer = d]
    <3>1. ScbOK(t) /\ t.state = v.scb.state /\ t.dereg = v.scb.dereg /\ t.peer = d /\ d # None
      BY <1>3, <2>2, <2>4, ScbGood, DevicesAssumption DEF ScbOK, ScbFields, Peers
    <3>2. x = [v EXCEPT !.scb = t]
      OBVIOUS
    <3> HIDE DEF t, x
    <3> QED
      BY <2>4, <3>1, <3>2, ScbStay DEF Stay, Moved
  <2>6. x.scb.peer # None
    BY <2>4, DevicesAssumption DEF BtuInv, BtuTyped, IsBtu, BtuFields, ScbFields
  <2> HIDE DEF x
  <2>7. x.scb.state # "none" /\ x.scb.state \in StrStates
    BY <1>3, <2>2, <2>5 DEF Stay, BtuInv, BtuTyped
  <2>8. IF x.scb.state = "init" THEN y = Go(x, "incoming") ELSE y = x
    BY <2>3, <2>7 DEF Ssm, InitSst, IncomingSst, OpeningSst, OpenSst, ClosingSst, StrStates
  <2> HIDE DEF y
  <2>9. BtuInv(y) /\ y.scb.state # "none" /\ y.scb.peer # None
    BY <2>5, <2>7, <2>8, <2>6, GoState
  <2>10. Stay(w, y)
    BY <2>9, SigTimerStay
  <2> HIDE DEF w
  <2>11. BtuInv(w) /\ w.scb.state # "none"
    BY <2>9, <2>10 DEF Stay, Moved
  <2>12. Stay(z, w)
    <3>1. /\ DOMAIN z = DOMAIN w /\ z.q = w.q /\ z.evts = w.evts /\ z.lcb = w.lcb /\ SameAvdt(z, w)
          /\ DOMAIN z.scb = DOMAIN w.scb /\ z.scb.state = w.scb.state /\ z.scb.peer = w.scb.peer
          /\ z.scb.to = w.scb.to /\ z.scb.api = FALSE /\ z.scb.dereg = w.scb.dereg
      BY <2>11 DEF BtuInv, BtuTyped, IsBtu, BtuFields, ScbFields, SameAvdt, SameChannels
    <3> HIDE DEF z
    <3>2. ScbOK(z.scb)
      BY <2>11, <3>1, ScbGood DEF ScbOK
    <3> QED
      BY <2>11, <3>1, <3>2, StayBy DEF BtuInv, BtuTyped, IsBtu
  <2> HIDE DEF z
  <2>13. Stay(z, y)
    BY <2>10, <2>12, StayTrans
  <2>14. Steps(z, x)
    <3>1. CASE x.scb.state = "init"
      <4>1. Moved(y, x) /\ y.scb.state = "incoming"
        BY <2>5, <2>8, <3>1, GoState
      <4>2. Moved(z, x) /\ z.scb.state = "incoming"
        BY <2>13, <4>1, MovedTrans DEF Stay
      <4> QED
        BY <3>1, <4>2, LeavesSteps
    <3>2. CASE x.scb.state # "init"
      BY <2>8, <2>13, <3>2, StaySteps
    <3> QED
      BY <3>1, <3>2
  <2>15. Steps(z, u) /\ z.scb.peer # None
    BY <2>4, <2>5, <2>9, <2>13, <2>14, StayThenSteps DEF Stay
  <2> QED
    BY <2>1, <2>4, <2>15, StaySteps
<1> QED
  BY <1>1, <1>2, <1>3

\* The signalling channel is gone: the control block first, then the stream.
LEMMA SigDownSteps ==
  ASSUME NEW u, BtuInv(u), NEW d \in Peers PROVE Steps(SigDown(u, d), u)
<1> DEFINE v == [u EXCEPT !.lcb = None]
<1>1. /\ BtuFields \subseteq DOMAIN v /\ v.q = u.q /\ v.evts = u.evts /\ v.scb = u.scb /\ v.lcb = None
      /\ SameAvdt(v, u)
  BY DEF BtuInv, BtuTyped, IsBtu, BtuFields, SameAvdt, SameChannels
<1>2. SigDown(u, d) \in {u, v, Ssm(v, Msg("DISCONNECT", d, TRUE))}
  <2>1. CASE u.lcb # d
    BY <2>1 DEF SigDown
  <2>2. CASE u.lcb = d /\ u.conn /\ u.scb.peer = d
    BY <2>2 DEF SigDown
  <2>3. CASE u.lcb = d /\ ~(u.conn /\ u.scb.peer = d)
    BY <2>3 DEF SigDown
  <2> QED
    BY <2>1, <2>2, <2>3
<1> HIDE DEF v
<1>3. Stay(v, u)
  BY <1>1, ScbGood, StayBy DEF Peers
<1>4. "DISCONNECT" \in AnyDev
  BY DEF AnyDev
<1>5. Msg("DISCONNECT", d, TRUE) \in Messages
  BY <1>4, AnyMsg
<1>6. Steps(Ssm(v, Msg("DISCONNECT", d, TRUE)), v)
  BY <1>3, <1>5, SsmSteps DEF Stay, Moved
<1>7. Steps(Ssm(v, Msg("DISCONNECT", d, TRUE)), u)
  BY <1>3, <1>6, StayThenSteps
<1> QED
  BY <1>2, <1>3, <1>7, StayRefl, StaySteps

\* bta_av_acp_sig_timer_cback.
LEMMA AcpTimerStay == ASSUME NEW u, BtuInv(u) PROVE Stay(AcpTimer(u), u)
<1> DEFINE v == [u EXCEPT !.acp = FALSE, !.scb.inc = FALSE]
<1>1. CASE u.scb.state = "none" \/ ~u.scb.inc
  <2>1. AcpTimer(u) = [u EXCEPT !.acp = FALSE]
    BY <1>1 DEF AcpTimer
  <2> QED
    BY <2>1, AsideFields, AsideStay
<1>2. CASE u.scb.state # "none" /\ u.scb.inc
  <2>1. Flags(v, u)
    BY DEF BtuInv, BtuTyped, IsBtu, BtuFields, ScbFields, Flags, SameAvdt, SameChannels
  <2>2. /\ u.scb.state = "opening" => AcpTimer(u) = IF u.scb.sdb THEN u ELSE DiscoverReq(v, u.scb.peer)
        /\ u.scb.state = "incoming" =>
              AcpTimer(u) = IF u.scb.api THEN Post([v EXCEPT !.scb.api = FALSE], Msg("API_OPEN", u.scb.to, TRUE))
                            ELSE v
        /\ u.scb.state \notin {"opening", "incoming"} => AcpTimer(u) = v
    BY <1>2 DEF AcpTimer
  <2> HIDE DEF v
  <2>3. Stay(v, u) /\ BtuInv(v)
    BY <1>2, <2>1, FlagsStay DEF Stay, Moved
  <2>4. CASE u.scb.state = "opening"
    <3>1. u.scb.peer \in Devices
      BY <2>4 DEF BtuInv, Stream
    <3>2. Stay(DiscoverReq(v, u.scb.peer), v)
      BY <2>3, <3>1, DiscoverReqBelow, BelowStay
    <3>3. Stay(DiscoverReq(v, u.scb.peer), u)
      BY <2>3, <3>2, StayTrans
    <3> QED
      BY <2>2, <2>4, <3>3, StayRefl
  <2>5. CASE u.scb.state = "incoming" /\ u.scb.api
    <3> DEFINE t == [v.scb EXCEPT !.api = FALSE]
               x == [v EXCEPT !.scb = t]
               m == Msg("API_OPEN", u.scb.to, TRUE)
    <3>1. u.scb.to \in Devices
      BY <2>5 DEF BtuInv, Stream
    <3>2. ScbOK(t) /\ t.state = v.scb.state /\ t.dereg = v.scb.dereg /\ t.peer = v.scb.peer
      <4>1. v.scb.state = "incoming" /\ ScbOK(v.scb)
        BY <2>3, <2>5, ScbGood DEF Stay
      <4> QED
        BY <4>1 DEF ScbOK, ScbFields
    <3>3. "API_OPEN" \in Named
      BY DEF Named
    <3>4. m \in Messages /\ m.ev = "API_OPEN"
      BY <3>1, <3>3, NamedMsg
    <3>5. AcpTimer(u) = Post(x, m)
      BY <2>2, <2>5
    <3> HIDE DEF t, m
    <3>6. Stay(x, v)
      BY <2>3, <3>2, ScbStay
    <3> HIDE DEF x
    <3>7. Stay(Post(x, m), x)
      BY <3>4, <3>6, PostStay DEF Stay, Moved
    <3> QED
      BY <2>3, <3>5, <3>6, <3>7, StayTrans
  <2>6. CASE u.scb.state # "opening" /\ ~(u.scb.state = "incoming" /\ u.scb.api)
    BY <2>2, <2>3, <2>6
  <2> QED
    BY <2>4, <2>5, <2>6
<1> QED
  BY <1>1, <1>2

\* A deregistered stream is gone, or closes for good.
LEMMA DeregisterGone ==
  ASSUME NEW u, BtuInv(u) PROVE Moved(Deregister(u), u) /\ Gone(Deregister(u))
<1>1. CASE u.scb.state = "none"
  BY <1>1, StayRefl DEF Deregister, Stay, Gone
<1>2. CASE u.scb.state # "none"
  <2> DEFINE t == [u.scb EXCEPT !.dereg = TRUE]
             x == [u EXCEPT !.scb = t]
             m == Msg("CLOSE", None, TRUE)
  <2>1. ScbOK(t) /\ t.state = u.scb.state /\ t.dereg = TRUE
    BY <1>2, ScbGood DEF ScbOK, ScbFields
  <2>2. Deregister(u) = Ssm(x, m)
    BY <1>2 DEF Deregister
  <2>3. m.ev = "CLOSE"
    BY DEF Msg
  <2> HIDE DEF t, m
  <2>4. Moved(x, u) /\ x.scb = t /\ BtuInv(x)
    BY <2>1, ScbStay DEF Moved
  <2> HIDE DEF x
  <2>5. x.scb.state \in StrStates \ {"none"} /\ x.scb.dereg
    BY <1>2, <2>1, <2>4 DEF BtuInv, BtuTyped
  <2>6. Moved(Ssm(x, m), x) /\ Gone(Ssm(x, m))
    <3> DEFINE g == Go(x, "closing")
    <3>0. Moved(g, x) /\ BtuInv(g) /\ g.scb.state = "closing" /\ g.scb.dereg
      BY <2>4, <2>5, GoState
    <3> HIDE DEF g
    <3>1. Moved(DoDisconnect(g), x) /\ Gone(DoDisconnect(g))
      BY <3>0, DoDisconnectCloses, MovedTrans DEF Closes
    <3>2. Moved(DoClose(g), x) /\ Gone(DoClose(g))
      <4>1. Stay(DoClose(g), g)
        BY <3>0, DoCloseStay
      <4> QED
        BY <3>0, <4>1, MovedTrans DEF Stay, Gone
    <3>3. CASE x.scb.state = "init"
      <4>1. Ssm(x, m) = Cleanup(x)
        BY <2>3, <3>3 DEF Ssm, InitSst
      <4> QED
        BY <2>4, <2>5, <3>3, <4>1, CleanupDone DEF Gone
    <3>4. CASE x.scb.state = "incoming"
      <4>1. Ssm(x, m) = DoDisconnect(g)
        BY <2>3, <3>4 DEF Ssm, IncomingSst, g
      <4> QED
        BY <3>1, <4>1
    <3>5. CASE x.scb.state = "opening"
      <4>1. Ssm(x, m) = DoClose(g)
        BY <2>3, <3>5 DEF Ssm, OpeningSst, g
      <4> QED
        BY <3>2, <4>1
    <3>6. CASE x.scb.state = "open"
      <4>1. Ssm(x, m) = DoClose(g)
        BY <2>3, <3>6 DEF Ssm, OpenSst, g
      <4> QED
        BY <3>2, <4>1
    <3>7. CASE x.scb.state = "closing"
      <4>1. Ssm(x, m) = DoDisconnect(x)
        BY <2>3, <3>7 DEF Ssm, ClosingSst
      <4> QED
        BY <2>4, <2>5, <3>7, <4>1, DoDisconnectCloses DEF Closes
    <3> QED
      BY <2>5, <3>3, <3>4, <3>5, <3>6, <3>7 DEF StrStates
  <2> QED
    BY <2>2, <2>4, <2>6, MovedTrans
<1> QED
  BY <1>1, <1>2

\* bta_av_hdl_event: only the registration brings a stream that is gone back.
LEMMA HandleSteps ==
  ASSUME NEW u, BtuInv(u), NEW m \in Messages
  PROVE  LET v == Handle(u, m)
         IN /\ Handled(v, u)
            /\ v.scb.state = "open" => \/ u.scb.state = "open" /\ (NoClose(u.evts) => NoClose(v.evts))
                                       \/ Opens(v.evts)
            /\ m.ev # "REG" /\ Gone(u) => Gone(v)
            /\ m.ev = "DEREG" => Gone(v)
<1>0. m.dev \in Peers /\ m.ok \in BOOLEAN
  BY DEF Messages
<1>1. CASE m.ev = "REG"
  <2>1. CASE u.scb.state # "none"
    <3>1. Handle(u, m) = u
      BY <1>1, <2>1 DEF Handle
    <3> QED
      BY <1>1, <3>1, StayRefl, MovedHandled DEF Stay
  <2>2. CASE u.scb.state = "none"
    <3>1. Handle(u, m) = Go(u, "init")
      BY <1>1, <2>2 DEF Handle
    <3> QED
      BY <1>1, <3>1, GoState, MovedHandled
  <2> QED
    BY <2>1, <2>2
<1>2. CASE m.ev = "DEREG"
  <2>1. Handle(u, m) = Deregister(u)
    BY <1>2 DEF Handle
  <2> QED
    BY <2>1, DeregisterGone, MovedHandled DEF Gone
<1>3. CASE m.ev = "DISABLE"
  <2> DEFINE v == Deregister(u)
             w == [v EXCEPT !.sig = FALSE, !.acp = FALSE]
  <2>1. Handle(u, m) = w
    BY <1>3 DEF Handle
  <2>2. Moved(v, u) /\ Gone(v) /\ BtuInv(v)
    BY DeregisterGone DEF Moved
  <2> HIDE DEF v
  <2>3. Stay(w, v)
    BY <2>2, AsideFields, AsideStay
  <2> HIDE DEF w
  <2>4. Moved(w, u) /\ Gone(w)
    BY <2>2, <2>3, MovedTrans DEF Stay, Gone
  <2> QED
    BY <1>3, <2>1, <2>4, MovedHandled DEF Gone
<1>4. CASE m.ev = "DISCNT"
  <2> DEFINE v == DisconnectReq(u, m.dev, "conn")
             w == [v EXCEPT !.sig = FALSE]
  <2>1. m.dev \in Devices
    BY <1>4 DEF Messages, Named
  <2>2. Handle(u, m) = w
    BY <1>4 DEF Handle
  <2>3. Stay(v, u)
    BY <2>1, DisconnectReqBelow, BelowStay
  <2> HIDE DEF v
  <2>4. Stay(w, v)
    BY <2>3, AsideFields, AsideStay DEF Stay, Moved
  <2> HIDE DEF w
  <2>5. Steps(w, u)
    BY <2>3, <2>4, StayTrans, StaySteps
  <2> QED
    BY <1>4, <2>2, <2>5 DEF Steps
<1>5. CASE m.ev = "SIG_UP"
  <2>1. m.dev \in Devices
    BY <1>5 DEF Messages, Named
  <2>2. Handle(u, m) = SigUp(u, m.dev, m.ok)
    BY <1>5 DEF Handle
  <2>3. Steps(SigUp(u, m.dev, m.ok), u)
    BY <1>0, <2>1, SigUpSteps
  <2> QED
    BY <1>5, <2>2, <2>3 DEF Steps
<1>6. CASE m.ev = "SIG_DOWN"
  <2>1. Handle(u, m) = SigDown(u, m.dev)
    BY <1>6 DEF Handle
  <2>2. Steps(SigDown(u, m.dev), u)
    BY <1>0, SigDownSteps
  <2> QED
    BY <1>6, <2>1, <2>2 DEF Steps
<1>7. CASE m.ev = "SIG_TIMER"
  <2>1. Handle(u, m) = SigTimer(u)
    BY <1>7 DEF Handle
  <2>2. Steps(SigTimer(u), u)
    BY SigTimerStay, StaySteps
  <2> QED
    BY <1>7, <2>1, <2>2 DEF Steps
<1>8. CASE m.ev \notin {"REG", "DEREG", "DISABLE", "DISCNT", "SIG_UP", "SIG_DOWN", "SIG_TIMER"}
  <2>1. Handle(u, m) = Ssm(u, m)
    BY <1>8 DEF Handle
  <2>2. Steps(Ssm(u, m), u)
    BY SsmSteps
  <2> QED
    BY <1>8, <2>1, <2>2 DEF Steps
<1> QED
  BY <1>1, <1>2, <1>3, <1>4, <1>5, <1>6, <1>7, <1>8

-----------------------------------------------------------------------------
(* Who the stream is with.                                                 *)

\* A stream that is open has saved its peer, and one that is configured has, or
\* its configuration waits ahead of any message that it has opened.
Peered(u) ==
  /\ u.scb.state = "open" => u.scb.peer # None
  /\ u.scb.state = "incoming" => u.scb.peer # None \/ Awaited(u.q)

\* The same when a message has been taken from the queue.
Meets(u, m) ==
  /\ u.scb.state = "open" => u.scb.peer # None
  /\ u.scb.state = "incoming" => \/ u.scb.peer # None
                                 \/ m.ev = "CONFIG_IND"
                                 \/ m.ev # "OPEN_OK" /\ Awaited(u.q)

\* Only SETCONFIG itself can be awaited no more.
LEMMA MeetsPeered == ASSUME NEW u, NEW m, Meets(u, m), m.ev # "CONFIG_IND" PROVE Peered(u)
BY DEF Meets, Peered

LEMMA PeeredMeets == ASSUME NEW u, NEW m, Peered(u), m.ev # "OPEN_OK" PROVE Meets(u, m)
BY DEF Meets, Peered

\* What keeps the stream's state, what leaves it for one without a peer, and
\* what has a peer.
LEMMA StayPeered == ASSUME NEW u, NEW v, Stay(v, u), Peered(u) PROVE Peered(v)
BY DEF Stay, Moved, Kept, Peered

LEMMA AwayPeered == ASSUME NEW v, v.scb.state \notin {"open", "incoming"} PROVE Peered(v)
BY DEF Peered

LEMMA WithPeer == ASSUME NEW v, v.scb.peer # None PROVE Peered(v)
BY DEF Peered

\* A configuration saves the peer.
LEMMA ConfigIndPeered ==
  ASSUME NEW u, BtuInv(u), NEW m \in Messages, m.ev = "CONFIG_IND"
  PROVE  Peered(ConfigInd(Go(u, "incoming"), m))
BY GoState, ConfigIndStay, WithPeer

\* INIT: only a configuration leads to INCOMING, and nothing to OPEN.
LEMMA InitSstPeered ==
  ASSUME NEW u, BtuInv(u), u.scb.state = "init", NEW m \in Messages
  PROVE  Peered(InitSst(u, m))
<1>0. Peered(u)
  BY AwayPeered
<1>1. CASE m.ev = "API_OPEN"
  <2>1. m.dev \in Devices
    BY <1>1 DEF Messages, Named
  <2>2. DoDisc(Go(u, "opening"), m.dev).scb.state = "opening"
    BY <2>1, DoDiscMoved
  <2> QED
    BY <1>1, <2>2, AwayPeered DEF InitSst
<1>2. CASE m.ev = "CLOSE"
  <2>1. Cleanup(u).scb.state \notin {"open", "incoming"}
    BY CleanupDone
  <2> QED
    BY <1>2, <2>1, AwayPeered DEF InitSst
<1>3. CASE m.ev = "CONFIG_IND"
  BY <1>3, ConfigIndPeered DEF InitSst
<1>4. CASE m.ev \in {"SDP_OK", "SDP_FAIL"}
  BY <1>0, <1>4, FreeSdbStay, StayPeered DEF InitSst
<1>5. CASE m.ev \notin {"API_OPEN", "CLOSE", "CONFIG_IND", "SDP_OK", "SDP_FAIL"}
  <2>1. m.ev # "ACP_CONNECT"
    BY DEF Messages, AnyDev, Named
  <2> QED
    BY <1>0, <1>5, <2>1 DEF InitSst
<1> QED
  BY <1>1, <1>2, <1>3, <1>4, <1>5

\* INCOMING: what opens the stream finds a peer saved.
LEMMA IncomingSstPeered ==
  ASSUME NEW u, BtuInv(u), u.scb.state = "incoming", NEW m \in Messages, Meets(u, m)
  PROVE  Peered(IncomingSst(u, m))
<1>0. m.ev # "CONFIG_IND" => Peered(u)
  BY MeetsPeered
<1>1. CASE m.ev = "API_OPEN"
  <2>1. m.dev \in Devices
    BY <1>1 DEF Messages, Named
  <2> DEFINE v == OpenAtInc(u, m.dev)
  <2>2. Moved(v, u) /\ v.scb.state \in {"incoming", "init"} /\ v.scb.peer = u.scb.peer
    BY <2>1, OpenAtIncMoved
  <2>3. IncomingSst(u, m) = v
    BY <1>1 DEF IncomingSst
  <2> HIDE DEF v
  <2> QED
    BY <1>0, <1>1, <2>2, <2>3 DEF Peered, Moved, Kept
<1>2. CASE m.ev = "CLOSE"
  <2>1. DoDisconnect(Go(u, "closing")).scb.state \notin {"open", "incoming"}
    BY GoState, DoDisconnectCloses DEF Closes
  <2> QED
    BY <1>2, <2>1, AwayPeered DEF IncomingSst
<1>3. CASE m.ev = "CI_OK"
  BY <1>0, <1>3, SetconfigRspStay, StayPeered DEF IncomingSst
<1>4. CASE m.ev = "CI_FAIL"
  <2> DEFINE g == Go(u, "init")
             v == SetconfigRej(g, m.dev)
  <2>1. IncomingSst(u, m) = Cleanup(v)
    BY <1>4 DEF IncomingSst
  <2>2. BtuInv(g) /\ g.scb.state = "init" /\ m.dev \in Peers
    BY GoState DEF Messages
  <2> HIDE DEF g
  <2>3. Stay(v, g)
    BY <2>2, SetconfigRejStay
  <2> HIDE DEF v
  <2>4. Cleanup(v).scb.state \notin {"open", "incoming"}
    BY <2>2, <2>3, CleanupDone DEF Stay, Moved
  <2> QED
    BY <2>1, <2>4, AwayPeered
<1>5. CASE m.ev = "OPEN_OK"
  <2>1. StrOpened(Go(u, "open")).scb.peer = u.scb.peer
    BY GoState, StrOpenedOpens
  <2> QED
    BY <1>5, <2>1, WithPeer DEF IncomingSst, Meets
<1>6. CASE m.ev \in {"CLOSED", "DISCONNECT"}
  <2>1. Cleanup(Go(u, "init")).scb.state \notin {"open", "incoming"}
    BY GoState, CleanupDone
  <2> QED
    BY <1>6, <2>1, AwayPeered DEF IncomingSst
<1>7. CASE m.ev = "CONFIG_IND"
  BY <1>7, ConfigIndStay, WithPeer DEF IncomingSst
<1>8. CASE m.ev \in {"SDP_OK", "SDP_FAIL"}
  BY <1>0, <1>8, FreeSdbStay, StayPeered DEF IncomingSst
<1>9. CASE m.ev \notin {"API_OPEN", "CLOSE", "CI_OK", "CI_FAIL", "OPEN_OK", "CLOSED", "DISCONNECT",
                        "CONFIG_IND", "SDP_OK", "SDP_FAIL"}
  BY <1>0, <1>9 DEF IncomingSst
<1> QED
  BY <1>1, <1>2, <1>3, <1>4, <1>5, <1>6, <1>7, <1>8, <1>9

\* OPENING: the peer is known.
LEMMA OpeningSstPeered ==
  ASSUME NEW u, BtuInv(u), u.scb.state = "opening", NEW m \in Messages
  PROVE  Peered(OpeningSst(u, m))
<1>0. Peered(u) /\ u.scb.peer \in Devices /\ u.scb.peer # None
  BY AwayPeered, DevicesAssumption DEF BtuInv, Stream
<1>1. CASE m.ev = "CLOSE"
  <2>1. DoClose(Go(u, "closing")).scb.state \notin {"open", "incoming"}
    BY GoState, DoCloseStay DEF Stay
  <2> QED
    BY <1>1, <2>1, AwayPeered DEF OpeningSst
<1>2. CASE m.ev = "SDP_OK"
  BY <1>0, <1>2, ConnectAfterSdpStay, StayPeered DEF OpeningSst
<1>3. CASE m.ev = "SDP_FAIL"
  <2> DEFINE g == Go(u, "init")
             v == FreeSdb(g)
             n == Msg("OPEN", u.scb.peer, FALSE)
  <2>1. OpeningSst(u, m) = Report(v, n)
    BY <1>3 DEF OpeningSst
  <2>2. BtuInv(g) /\ g.scb.state = "init"
    BY GoState
  <2> HIDE DEF g
  <2>3. Stay(v, g)
    BY <2>2, FreeSdbStay
  <2> HIDE DEF v
  <2>4. "OPEN" \in AnyDev \ {"CLOSE"} /\ u.scb.peer \in Peers
    BY <1>0 DEF AnyDev, Peers
  <2>5. Stay(Report(v, n), v)
    BY <2>3, <2>4, ReportStay DEF Stay, Moved
  <2> HIDE DEF n
  <2> QED
    BY <2>1, <2>2, <2>3, <2>5, AwayPeered DEF Stay
<1>4. CASE m.ev = "DISC_OK"
  BY <1>0, <1>4, OpenReqBelow, BelowStay, StayPeered DEF OpeningSst
<1>5. CASE m.ev \in {"DISC_FAIL", "OPEN_FAIL"}
  <2>1. OpenFailed(Go(u, "closing")).scb.state \notin {"open", "incoming"}
    BY GoState, OpenFailedCloses DEF Closes
  <2> QED
    BY <1>5, <2>1, AwayPeered DEF OpeningSst
<1>6. CASE m.ev = "OPEN_OK"
  <2>1. StrOpened(Go(u, "open")).scb.peer = u.scb.peer
    BY GoState, StrOpenedOpens
  <2> QED
    BY <1>0, <1>6, <2>1, WithPeer DEF OpeningSst
<1>7. CASE m.ev = "CONFIG_IND"
  BY <1>7, ConfigIndPeered DEF OpeningSst
<1>8. CASE m.ev = "CONNECT"
  BY <1>0, <1>8, DiscoverReqBelow, BelowStay, StayPeered DEF OpeningSst
<1>9. CASE m.ev = "DISCONNECT"
  <2>1. Failed(Go(u, "init")).scb.state \notin {"open", "incoming"}
    BY FailedCloses DEF Closes
  <2> QED
    BY <1>9, <2>1, AwayPeered DEF OpeningSst
<1>10. CASE m.ev \notin {"CLOSE", "SDP_OK", "SDP_FAIL", "DISC_OK", "DISC_FAIL", "OPEN_FAIL", "OPEN_OK",
                         "CONFIG_IND", "CONNECT", "DISCONNECT"}
  BY <1>0, <1>10 DEF OpeningSst
<1> QED
  BY <1>1, <1>2, <1>3, <1>4, <1>5, <1>6, <1>7, <1>8, <1>9, <1>10

\* OPEN: the peer is kept while the stream is open.
LEMMA OpenSstPeered ==
  ASSUME NEW u, BtuInv(u), u.scb.state = "open", u.scb.peer # None, NEW m \in Messages
  PROVE  Peered(OpenSst(u, m))
<1>0. Peered(u) /\ m.dev \in Peers
  BY WithPeer DEF Messages
<1>1. CASE m.ev = "CLOSE"
  <2>1. DoClose(Go(u, "closing")).scb.state \notin {"open", "incoming"}
    BY GoState, DoCloseStay DEF Stay
  <2> QED
    BY <1>1, <2>1, AwayPeered DEF OpenSst
<1>2. CASE m.ev = "START"
  BY <1>0, <1>2, DoStartStay, StayPeered DEF OpenSst
<1>3. CASE m.ev = "STOP"
  BY <1>0, <1>3, StrStoppedStay, StayPeered DEF OpenSst
<1>4. CASE m.ev = "START_OK"
  BY <1>0, <1>4, StartOkStay, StayPeered DEF OpenSst
<1>5. CASE m.ev = "START_FAIL"
  BY <1>0, <1>5, StartFailedStay, StayPeered DEF OpenSst
<1>6. CASE m.ev \in {"CLOSED", "DISCONNECT"}
  <2>1. StrClosed(Go(u, "init")).scb.state \notin {"open", "incoming"}
    BY ClosedFromClosing DEF Closes
  <2> QED
    BY <1>6, <2>1, AwayPeered DEF OpenSst
<1>7. CASE m.ev = "CONFIG_IND"
  BY <1>0, <1>7, SetconfigRejStay, StayPeered DEF OpenSst
<1>8. CASE m.ev \in {"SUSPEND_IND", "SUSPEND_CFM"}
  <2>1. OpenSst(u, m) = SuspendCfm(u, m)
    BY <1>8 DEF OpenSst
  <2>2. Stay(SuspendCfm(u, m), u) \/ SuspendCfm(u, m).scb.state = "closing"
    BY SuspendCfmSteps
  <2> QED
    BY <1>0, <2>1, <2>2, StayPeered, AwayPeered
<1>9. CASE m.ev \in {"SDP_OK", "SDP_FAIL"}
  BY <1>0, <1>9, FreeSdbStay, StayPeered DEF OpenSst
<1>10. CASE m.ev \notin {"CLOSE", "START", "STOP", "START_OK", "START_FAIL", "CLOSED", "DISCONNECT",
                         "CONFIG_IND", "SUSPEND_IND", "SUSPEND_CFM", "SDP_OK", "SDP_FAIL"}
  BY <1>0, <1>10 DEF OpenSst
<1> QED
  BY <1>1, <1>2, <1>3, <1>4, <1>5, <1>6, <1>7, <1>8, <1>9, <1>10

\* CLOSING leads to INIT only.
LEMMA ClosingSstPeered ==
  ASSUME NEW u, BtuInv(u), u.scb.state = "closing", NEW m \in Messages
  PROVE  Peered(ClosingSst(u, m))
<1>0. Peered(u) /\ m.dev \in Peers
  BY AwayPeered DEF Messages
<1>1. CASE m.ev \in {"CLOSE", "CLOSED", "OPEN_FAIL"}
  <2>1. DoDisconnect(u).scb.state \notin {"open", "incoming"}
    BY DoDisconnectCloses DEF Closes
  <2> QED
    BY <1>1, <2>1, AwayPeered DEF ClosingSst
<1>2. CASE m.ev \in {"SDP_OK", "SDP_FAIL"}
  <2> DEFINE f == FreeSdb(Go(u, "init"))
             v == [f EXCEPT !.scb.failed = TRUE]
  <2>1. ClosingSst(u, m) = StrClosed(v)
    BY <1>2 DEF ClosingSst, Failed
  <2>2. BtuInv(f) /\ f.scb.state = "init"
    BY GoState, FreeSdbStay DEF Stay, Moved
  <2> HIDE DEF f
  <2>3. Stay(v, f)
    BY <2>2, FailedFlag
  <2> HIDE DEF v
  <2>4. StrClosed(v).scb.state \notin {"open", "incoming"}
    BY <2>2, <2>3, StrClosedDone DEF Stay, Moved
  <2> QED
    BY <2>1, <2>4, AwayPeered
<1>3. CASE m.ev = "OPEN_OK"
  BY <1>0, <1>3, DoCloseStay, StayPeered DEF ClosingSst
<1>4. CASE m.ev = "CONFIG_IND"
  BY <1>0, <1>4, SetconfigRejStay, StayPeered DEF ClosingSst
<1>5. CASE m.ev = "DISCONNECT"
  <2>1. StrClosed(Go(u, "init")).scb.state \notin {"open", "incoming"}
    BY ClosedFromClosing DEF Closes
  <2> QED
    BY <1>5, <2>1, AwayPeered DEF ClosingSst
<1>6. CASE m.ev \notin {"CLOSE", "CLOSED", "OPEN_FAIL", "SDP_OK", "SDP_FAIL", "OPEN_OK", "CONFIG_IND",
                        "DISCONNECT"}
  BY <1>0, <1>6 DEF ClosingSst
<1> QED
  BY <1>1, <1>2, <1>3, <1>4, <1>5, <1>6

\* bta_av_ssm_execute.
LEMMA SsmPeered ==
  ASSUME NEW u, BtuInv(u), NEW m \in Messages, Meets(u, m) PROVE Peered(Ssm(u, m))
<1>1. u.scb.state \in StrStates
  BY DEF BtuInv, BtuTyped
<1>2. CASE u.scb.state = "none"
  BY <1>2, AwayPeered DEF Ssm
<1>3. CASE u.scb.state = "init"
  BY <1>3, InitSstPeered DEF Ssm
<1>4. CASE u.scb.state = "incoming"
  BY <1>4, IncomingSstPeered DEF Ssm
<1>5. CASE u.scb.state = "opening"
  BY <1>5, OpeningSstPeered DEF Ssm
<1>6. CASE u.scb.state = "open"
  BY <1>6, OpenSstPeered DEF Ssm, Meets
<1>7. CASE u.scb.state = "closing"
  BY <1>7, ClosingSstPeered DEF Ssm
<1> QED
  BY <1>1, <1>2, <1>3, <1>4, <1>5, <1>6, <1>7 DEF StrStates

\* The signalling channel is gone.
LEMMA SigDownPeered ==
  ASSUME NEW u, BtuInv(u), NEW d \in Peers, Peered(u) PROVE Peered(SigDown(u, d))
<1> DEFINE v == [u EXCEPT !.lcb = None]
           m == Msg("DISCONNECT", d, TRUE)
<1>1. SigDown(u, d) \in {u, v, Ssm(v, m)}
  <2>1. CASE u.lcb # d
    BY <2>1 DEF SigDown
  <2>2. CASE u.lcb = d /\ u.conn /\ u.scb.peer = d
    BY <2>2 DEF SigDown
  <2>3. CASE u.lcb = d /\ ~(u.conn /\ u.scb.peer = d)
    BY <2>3 DEF SigDown
  <2> QED
    BY <2>1, <2>2, <2>3
<1>2. /\ BtuFields \subseteq DOMAIN v /\ v.q = u.q /\ v.evts = u.evts /\ v.scb = u.scb /\ v.lcb = None
      /\ SameAvdt(v, u)
  BY DEF BtuInv, BtuTyped, IsBtu, BtuFields, SameAvdt, SameChannels
<1> HIDE DEF v
<1>3. Stay(v, u)
  BY <1>2, ScbGood, StayBy DEF Peers
<1>4. m \in Messages /\ m.ev = "DISCONNECT"
  <2>1. "DISCONNECT" \in AnyDev
    BY DEF AnyDev
  <2> QED
    BY <2>1, AnyMsg
<1> HIDE DEF m
<1>5. Peered(v) /\ BtuInv(v)
  BY <1>3, StayPeered DEF Stay, Moved
<1>6. Peered(Ssm(v, m))
  BY <1>4, <1>5, PeeredMeets, SsmPeered
<1> QED
  BY <1>1, <1>5, <1>6

\* bta_av_hdl_event.
LEMMA HandlePeered ==
  ASSUME NEW u, BtuInv(u), NEW m \in Messages, Meets(u, m) PROVE Peered(Handle(u, m))
<1>0. m.dev \in Peers /\ m.ok \in BOOLEAN
  BY DEF Messages
<1>1. CASE m.ev = "REG"
  <2>1. Peered(u)
    BY <1>1, MeetsPeered
  <2>2. CASE u.scb.state # "none"
    BY <1>1, <2>1, <2>2 DEF Handle
  <2>3. CASE u.scb.state = "none"
    BY <1>1, <2>3, GoState, AwayPeered DEF Handle
  <2> QED
    BY <2>2, <2>3
<1>2. CASE m.ev = "DEREG"
  BY <1>2, DeregisterGone, AwayPeered DEF Handle, Gone
<1>3. CASE m.ev = "DISABLE"
  <2> DEFINE v == Deregister(u)
             w == [v EXCEPT !.sig = FALSE, !.acp = FALSE]
  <2>1. Handle(u, m) = w
    BY <1>3 DEF Handle
  <2>2. BtuInv(v) /\ Peered(v)
    BY DeregisterGone, AwayPeered DEF Moved, Gone
  <2> HIDE DEF v
  <2>3. Stay(w, v)
    BY <2>2, AsideFields, AsideStay
  <2> QED
    BY <2>1, <2>2, <2>3, StayPeered
<1>4. CASE m.ev = "DISCNT"
  <2> DEFINE v == DisconnectReq(u, m.dev, "conn")
             w == [v EXCEPT !.sig = FALSE]
  <2>1. m.dev \in Devices /\ Peered(u)
    BY <1>4, MeetsPeered DEF Messages, Named
  <2>2. Handle(u, m) = w
    BY <1>4 DEF Handle
  <2>3. Stay(v, u)
    BY <2>1, DisconnectReqBelow, BelowStay
  <2> HIDE DEF v
  <2>4. Stay(w, v)
    BY <2>3, AsideFields, AsideStay DEF Stay, Moved
  <2> QED
    BY <2>1, <2>2, <2>3, <2>4, StayPeered
<1>5. CASE m.ev = "SIG_UP"
  <2> DEFINE v == SigUp(u, m.dev, m.ok)
  <2>1. m.dev \in Devices /\ Peered(u)
    BY <1>5, MeetsPeered DEF Messages, Named
  <2>2. Handle(u, m) = v
    BY <1>5 DEF Handle
  <2>3. Stay(v, u) \/ v.scb.peer # None
    BY <1>0, <2>1, SigUpSteps
  <2> HIDE DEF v
  <2> QED
    BY <2>1, <2>2, <2>3, StayPeered, WithPeer
<1>6. CASE m.ev = "SIG_DOWN"
  <2>1. Peered(u)
    BY <1>6, MeetsPeered
  <2>2. Handle(u, m) = SigDown(u, m.dev)
    BY <1>6 DEF Handle
  <2> QED
    BY <1>0, <2>1, <2>2, SigDownPeered
<1>7. CASE m.ev = "SIG_TIMER"
  <2>1. Peered(u) /\ Handle(u, m) = SigTimer(u)
    BY <1>7, MeetsPeered DEF Handle
  <2> QED
    BY <2>1, SigTimerStay, StayPeered
<1>8. CASE m.ev \notin {"REG", "DEREG", "DISABLE", "DISCNT", "SIG_UP", "SIG_DOWN", "SIG_TIMER"}
  BY <1>8, SsmPeered DEF Handle
<1> QED
  BY <1>1, <1>2, <1>3, <1>4, <1>5, <1>6, <1>7, <1>8
==============================================================================
