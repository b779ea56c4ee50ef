------------------------------- MODULE BtcAv -------------------------------
(***************************************************************************)
(* An A2DP sink's connection: the application, the state machine of the    *)
(* BTC task (btc_av.c) with its queue of connect requests                  *)
(* (btc_profile_queue.c), the BTU task below it (BtaAv.tla), the peers and *)
(* the timers.  The two tasks talk through their queues and nothing else.  *)
(*                                                                         *)
(* One life of the profile: BTC has handled esp_a2d_sink_init, and after   *)
(* esp_a2d_sink_deinit it is not called again.  The application calls      *)
(* connect, disconnect, media control and deinit at most MaxCalls times,   *)
(* as far as the flags it reads in its own task let it; the peers act at   *)
(* most MaxPeer times.                                                     *)
(***************************************************************************)
EXTENDS BtaAv

CONSTANTS MaxCalls, MaxPeer

ASSUME BoundsAssumption == MaxCalls \in Nat /\ MaxPeer \in Nat

VARIABLES
    btu,     \* the data of the BTU task, see BtaAv
    btc,     \* the data of the BTC task:
             \*   sm      btc_av_cb.sm_handle's state, "none" for a null handle
             \*   peer    btc_av_cb.peer_bda
             \*   lsp, rs LOCAL_SUSPEND_PENDING, REMOTE_SUSPEND
             \*   init, deinit, ongoing   the g_a2dp_* flags
             \*   connq   the connect request the queue is busy with
             \*   out, post  messages to BTU and to BTC itself of this handler
             \*   shown   the connection state last reported of each device
    btcq,    \* messages to the BTC task
    calls,   \* calls the application has made
    peer     \* actions of the peers so far

vars == << btu, btc, btcq, calls, peer >>

-----------------------------------------------------------------------------
(* The BTC task.                                                           *)

Out(b, m) == [b EXCEPT !.out = Append(@, m)]
Again(b, m) == [b EXCEPT !.post = Append(@, m)]
Show(b, d, s) == IF d = None THEN b ELSE [b EXCEPT !.shown[d] = s]

\* btc_sm_change_state with the ENTER events of the states.
To(b, state) ==
    CASE state = "IDLE" ->
           [b EXCEPT !.sm = "IDLE", !.peer = None, !.lsp = FALSE, !.rs = FALSE]
      [] state = "OPENING" -> Show([b EXCEPT !.sm = "OPENING"], b.peer, "connecting")
      [] state = "STARTED" -> [b EXCEPT !.sm = "STARTED", !.rs = FALSE]
      [] OTHER -> [b EXCEPT !.sm = state]

Advance(b) == Again(b, Msg("QUE_ADVANCE", None, TRUE))

CleanUp(b) ==
    [Out(Out(b, Msg("DEREG", None, TRUE)), Msg("DISABLE", None, TRUE))
        EXCEPT !.sm = "none", !.init = FALSE, !.deinit = TRUE, !.ongoing = FALSE]

\* A CLOSE event in OPENED or STARTED.
Closed(b) ==
    LET v == To(Show(b, b.peer, "disconnected"), "IDLE")
    IN IF b.ongoing THEN CleanUp(v) ELSE v

\* Not the code: a new connection is not reported.
OpenedUnreported(b, m) ==
    Advance(To(b, IF m.ok THEN "OPENED" ELSE "IDLE"))

Opened(b, m) ==
    Advance(To(Show(b, b.peer, IF m.ok THEN "connected" ELSE "disconnected"),
               IF m.ok THEN "OPENED" ELSE "IDLE"))

\* Not the code: IDLE has no case for a stream that is open already.
IdleNoOpen(b, m) ==
    CASE m.ev \in {"PENDING", "CONNECT_REQ"} ->
           To(Out([b EXCEPT !.peer = m.dev], Msg("API_OPEN", m.dev, TRUE)), "OPENING")
      [] m.ev = "DISCONNECT_REQ" -> Show(b, m.dev, "disconnected")
      [] OTHER -> b

Idle(b, m) ==
    CASE m.ev \in {"PENDING", "CONNECT_REQ"} ->
           To(Out([b EXCEPT !.peer = m.dev], Msg("API_OPEN", m.dev, TRUE)), "OPENING")
      [] m.ev = "DISCONNECT_REQ" -> Show(b, m.dev, "disconnected")
      [] m.ev = "OPEN" -> Opened([b EXCEPT !.peer = m.dev], m)
      [] OTHER -> b

\* A connect request in OPENING or OPENED.
OtherConnect(b, m) ==
    Advance(IF m.dev = b.peer THEN b ELSE Show(b, m.dev, "disconnected"))

Opening(b, m) ==
    CASE m.ev = "REJECT" -> To(Show(b, b.peer, "disconnected"), "IDLE")
      [] m.ev = "OPEN" -> Opened(b, m)
      [] m.ev = "CONNECT_REQ" -> OtherConnect(b, m)
      [] m.ev = "PENDING" -> IF m.dev = b.peer THEN b ELSE Out(b, Msg("DISCNT", m.dev, TRUE))
      [] OTHER -> b

\* A disconnect request in OPENED or STARTED.
AskClose(b) == Show(Out(b, Msg("CLOSE", None, TRUE)), b.peer, "disconnecting")

OpenedState(b, m) ==
    CASE m.ev = "START_REQ" -> Out(b, Msg("START", None, TRUE))
      [] m.ev = "START" -> IF m.ok THEN To(b, "STARTED") ELSE b
      [] m.ev = "DISCONNECT_REQ" -> AskClose(b)
      [] m.ev = "CLOSE" -> Closed(b)
      [] m.ev = "CONNECT_REQ" -> OtherConnect(b, m)
      [] OTHER -> b

Started(b, m) ==
    LET remote == m.ev = "SUSPEND_REMOTE"
    IN CASE m.ev = "SUSPEND_REQ" ->
              Out([b EXCEPT !.lsp = TRUE, !.rs = FALSE], Msg("STOP", None, TRUE))
         [] m.ev = "DISCONNECT_REQ" -> To(AskClose(b), "CLOSING")
         [] m.ev \in {"SUSPEND", "SUSPEND_REMOTE"} ->
              IF ~m.ok THEN [b EXCEPT !.lsp = FALSE]
              ELSE [To(b, "OPENED") EXCEPT !.rs = @ \/ (remote /\ ~b.lsp), !.lsp = FALSE]
         [] m.ev = "STOP" -> To(b, "OPENED")
         [] m.ev = "CLOSE" -> Closed(b)
         [] OTHER -> b

\* Not the code: the end of the connection is not reported.
ClosingUnreported(b, m) == IF m.ev = "CLOSE" THEN To(b, "IDLE") ELSE b

Closing(b, m) ==
    IF m.ev = "CLOSE" THEN To(Show(b, b.peer, "disconnected"), "IDLE") ELSE b

\* btc_sm_dispatch
Dispatch(b, m) ==
    CASE b.sm = "none" -> b
      [] b.sm = "IDLE" -> Idle(b, m)
      [] b.sm = "OPENING" -> Opening(b, m)
      [] b.sm = "OPENED" -> OpenedState(b, m)
      [] b.sm = "STARTED" -> Started(b, m)
      [] b.sm = "CLOSING" -> Closing(b, m)

\* btc_queue_connect_next, when the only request there can be has just come.
QueConnect(b, m) ==
    IF b.connq # None THEN b
    ELSE Dispatch([b EXCEPT !.connq = m.dev], Msg("CONNECT_REQ", m.dev, TRUE))

MediaCtrl(b, m) ==
    LET connected == b.sm \in {"OPENED", "STARTED"}
    IN CASE m.ev = "CTRL_START" ->
              IF b.sm = "OPENED" /\ ~b.rs THEN Again(b, Msg("START_REQ", None, TRUE)) ELSE b
         [] m.ev = "CTRL_SUSPEND" ->
              IF b.sm = "STARTED" /\ ~b.lsp /\ ~b.rs
              THEN Again(b, Msg("SUSPEND_REQ", None, TRUE))
              ELSE IF connected THEN [b EXCEPT !.rs = FALSE] ELSE b

NullBtc ==
    [sm |-> "none", peer |-> None, lsp |-> FALSE, rs |-> FALSE,
     init |-> FALSE, deinit |-> FALSE, ongoing |-> FALSE, connq |-> None,
     out |-> << >>, post |-> << >>, shown |-> [d \in Devices |-> "disconnected"]]

SinkInit(b) ==
    IF b.sm # "none" THEN b
    ELSE Out([To(b, "IDLE") EXCEPT !.init = TRUE, !.deinit = FALSE, !.ongoing = FALSE],
             Msg("REG", None, TRUE))

Deinit(b) ==
    LET v == [b EXCEPT !.ongoing = TRUE]
    IN IF b.sm \in {"OPENED", "STARTED"} THEN Out(v, Msg("CLOSE", None, TRUE)) ELSE CleanUp(v)

BtcHandle(b, m) ==
    CASE m.ev = "DEINIT" -> Deinit(b)
      [] m.ev = "SINK_CONNECT" -> Again(b, Msg("QUE_CONNECT", m.dev, TRUE))
      [] m.ev = "QUE_CONNECT" -> QueConnect(b, m)
      [] m.ev = "QUE_ADVANCE" -> [b EXCEPT !.connq = None]
      [] m.ev \in {"CTRL_START", "CTRL_SUSPEND"} -> MediaCtrl(b, m)
      [] OTHER -> Dispatch(b, m)

\* CHECK_BTAV_INIT, assert(sm_handle != NULL): the program ends here.
Aborts(b, m) == b.sm = "none" /\ m.ev \in {"SINK_CONNECT", "DISCONNECT_REQ"}

BtcStep ==
    /\ btcq # << >>
    /\ ~Aborts(btc, Head(btcq))
    /\ LET b == BtcHandle(btc, Head(btcq))
       IN /\ btc' = [b EXCEPT !.out = << >>, !.post = << >>]
          /\ btcq' = Tail(btcq) \o b.post
          /\ btu' = [btu EXCEPT !.q = @ \o b.out]
    /\ UNCHANGED << calls, peer >>

-----------------------------------------------------------------------------
(* The BTU task, and what reaches it from the peers and the timers.        *)

\* A handler of the BTU task ends: its events go to BTC.
Ends(u) ==
    /\ btu' = [u EXCEPT !.evts = << >>]
    /\ btcq' = btcq \o u.evts
    /\ UNCHANGED << btc, calls >>

BtuStep ==
    /\ btu.q # << >>
    /\ Ends(Handle([btu EXCEPT !.q = Tail(@)], Head(btu.q)))
    /\ UNCHANGED peer

\* Nothing of AVDTP can reach BTC or the application any more when the stream
\* is deregistered.
Registered == btu.scb.state # "none"

\* The timers  are seconds long: no message waits when one runs out.
Quiet == btcq = << >> /\ btu.q = << >>

PeerDoes(u) == peer < MaxPeer /\ Registered /\ Ends(u) /\ peer' = peer + 1
StackDoes(u) == Registered /\ Ends(u) /\ UNCHANGED peer

PeerConnects(d) ==
    /\ btu.link[d] = "down"
    /\ PeerDoes(CtrlEvt([btu EXCEPT !.link[d] = "up", !.cback[d] = "conn"], d, "CONNECT", TRUE))

LinkOpens(d) ==
    /\ btu.link[d] = "opening"
    /\ StackDoes(CtrlEvt([btu EXCEPT !.link[d] = "up"], d, "CONNECT", FALSE))

Down(u, d) ==
    [CtrlEvt([ClearCmds(u, d) EXCEPT !.link[d] = "down", !.idle[d] = FALSE], d, "DISCONNECT", TRUE)
        EXCEPT !.cback[d] = "conn"]

\* The peer does not answer, or goes away.
LinkLost(d) ==
    /\ btu.link[d] \in {"opening", "up"}
    /\ PeerDoes(Down(btu, d))

LinkCloses(d) ==
    /\ btu.link[d] \in {"closing", "aborting"}
    /\ StackDoes(IF btu.reconn[d] THEN [btu EXCEPT !.link[d] = "opening", !.reconn[d] = FALSE]
                 ELSE Down(btu, d))

\* AVDTP closes a channel that had no stream when the timer was started; the
\* timer of a channel that is not open means nothing.
IdleTimeout(d) ==
    LET v == [btu EXCEPT !.idle[d] = FALSE]
    IN /\ Quiet /\ btu.idle[d]
       /\ StackDoes(IF v.link[d] = "up" THEN [ClearCmds(v, d) EXCEPT !.link[d] = "closing"] ELSE v)

SdpDone(ok) ==
    /\ btu.sdp
    /\ StackDoes(StrEvt([btu EXCEPT !.sdp = FALSE],
                        Msg(IF ok THEN "SDP_OK" ELSE "SDP_FAIL", None, TRUE)))

Discovered(d, ok) ==
    /\ btu.link[d] = "up" /\ btu.op[d] = "discover"
    /\ StackDoes(StrEvt(ChkClose([btu EXCEPT !.op[d] = None], d),
                        Msg(IF ok THEN "DISC_OK" ELSE "DISC_FAIL", d, TRUE)))

\* The answer to our SETCONFIG, then the one to our OPEN.
OpenAnswered(d, ok) ==
    /\ btu.link[d] = "up" /\ btu.op[d] = "open"
    /\ StackDoes(
         IF ~ok
         THEN StrEvt(ChkClose([btu EXCEPT !.op[d] = None, !.ep = EpIdle], d),
                     Msg("OPEN_FAIL", d, FALSE))
         ELSE IF btu.ep.st = "requested" THEN [btu EXCEPT !.ep.st = "conf"]
         ELSE [btu EXCEPT !.op[d] = None, !.ep.st = "opening", !.ep.int = TRUE])

\* The media channel comes up, or does not in time.
MediaOpens(ok) ==
    /\ btu.ep.st = "opening"
    /\ StackDoes(IF ok THEN StrEvt([btu EXCEPT !.ep.st = "open"], Msg("OPEN_OK", btu.ep.dev, TRUE))
                 ELSE [btu EXCEPT !.ep.st = "closing", !.ep.int = TRUE])

\* Answers to START and SUSPEND.
StreamAnswered(d, ok) ==
    LET op == btu.op[d]
        live == btu.ep.st \in {"open", "streaming"}
        v == [btu EXCEPT !.op[d] = None,
                         !.ep.st = IF ~ok \/ ~live THEN @
                                   ELSE IF op = "start" THEN "streaming" ELSE "open"]
    IN /\ btu.link[d] = "up" /\ op \in {"start", "suspend"}
       /\ StackDoes(IF ok /\ ~live THEN v
                    ELSE IF ok /\ op = "start" THEN StrEvt(v, Msg("START_OK", d, TRUE))
                    ELSE StrEvt(v, Msg(FailOf(op), d, ok)))

StreamCloses ==
    /\ btu.ep.st = "closing"
    /\ LET v == [btu EXCEPT !.ep = EpIdle]
       IN StackDoes(StrEvt(IF btu.ep.int THEN ChkClose(v, btu.ep.dev) ELSE v,
                           Msg("CLOSED", btu.ep.dev, TRUE)))

\* SETCONFIG of the peer, with a codec configuration we accept or not.  A
\* stream in its first state turns INCOMING in the callback already.
PeerConfigures(d, ok) ==
    LET v == [btu EXCEPT !.ep = [EpIdle EXCEPT !.st = "indicated", !.dev = d]]
        w == IF v.lcb = d /\ v.scb.state = "init" THEN Go(v, "incoming") ELSE v
    IN /\ btu.link[d] = "up" /\ btu.ep.st = "idle"
       /\ PeerDoes(StrEvt(w, Msg("CONFIG_IND", d, ok)))

PeerOpens ==
    /\ btu.ep.st = "conf" /\ btu.op[btu.ep.dev] # "open"
    /\ StackDoes(StrEvt([btu EXCEPT !.ep.st = "open"], Msg("OPEN_OK", btu.ep.dev, TRUE)))

PeerStarts ==
    /\ btu.ep.st = "open"
    /\ PeerDoes(StrEvt([btu EXCEPT !.ep.st = "streaming"], Msg("START_OK", btu.ep.dev, TRUE)))

PeerSuspends ==
    /\ btu.ep.st = "streaming"
    /\ PeerDoes(StrEvt([btu EXCEPT !.ep.st = "open"], Msg("SUSPEND_IND", btu.ep.dev, TRUE)))

PeerCloses ==
    /\ btu.ep.st \in {"open", "streaming"}
    /\ PeerDoes([btu EXCEPT !.ep.st = "closing"])

SigTimerFires ==
    /\ Quiet /\ btu.sig
    /\ StackDoes(Post([btu EXCEPT !.sig = FALSE], Msg("SIG_TIMER", None, TRUE)))

AcpTimerFires == Quiet /\ btu.acp /\ StackDoes(AcpTimer(btu))

CloseTimerFires ==
    /\ Quiet /\ btu.scb.timer
    /\ StackDoes(Post([btu EXCEPT !.scb.timer = FALSE], Msg("CLOSE", None, TRUE)))

-----------------------------------------------------------------------------
(* The application: esp_a2dp_api.c.                                        *)

Call(m) ==
    /\ calls < MaxCalls
    /\ ~btc.deinit /\ ~btc.ongoing
    /\ btcq' = Append(btcq, m)
    /\ calls' = calls + 1
    /\ UNCHANGED << btu, btc, peer >>

AppConnects(d) == Call(Msg("SINK_CONNECT", d, TRUE))
AppDisconnects(d) == Call(Msg("DISCONNECT_REQ", d, TRUE))
AppStarts == Call(Msg("CTRL_START", None, TRUE))
AppSuspends == Call(Msg("CTRL_SUSPEND", None, TRUE))
AppDeinits == Call(Msg("DEINIT", None, TRUE))

-----------------------------------------------------------------------------
Init ==
    /\ btu = [InitBtu EXCEPT !.q = SinkInit(NullBtc).out]
    /\ btc = [SinkInit(NullBtc) EXCEPT !.out = << >>]
    /\ btcq = << >>
    /\ calls = 0
    /\ peer = 0

Next ==
    \/ BtcStep
    \/ BtuStep
    \/ \E d \in Devices : PeerConnects(d)
    \/ \E d \in Devices : LinkOpens(d)
    \/ \E d \in Devices : LinkLost(d)
    \/ \E d \in Devices : LinkCloses(d)
    \/ \E d \in Devices : IdleTimeout(d)
    \/ \E ok \in BOOLEAN : SdpDone(ok)
    \/ \E d \in Devices, ok \in BOOLEAN : Discovered(d, ok)
    \/ \E d \in Devices, ok \in BOOLEAN : OpenAnswered(d, ok)
    \/ \E ok \in BOOLEAN : MediaOpens(ok)
    \/ \E d \in Devices, ok \in BOOLEAN : StreamAnswered(d, ok)
    \/ StreamCloses
    \/ \E d \in Devices, ok \in BOOLEAN : PeerConfigures(d, ok)
    \/ PeerOpens
    \/ PeerStarts
    \/ PeerSuspends
    \/ PeerCloses
    \/ SigTimerFires
    \/ AcpTimerFires
    \/ CloseTimerFires
    \/ \E d \in Devices : AppConnects(d)
    \/ \E d \in Devices : AppDisconnects(d)
    \/ AppStarts
    \/ AppSuspends
    \/ AppDeinits

Spec == Init /\ [][Next]_vars

-----------------------------------------------------------------------------
(* Fairness.  The two tasks serve their queues.  An SDP search ends, and   *)
(* L2CAP and AVDTP answer or time out: the answer may be a failure.  A     *)
(* timer that is running runs out, though messages may keep coming: hence  *)
(* SF.  The application and the peers need not do anything.                *)
FairSpec ==
    /\ Spec
    /\ WF_vars(BtcStep)
    /\ WF_vars(BtuStep)
    /\ WF_vars(\E ok \in BOOLEAN : SdpDone(ok))
    /\ \A d \in Devices : WF_vars(LinkOpens(d)) /\ WF_vars(LinkCloses(d))
    /\ \A d \in Devices : WF_vars(\E ok \in BOOLEAN : Discovered(d, ok))
    /\ \A d \in Devices : WF_vars(\E ok \in BOOLEAN : OpenAnswered(d, ok))
    /\ \A d \in Devices : WF_vars(\E ok \in BOOLEAN : StreamAnswered(d, ok))
    /\ WF_vars(\E ok \in BOOLEAN : MediaOpens(ok))
    /\ WF_vars(StreamCloses)
    /\ \A d \in Devices : SF_vars(IdleTimeout(d))
    /\ SF_vars(SigTimerFires) /\ SF_vars(AcpTimerFires) /\ SF_vars(CloseTimerFires)

-----------------------------------------------------------------------------
(* Properties.                                                             *)

\* The shape of the two tasks' data, and that what is given up is given up
\* whole: an idle endpoint has no device, a channel that is down has no
\* command, no timer and no reconnection (avdt_scb_clr_vars, avdt_ccb_dealloc),
\* a deregistered stream nothing at all, and sm_handle is null after deinit.
TypeOK ==
    /\ btc.sm \in {"none", "IDLE", "OPENING", "OPENED", "STARTED", "CLOSING"}
    /\ btc.sm = "none" <=> btc.deinit
    /\ btc.peer \in Devices \cup {None} /\ btc.connq \in Devices \cup {None}
    /\ btc.shown \in [Devices -> {"disconnected", "connecting", "connected", "disconnecting"}]
    /\ btu.scb.state \in {"none", "init", "incoming", "opening", "open", "closing"}
    /\ btu.scb.state = "none" => btu.scb = NoScb
    /\ btu.scb.peer \in Devices \cup {None} /\ btu.lcb \in Devices \cup {None}
    /\ btu.ep.st \in {"idle", "indicated", "requested", "conf", "opening", "open",
                      "streaming", "closing"}
    /\ btu.ep.st = "idle" <=> btu.ep.dev = None
    /\ \A d \in Devices :
         /\ btu.link[d] \in {"down", "opening", "up", "closing", "aborting"}
         /\ btu.op[d] \in {None, "discover", "open", "start", "suspend"}
         /\ btu.link[d] = "down" => btu.op[d] = None /\ ~btu.idle[d] /\ ~btu.reconn[d]

\* When no message is under way, a stream that is open in BTA is not one BTC
\* thinks idle, opening or gone: whatever the order in which the peer's channel,
\* the 2 s timer, an application's request and a rejection reach the two tasks.
\* CLOSING is among the states because BTC can stay there although the stream
\* is closed, and even open again: an SDP search that ends in BTA's CLOSING
\* state makes it report OPEN (failed) for CLOSE, which CLOSING ignores.
StreamIsKnown ==
    Quiet /\ btu.scb.state = "open" => btc.sm \in {"OPENED", "STARTED", "CLOSING"}

\* BTC has told the application of a connection to no device but the one in
\* peer_bda: before it forgets a device or takes up another, it reports that
\* the connection has ended.
ShownIsPeer ==
    btc.sm # "none" => \A d \in Devices : btc.shown[d] # "disconnected" => d = btc.peer

\* BTC waits in CLOSING until the stream is fully closed (btc_av.c:959), and no
\* longer: when no message is under way, the stream is not back in INIT.
WaitsUntilClosed == Quiet /\ btc.sm = "CLOSING" => btu.scb.state # "init"

\* With one device about: an open stream is shown as one.
StreamIsShown ==
    Quiet /\ btu.scb.state = "open" => btc.shown[btu.scb.peer] \in {"connected", "disconnecting"}

\* The channel of the stream is one we have asked for, so that its end is told
\* to the stream and not to the control block only.
OwnChannel == btu.scb.peer # None /\ btu.cback[btu.scb.peer] = "str"

\* A stream that opens on our own channel opens or fails: through SDP, L2CAP,
\* discovery, configuration and the media channel, whichever step fails.
OwnOpenEnds == btu.scb.state = "opening" /\ OwnChannel ~> btu.scb.state # "opening"

\* A stream that closes on our own channel is closed at some time.
OwnCloseEnds == btu.scb.state = "closing" /\ OwnChannel ~> btu.scb.state # "closing"

\* An SDP search of ours is still under way, or its answer unread, while BTA
\* closes the stream (which a channel of the peer's can open in the meantime): BTA
\* will report OPEN (failed) where BTC waits for CLOSE.
SearchOutlivesStream ==
    btu.scb.state = "closing" /\
        (btu.sdp \/ \E i \in 1..Len(btu.q) : btu.q[i].ev \in {"SDP_OK", "SDP_FAIL"})

\* LOCAL_SUSPEND_PENDING does not last: a suspension the application has asked
\* for is answered, or the connection or the profile ends, unless BTC is never told
\* of that end (see the state above).  While the flag lasts every further suspension
\* is refused (btc_a2dp_control.c).
LocalSuspendEnds ==
    <>SearchOutlivesStream \/ (btc.lsp ~> ~btc.lsp \/ btc.sm = "none")

\* A deinitialisation that has begun is completed, and reported.
DeinitCompletes == btc.ongoing ~> ~btc.ongoing
=============================================================================
