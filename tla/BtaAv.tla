------------------------------- MODULE BtaAv -------------------------------
(***************************************************************************)
(* The BTU task's part of an A2DP connection: the stream state machine of  *)
(* BTA AV (bta_av_ssm.c, bta_av_aact.c), its control block (bta_av_act.c,  *)
(* bta_av_main.c), and AVDTP below it (avdt_ccb.c, avdt_scb.c) as far as   *)
(* BTA can tell: the signalling channel of each device, the one stream     *)
(* endpoint, and the commands the peer has not answered.                   *)
(*                                                                         *)
(* Everything here runs in one task, and a handler runs action after       *)
(* action, so the task's data is one record and an action an operator from *)
(* that record to the next:                                                *)
(*   q      messages to BTU          evts  events for BTC of this handler  *)
(*   scb    the stream control block: state, peer_addr, open_api's address,*)
(*          coll_mask, p_disc_db, open_status, started, co_started, role's *)
(*          START_INT, suspend_sup, its timer, deregistring                *)
(*   lcb    the device conn_lcb is used for, and conn, its conn_msk        *)
(*   sig, acp   sig_tmr and acp_sig_tmr are running                        *)
(*   sdp    an A2D_FindService is running                                  *)
(*   link   AVDTP's signalling channel, cback its callback (the stream's   *)
(*          or the connection's), reconn its reconnect flag, op the        *)
(*          command that waits for an answer                               *)
(*   idle   the channel's idle timer is running                            *)
(*   ep     the stream endpoint: its state, its device, and int: its role  *)
(*          is OPEN_INT or CLOSE_INT                                       *)
(*                                                                         *)
(* BTA_AV_NUM_STRS and BTA_AV_NUM_LINKS are 1.  Left out: role switches,   *)
(* AVRCP, reconfiguration, delay reports, content protection, SCO, the     *)
(* discovery after an incoming non-SBC configuration (it changes no state  *)
(* here), two SETCONFIG commands that cross, and the second enabling of    *)
(* BTA after a disabling.                                                  *)
(***************************************************************************)
EXTENDS Naturals, Sequences

CONSTANTS Devices, None

ASSUME DevicesAssumption == None \notin Devices
\* None stands for "no command" where a command of AVDTP could be waiting.
ASSUME CommandsAssumption == None \notin {"discover", "open", "start", "suspend"}

Msg(ev, d, ok) == [ev |-> ev, dev |-> d, ok |-> ok]
Post(u, m) == [u EXCEPT !.q = Append(@, m)]
Report(u, m) == [u EXCEPT !.evts = Append(@, m)]
Go(u, state) == [u EXCEPT !.scb.state = state]

NoScb == [state |-> "none", peer |-> None, to |-> None, inc |-> FALSE, api |-> FALSE,
          sdb |-> FALSE, failed |-> FALSE, started |-> FALSE, co |-> FALSE,
          startInt |-> FALSE, sup |-> FALSE, timer |-> FALSE, dereg |-> FALSE]

EpIdle == [st |-> "idle", dev |-> None, int |-> FALSE]

InitBtu == [q |-> << >>, evts |-> << >>, scb |-> NoScb, lcb |-> None, conn |-> FALSE,
            sig |-> FALSE, acp |-> FALSE, sdp |-> FALSE,
            link |-> [d \in Devices |-> "down"], cback |-> [d \in Devices |-> "conn"],
            reconn |-> [d \in Devices |-> FALSE], op |-> [d \in Devices |-> None],
            idle |-> [d \in Devices |-> FALSE], ep |-> EpIdle]

-----------------------------------------------------------------------------
(* AVDTP.                                                                  *)

\* An AVDTP event of the stream: dropped without a stream control block.
StrEvt(u, m) == IF u.scb.state = "none" THEN u ELSE Post(u, m)

\* The connection callback: bta_av_dt_cback tells the stream too.
CtrlEvt(u, d, ev, acp) ==
    LET v == IF u.cback[d] = "str" THEN StrEvt(u, Msg(ev, d, TRUE)) ELSE u
    IN Post(v, Msg(IF ev = "CONNECT" THEN "SIG_UP" ELSE "SIG_DOWN", d, acp))

FailOf(op) == CASE op = "discover" -> "DISC_FAIL" [] op = "open" -> "OPEN_FAIL"
                [] op = "start" -> "START_FAIL" [] op = "suspend" -> "SUSPEND_CFM"

\* Not the code: the idle timer is not started.
ChkCloseForgets(u, d) == u

\* avdt_ccb_chk_close starts the idle timer of a channel without a stream; a
\* command takes the channel's only timer for itself.
ChkClose(u, d) == [u EXCEPT !.idle[d] = u.ep.dev # d /\ u.link[d] = "up"]
Sends(u, d, op) == [u EXCEPT !.op[d] = op, !.idle[d] = FALSE]

\* The channel of d is lost or given up: the command that waits fails, and the
\* endpoint, if it is d's, is closed: at once if it has no media channel yet.
ClearCmds(u, d) ==
    LET v == IF u.op[d] = None THEN u
             ELSE StrEvt([u EXCEPT !.op[d] = None,
                                   !.ep = IF u.op[d] = "open" THEN EpIdle ELSE @],
                         Msg(FailOf(u.op[d]), d, FALSE))
    IN IF v.ep.dev # d \/ v.ep.st \in {"idle", "closing"} THEN v
       ELSE CASE v.ep.st = "indicated" -> [v EXCEPT !.ep = EpIdle]
              [] v.ep.st = "conf" -> StrEvt([v EXCEPT !.ep = EpIdle], Msg("CLOSED", d, TRUE))
              [] OTHER -> [v EXCEPT !.ep.st = "closing"]

ConnectReq(u, d) ==
    CASE u.link[d] = "down" -> [u EXCEPT !.link[d] = "opening", !.cback[d] = "str"]
      [] u.link[d] \in {"opening", "aborting"} -> u
      [] u.link[d] = "up" -> CtrlEvt([u EXCEPT !.cback[d] = "str"], d, "CONNECT", FALSE)
      [] u.link[d] = "closing" -> [u EXCEPT !.reconn[d] = TRUE, !.cback[d] = "str"]

DisconnectReq(u, d, cback) ==
    CASE u.link[d] = "down" -> u
      [] u.link[d] \in {"opening", "up"} ->
           [ClearCmds(u, d) EXCEPT !.cback[d] = cback,
                                   !.link[d] = IF @ = "up" THEN "closing" ELSE "aborting"]
      [] OTHER -> [u EXCEPT !.reconn[d] = FALSE, !.cback[d] = cback]

DiscoverReq(u, d) ==
    IF u.op[d] # None THEN u
    ELSE LET v == Sends(u, d, "discover")
         IN CASE v.link[d] = "down" -> [v EXCEPT !.link[d] = "opening", !.cback[d] = "conn"]
              [] v.link[d] \in {"opening", "up"} -> v
              [] OTHER -> [v EXCEPT !.reconn[d] = TRUE]

\* AVDT_OpenReq: SETCONFIG, then OPEN, if the endpoint is free.
OpenReq(u, d) ==
    IF u.link[d] = "down" THEN u
    ELSE IF u.ep.st = "idle"
    THEN Sends([u EXCEPT !.ep = [EpIdle EXCEPT !.st = "requested", !.dev = d]], d, "open")
    ELSE StrEvt(u, Msg("OPEN_FAIL", d, FALSE))

\* AVDT_CloseReq: a configuration is aborted, and no answer to OPEN counts.
CloseReq(u) ==
    IF u.ep.st \notin {"conf", "opening", "open", "streaming"} THEN u
    ELSE [u EXCEPT !.ep.st = "closing", !.ep.int = TRUE, !.idle[u.ep.dev] = FALSE,
                   !.op[u.ep.dev] = IF @ = "open" THEN None ELSE @]

ConfigRsp(u, ok) ==
    IF u.ep.st # "indicated" THEN u
    ELSE [u EXCEPT !.ep = IF ok THEN [@ EXCEPT !.st = "conf"] ELSE EpIdle]

StreamReq(u, op) ==
    IF u.ep.dev # None /\ u.link[u.ep.dev] = "up" /\ u.ep.st \in {"open", "streaming"}
    THEN Sends(u, u.ep.dev, op) ELSE u

-----------------------------------------------------------------------------
(* The actions of the stream state machine.                                *)

SaveAddr(u, d) == [u EXCEPT !.scb.sup = @ \/ u.scb.peer # d, !.scb.peer = d]

Cleanup(u) ==
    LET down == u.lcb # None /\ u.lcb = u.scb.peer
        v == [u EXCEPT !.scb = [@ EXCEPT !.sdb = FALSE, !.failed = FALSE, !.started = FALSE,
                                         !.startInt = FALSE, !.timer = FALSE]]
    IN IF u.scb.dereg THEN [v EXCEPT !.scb = NoScb]
       ELSE [v EXCEPT !.scb.peer = None, !.conn = IF down THEN FALSE ELSE @]

StrStopped(u, suspend) ==
    LET v == [u EXCEPT !.scb.co = FALSE]
    IN CASE ~suspend -> Report(v, Msg("STOP", None, TRUE))
         [] suspend /\ u.scb.started /\ u.scb.sup -> StreamReq(v, "suspend")
         [] OTHER -> Report(v, Msg("SUSPEND", None, TRUE))

StrClosed(u) ==
    IF u.scb.failed
    THEN Report(Cleanup(u), Msg("OPEN", u.scb.peer, FALSE))
    ELSE Report(Cleanup(IF u.scb.co THEN StrStopped(u, FALSE) ELSE u), Msg("CLOSE", None, TRUE))

DoDisc(u, d) ==
    LET v == [SaveAddr(u, d) EXCEPT !.scb.to = d, !.scb.sdb = TRUE]
    IN IF u.sdp THEN Post(v, Msg("SDP_FAIL", None, TRUE)) ELSE [v EXCEPT !.sdp = TRUE]

FreeSdb(u) == [u EXCEPT !.scb.sdb = FALSE]

OpenAtInc(u, d) ==
    LET v == [u EXCEPT !.scb.to = d]
    IN IF v.scb.inc THEN [v EXCEPT !.scb.api = TRUE]
       ELSE Post([v EXCEPT !.scb.api = FALSE, !.scb.state = "init"], Msg("API_OPEN", d, TRUE))

\* Not the code: without a link nothing is done.
DoDisconnectLinkOnly(u) ==
    LET v == [u EXCEPT !.sig = FALSE, !.scb.timer = FALSE]
    IN IF v.lcb = None \/ v.scb.peer = None THEN v ELSE DisconnectReq(v, v.scb.peer, "str")

DoDisconnect(u) ==
    LET v == [u EXCEPT !.sig = FALSE, !.scb.timer = FALSE]
    IN IF v.lcb = None THEN StrClosed(Go(v, "init"))
       ELSE IF v.scb.peer = None THEN v ELSE DisconnectReq(v, v.scb.peer, "str")

DoClose(u) ==
    LET v == IF u.scb.co THEN StrStopped(u, FALSE) ELSE u
    IN CloseReq([v EXCEPT !.sig = FALSE, !.scb.started = FALSE, !.scb.timer = TRUE])

ConnectAfterSdp(u) == IF u.scb.inc THEN FreeSdb(u) ELSE ConnectReq(FreeSdb(u), u.scb.peer)

\* bta_av_open_failed gives the channel up without a look at conn_lcb, and leaves
\* the timers as they are.
OpenFailed(u) ==
    LET v == [u EXCEPT !.scb.failed = TRUE]
    IN IF v.scb.peer = None THEN v ELSE DisconnectReq(v, v.scb.peer, "str")

Failed(u) == StrClosed([u EXCEPT !.scb.failed = TRUE])

\* bta_av_config_ind, and the answer of bta_av_co_audio_setconfig.
ConfigInd(u, m) ==
    LET v == [SaveAddr(u, m.dev) EXCEPT !.scb.inc = FALSE, !.scb.api = FALSE, !.acp = FALSE]
    IN Post(v, Msg(IF m.ok THEN "CI_OK" ELSE "CI_FAIL", m.dev, TRUE))

SetconfigRsp(u) == [ConfigRsp(u, TRUE) EXCEPT !.sig = FALSE]
SetconfigRej(u, d) == Report(ConfigRsp(u, FALSE), Msg("REJECT", d, TRUE))

StrOpened(u) ==
    LET up == u.lcb # None /\ u.lcb = u.scb.peer
    IN Report([u EXCEPT !.conn = @ \/ up], Msg("OPEN", u.scb.peer, TRUE))

StartOk(u) ==
    Report([u EXCEPT !.scb.started = TRUE, !.scb.co = TRUE, !.scb.startInt = FALSE],
           Msg("START", None, TRUE))

StartFailed(u) ==
    IF u.scb.started \/ u.scb.co THEN u
    ELSE Report([u EXCEPT !.scb.startInt = FALSE], Msg("START", None, FALSE))

DoStart(u) ==
    CASE u.scb.started -> StartOk(u)
      [] ~u.scb.started /\ u.scb.startInt -> u
      [] OTHER -> StreamReq([u EXCEPT !.scb.startInt = TRUE], "start")

\* Not the code: only what the peer began is passed on.
SuspendCfmRemoteOnly(u, m) ==
    IF ~u.scb.started THEN u
    ELSE LET v == [u EXCEPT !.scb.started = FALSE, !.scb.co = FALSE]
         IN IF m.ev = "SUSPEND_IND" THEN Report(v, Msg("SUSPEND_REMOTE", None, m.ok)) ELSE v

\* The peer has suspended the stream, or has answered our request.  (After a
\* timeout suspend_sup stays: nothing reads it before the next connection.)
SuspendCfm(u, m) ==
    LET evt == Msg(IF m.ev = "SUSPEND_IND" THEN "SUSPEND_REMOTE" ELSE "SUSPEND", None, m.ok)
        v == IF m.ok THEN [u EXCEPT !.scb.started = FALSE]
             ELSE DoClose(Go([u EXCEPT !.scb.sup = FALSE], "closing"))
    IN IF ~u.scb.started THEN u ELSE Report([v EXCEPT !.scb.co = FALSE], evt)

-----------------------------------------------------------------------------
(* bta_av_ssm_execute: the next state, then the actions; a message that no *)
(* arm of a state's table names is ignored there.                          *)

InitSst(u, m) ==
    CASE m.ev = "API_OPEN" -> DoDisc(Go(u, "opening"), m.dev)
      [] m.ev = "CLOSE" -> Cleanup(u)
      [] m.ev = "CONFIG_IND" -> ConfigInd(Go(u, "incoming"), m)
      [] m.ev = "ACP_CONNECT" -> Go(u, "incoming")
      [] m.ev \in {"SDP_OK", "SDP_FAIL"} -> FreeSdb(u)
      [] OTHER -> u

IncomingSst(u, m) ==
    CASE m.ev = "API_OPEN" -> OpenAtInc(u, m.dev)
      [] m.ev = "CLOSE" -> DoDisconnect(Go(u, "closing"))
      [] m.ev = "CI_OK" -> SetconfigRsp(u)
      [] m.ev = "CI_FAIL" -> Cleanup(SetconfigRej(Go(u, "init"), m.dev))
      [] m.ev = "OPEN_OK" -> StrOpened(Go(u, "open"))
      [] m.ev \in {"CLOSED", "DISCONNECT"} -> Cleanup(Go(u, "init"))
      [] m.ev = "CONFIG_IND" -> ConfigInd(u, m)
      [] m.ev \in {"SDP_OK", "SDP_FAIL"} -> FreeSdb(u)
      [] OTHER -> u

OpeningSst(u, m) ==
    CASE m.ev = "CLOSE" -> DoClose(Go(u, "closing"))
      [] m.ev = "SDP_OK" -> ConnectAfterSdp(u)
      [] m.ev = "SDP_FAIL" -> Report(FreeSdb(Go(u, "init")), Msg("OPEN", u.scb.peer, FALSE))
      [] m.ev = "DISC_OK" -> OpenReq(u, u.scb.peer)
      [] m.ev \in {"DISC_FAIL", "OPEN_FAIL"} -> OpenFailed(Go(u, "closing"))
      [] m.ev = "OPEN_OK" -> StrOpened(Go(u, "open"))
      [] m.ev = "CONFIG_IND" -> ConfigInd(Go(u, "incoming"), m)
      [] m.ev = "CONNECT" -> DiscoverReq(u, u.scb.peer)
      [] m.ev = "DISCONNECT" -> Failed(Go(u, "init"))
      [] OTHER -> u

OpenSst(u, m) ==
    CASE m.ev = "CLOSE" -> DoClose(Go(u, "closing"))
      [] m.ev = "START" -> DoStart(u)
      [] m.ev = "STOP" -> StrStopped(u, TRUE)
      [] m.ev = "START_OK" -> StartOk(u)
      [] m.ev = "START_FAIL" -> StartFailed(u)
      [] m.ev \in {"CLOSED", "DISCONNECT"} -> StrClosed(Go(u, "init"))
      [] m.ev = "CONFIG_IND" -> SetconfigRej(u, m.dev)
      [] m.ev \in {"SUSPEND_IND", "SUSPEND_CFM"} -> SuspendCfm(u, m)
      [] m.ev \in {"SDP_OK", "SDP_FAIL"} -> FreeSdb(u)
      [] OTHER -> u

ClosingSst(u, m) ==
    CASE m.ev \in {"CLOSE", "CLOSED", "OPEN_FAIL"} -> DoDisconnect(u)
      [] m.ev \in {"SDP_OK", "SDP_FAIL"} -> Failed(FreeSdb(Go(u, "init")))
      [] m.ev = "OPEN_OK" -> DoClose(u)
      [] m.ev = "CONFIG_IND" -> SetconfigRej(u, m.dev)
      [] m.ev = "DISCONNECT" -> StrClosed(Go(u, "init"))
      [] OTHER -> u

Ssm(u, m) ==
    CASE u.scb.state = "none" -> u
      [] u.scb.state = "init" -> InitSst(u, m)
      [] u.scb.state = "incoming" -> IncomingSst(u, m)
      [] u.scb.state = "opening" -> OpeningSst(u, m)
      [] u.scb.state = "open" -> OpenSst(u, m)
      [] u.scb.state = "closing" -> ClosingSst(u, m)

-----------------------------------------------------------------------------
(* Events of the control block, not of the stream.                         *)

SigTimer(u) ==
    IF u.lcb = None \/ u.conn THEN u
    ELSE Report([u EXCEPT !.sig = TRUE], Msg("PENDING", u.lcb, TRUE))

\* bta_av_sig_chg when a channel is up: the first becomes the link, any
\* other is closed again.
SigUp(u, d, acp) ==
    LET v == [u EXCEPT !.lcb = d, !.conn = FALSE]
        w == SigTimer(Ssm([v EXCEPT !.scb.peer = d], Msg("ACP_CONNECT", d, TRUE)))
    IN CASE u.lcb = d -> u
         [] u.lcb # d /\ (u.lcb # None \/ u.scb.state = "none") -> DisconnectReq(u, d, u.cback[d])
         [] OTHER -> IF acp THEN [w EXCEPT !.scb.inc = TRUE, !.scb.api = FALSE, !.acp = TRUE]
                     ELSE v

SigDown(u, d) ==
    LET v == [u EXCEPT !.lcb = None]
    IN CASE u.lcb # d -> u
         [] u.lcb = d /\ u.conn /\ u.scb.peer = d -> Ssm(v, Msg("DISCONNECT", d, TRUE))
         [] OTHER -> v

\* bta_av_acp_sig_timer_cback
AcpTimer(u) ==
    LET v == [u EXCEPT !.acp = FALSE, !.scb.inc = FALSE]
    IN CASE u.scb.state = "none" \/ ~u.scb.inc -> [u EXCEPT !.acp = FALSE]
         [] u.scb.state = "opening" /\ u.scb.inc ->
              IF u.scb.sdb THEN u ELSE DiscoverReq(v, u.scb.peer)
         [] u.scb.state = "incoming" /\ u.scb.inc ->
              IF u.scb.api THEN Post([v EXCEPT !.scb.api = FALSE], Msg("API_OPEN", u.scb.to, TRUE))
              ELSE v
         [] OTHER -> v

Deregister(u) ==
    IF u.scb.state = "none" THEN u
    ELSE Ssm([u EXCEPT !.scb.dereg = TRUE], Msg("CLOSE", None, TRUE))

Handle(u, m) ==
    CASE m.ev = "REG" -> IF u.scb.state # "none" THEN u ELSE Go(u, "init")
      [] m.ev = "DEREG" -> Deregister(u)
      [] m.ev = "DISABLE" -> [Deregister(u) EXCEPT !.sig = FALSE, !.acp = FALSE]
      [] m.ev = "DISCNT" -> [DisconnectReq(u, m.dev, "conn") EXCEPT !.sig = FALSE]
      [] m.ev = "SIG_UP" -> SigUp(u, m.dev, m.ok)
      [] m.ev = "SIG_DOWN" -> SigDown(u, m.dev)
      [] m.ev = "SIG_TIMER" -> SigTimer(u)
      [] OTHER -> Ssm(u, m)
=============================================================================
