-------------------------- MODULE CodecNegotiation --------------------------
(***************************************************************************)
(* How a sink finds the codec of a connection: BTA AV asks the device for  *)
(* its stream endpoints (SEPs), then for the capabilities of one after the *)
(* other (bta_av_aact.c), the call-out collects those whose codec this     *)
(* build can decode and says when one is taken (bta_av_co.c), and the      *)
(* decoder and the device are told of it; or the device configures one of  *)
(* our endpoints itself, perhaps while it is being asked.                  *)
(*                                                                         *)
(* All of it runs in the BTU task: its data is one record u, a handler an  *)
(* operator from u to the next u, and q holds the messages that wait:      *)
(*   state, failed       state of the stream control block, open_status    *)
(*   seps, idx           sep_info (num_seps is its length), sep_info_idx   *)
(*   cfg, pcap           the codec in cfg; p_cap is allocated              *)
(*   co                  the call-out's entry of the peer: as is           *)
(*                       uuid_to_connect, n num_srcs, rx num_rx_srcs, srcs *)
(*                       the entries in use                                *)
(*   op, up              the AVDTP command without an answer; the channel  *)
(*   own                 the channel is ours: its end is told to the       *)
(*                       stream, that of a channel of the device's only to *)
(*                       the control block (p_conn_cback of the channel)   *)
(*   conn                the stream's bit in conn_msk                      *)
(*   ep                  our stream endpoint and the codec configured      *)
(*   dec                 the codec the decoder was configured for          *)
(*   stale, tries        history: co.srcs was not empty when the discovery *)
(*                       began; the opens so far                           *)
(*                                                                         *)
(* A SEP is its kind: a codec of Codecs (those the build decodes), unsup   *)
(* (any other codec), nocodec (no codec of our media type in its           *)
(* capabilities) or other (in use, a sink, or not audio).  Left out: the   *)
(* source role, two SETCONFIG commands that cross, and an open while the   *)
(* device is configuring (BtcAv has it) or while an old command has no     *)
(* answer.                                                                 *)
(***************************************************************************)
EXTENDS Naturals, Sequences, FiniteSets, FiniteSetsExt, SequencesExt

CONSTANTS
    Codecs,      \* codecs this build decodes
    Capacity,    \* BTC_SV_AV_AA_SOURCE_COUNT, places in srcs
    Offers,      \* the lists of SEPs a device may answer with
    MaxTries     \* bound on the opens of the application

Kinds == Codecs \cup {"unsup", "nocodec", "other"}

\* The other kinds, and an unset configuration, are no codecs of the build.
ASSUME CodecsAssumption == Codecs \cap {"unsup", "nocodec", "other", "unset"} = {}
ASSUME CapacityAssumption == Capacity \in Nat \ {0}
ASSUME OffersAssumption == \A o \in Offers : o \in Seq(Kinds)

VARIABLE u
vars == <<u>>

NoCo == [as |-> "none", n |-> 0, rx |-> 0, srcs |-> << >>]
EpIdle == [st |-> "idle", codec |-> "none"]
Msg(ev, arg) == [ev |-> ev, arg |-> arg]
Post(v, ev, arg) == [v EXCEPT !.q = Append(@, Msg(ev, arg))]
Go(v, state) == [v EXCEPT !.state = state]

Init == u = [state |-> "init", failed |-> FALSE, seps |-> << >>, idx |-> 1,
             cfg |-> "none", pcap |-> FALSE, co |-> NoCo, op |-> "none", up |-> FALSE,
             own |-> FALSE, conn |-> FALSE, ep |-> EpIdle, dec |-> "none", q |-> << >>,
             stale |-> FALSE, tries |-> 0]

\* What a handler cannot know.  osi_malloc finds memory; while opening, a configuration
\* can be built from the capabilities; later, what stands in p_cap's codec_info when the
\* device sent no codec, and where the half of the call-out for a source, which is left
\* out, leaves the index: as it is, or behind the list (bta_av_co.c:534).
Unknowns(v) ==
    IF v.state = "opening"
    THEN [mem : BOOLEAN, built : BOOLEAN, raw : {"unsup"}, at : {v.idx}]
    ELSE [mem : BOOLEAN, built : {TRUE}, raw : Codecs \cup {"unsup"},
          at : {v.idx, Len(v.seps) + 1}]

-----------------------------------------------------------------------------
(* The call-out.                                                           *)

\* Not the code: the first entry with a codec of ours.
FindOldestSrc(co) == Head(co.srcs)

\* bta_av_co_audio_find_peer_src: every entry has a codec of ours.
FindPeerSrc(co) == Last(co.srcs)

\* bta_av_co_audio_disc_res does not touch num_sup_srcs.
\* Not the code: the answers of the search before go on counting.
DiscResKeepsCount(co, as, n) == [co EXCEPT !.as = as, !.n = n]

DiscRes(co, as, n) == [co EXCEPT !.as = as, !.n = n, !.rx = 0]

\* bta_av_audio_sink_getconfig: what it keeps, and whether it takes an entry.
SaveSrc(co, k, i) ==
    LET more == k \in Codecs /\ Len(co.srcs) < Capacity
    IN [co EXCEPT !.rx = @ + 1,
                  !.srcs = IF more THEN Append(@, [idx |-> i, codec |-> k]) ELSE @]
Takes(co) == co.srcs # << >> /\ (co.rx = co.n \/ Len(co.srcs) = Capacity)

-----------------------------------------------------------------------------
(* The actions of the stream state machine.                                *)

\* bta_av_str_opened calls bta_av_conn_chg, bta_av_cleanup too.
StrOpened(v) == [v EXCEPT !.conn = TRUE]
Cleanup(v) == [v EXCEPT !.failed = FALSE, !.pcap = FALSE, !.conn = FALSE]
CcoClose(v) == [v EXCEPT !.co = NoCo]
StrClosed(v) == Cleanup(IF v.failed THEN v ELSE CcoClose(v))
ConnFailed(v) == StrClosed([v EXCEPT !.failed = TRUE])

\* AVDT_DisconnectReq: the end of the channel will be told to the stream.
DisconnectReq(v) == [v EXCEPT !.own = @ \/ v.up]
OpenFailed(v) == DisconnectReq(CcoClose([v EXCEPT !.failed = TRUE]))

\* bta_av_disconnect_req: conn_lcb is cleared when the end of the link is handled.
Disconnect(v) ==
    IF v.up \/ \E i \in DOMAIN v.q : v.q[i].ev \in {"DISCONNECT", "SIG_DOWN"}
    THEN DisconnectReq(v) ELSE StrClosed(Go(v, "init"))

\* STR_GETCAP_FAIL and STR_DISC_FAIL count in the opening state only.
SearchFails(v) == IF v.state = "opening" THEN OpenFailed(Go(v, "closing")) ELSE v

\* AVDT_DiscoverReq, AVDT_GetCapReq: nothing while one is without an answer.  On a
\* channel that is down it is opened again, and is not ours.
Ask(v, op) ==
    IF v.op # "none" THEN v
    ELSE [v EXCEPT !.op = op, !.up = TRUE, !.own = @ /\ v.up]

Candidates(v) == {i \in v.idx .. Len(v.seps) : v.seps[i] # "other"}

\* bta_av_next_getcap sends a command.
Sends(v, r) == Candidates(v) # {} /\ (v.pcap \/ r.mem)

\* Not the code: the end of the list is not reported.
NextGetcapSilent(v, r) ==
    IF ~Sends(v, r) THEN v
    ELSE Ask([v EXCEPT !.idx = Min(Candidates(v)), !.pcap = TRUE], "getcap")

NextGetcap(v, r) ==
    LET w == [v EXCEPT !.idx = IF Candidates(v) = {} THEN @ ELSE Min(Candidates(v))]
    IN IF Sends(v, r) THEN Ask([w EXCEPT !.pcap = TRUE], "getcap") ELSE SearchFails(w)

\* bta_av_disc_results and, in the incoming state, bta_av_disc_res_as_acp, which
\* looks for sinks only and reports an empty list to nobody.
Discovered(v, offer, as, n, r) ==
    LET w == [v EXCEPT !.seps = offer, !.idx = IF offer = << >> THEN @ ELSE 1,
                       !.co = DiscRes(@, as, n)]
    IN IF offer = << >> THEN SearchFails(w) ELSE NextGetcap(w, r)
DiscResults(v, offer, r) ==
    Discovered([v EXCEPT !.stale = v.co.srcs # << >>], offer, "source",
               Cardinality({i \in DOMAIN offer : offer[i] # "other"}), r)
DiscResAsAcp(v, offer, r) == Discovered(v, offer, "sink", 0, r)

\* AVDT_OpenReq: SETCONFIG, then OPEN, if there is a channel.
OpenReq(v) ==
    CASE ~v.up -> v
      [] v.up /\ v.ep.st = "idle" ->
           [v EXCEPT !.op = "open", !.ep = [st |-> "requested", codec |-> v.cfg]]
      [] OTHER -> Post(v, "OPEN_FAIL", "none")

\* bta_av_build_src_cfg leaves the configuration unset when it fails; nobody asks.
GetcapResults(v, k, r) ==
    LET co == SaveSrc(v.co, k, v.idx)
        src == FindPeerSrc(co)
        cfg == IF r.built THEN src.codec ELSE "unset"
        w == IF k = "nocodec" THEN v ELSE [v EXCEPT !.co = co]
    IN IF k # "nocodec" /\ Takes(co)
       THEN OpenReq([w EXCEPT !.idx = src.idx, !.cfg = cfg, !.dec = cfg, !.pcap = FALSE])
       ELSE NextGetcap([w EXCEPT !.idx = @ + 1], r)

\* The call-out keeps what p_cap holds: as a source's if the search was for sources,
\* else as a sink's.  It may move the index.
Collect(v, k, r) ==
    LET co == SaveSrc(v.co, k, v.idx)
    IN IF v.co.as = "source"
       THEN [v EXCEPT !.co = co, !.idx = IF Takes(co) THEN FindPeerSrc(co).idx ELSE @]
       ELSE [v EXCEPT !.idx = r.at]

\* Not the code: the capabilities become the configuration.
SaveCapsIntoCfg(v, k, r) == [Collect(v, k, r) EXCEPT !.idx = 1, !.cfg = k]

\* bta_av_save_caps: on to the next SEP, or done.
SaveCaps(v, k, r) ==
    LET c == IF v.pcap /\ k # "nocodec" THEN k ELSE r.raw
        w == Collect([v EXCEPT !.pcap = TRUE], c, r)
        x == [w EXCEPT !.idx = @ + 1]
    IN CASE ~v.pcap /\ ~r.mem -> v
         [] (v.pcap \/ r.mem) /\ Sends(x, r) -> NextGetcap(x, r)
         [] OTHER -> [w EXCEPT !.idx = 1]

\* bta_av_config_ind, and the answer of bta_av_co_audio_setconfig.
ConfigInd(v, c) ==
    Post([v EXCEPT !.state = "incoming", !.cfg = c, !.seps = <<c>>, !.idx = 1],
         IF c \in Codecs THEN "CI_OK" ELSE "CI_FAIL", "none")

\* For a codec but SBC "we need to know all the SEPs".
SetconfigRsp(v) ==
    LET w == [v EXCEPT !.dec = v.cfg, !.ep.st = IF @ = "indicated" THEN "conf" ELSE @]
    IN IF v.cfg = "sbc" THEN w ELSE Ask(w, "discover")
SetconfigRej(v) == [v EXCEPT !.ep = IF @.st = "indicated" THEN EpIdle ELSE @]

-----------------------------------------------------------------------------
(* bta_av_ssm_execute, for the messages of this module.                    *)

OpeningSst(v, m, r) ==
    CASE m.ev = "DISC_OK" -> DiscResults(v, m.arg, r)
      [] m.ev = "GETCAP_OK" -> GetcapResults(v, m.arg, r)
      [] m.ev \in {"DISC_FAIL", "GETCAP_FAIL", "OPEN_FAIL"} -> OpenFailed(Go(v, "closing"))
      [] m.ev = "OPEN_OK" -> StrOpened(Go(v, "open"))
      [] m.ev = "CONFIG_IND" -> ConfigInd(v, m.arg)
      [] m.ev = "CLOSE" -> Go(v, "closing")
      [] m.ev = "DISCONNECT" -> ConnFailed(Go(v, "init"))
      [] OTHER -> v

IncomingSst(v, m, r) ==
    CASE m.ev = "DISC_OK" -> DiscResAsAcp(v, m.arg, r)
      [] m.ev = "GETCAP_OK" -> SaveCaps(v, m.arg, r)
      [] m.ev = "OPEN_OK" -> StrOpened(Go(v, "open"))
      [] m.ev = "CONFIG_IND" -> ConfigInd(v, m.arg)
      [] m.ev = "CI_OK" -> SetconfigRsp(v)
      [] m.ev = "CI_FAIL" -> Cleanup(SetconfigRej(Go(v, "init")))
      [] m.ev = "CLOSE" -> Disconnect(CcoClose(Go(v, "closing")))
      [] m.ev \in {"CLOSED", "DISCONNECT"} -> Cleanup(CcoClose(Go(v, "init")))
      [] OTHER -> v

OpenSst(v, m, r) ==
    CASE m.ev = "GETCAP_OK" -> SaveCaps(v, m.arg, r)
      [] m.ev = "CLOSE" -> Go(v, "closing")
      [] m.ev = "CONFIG_IND" -> SetconfigRej(v)
      [] m.ev \in {"CLOSED", "DISCONNECT"} -> StrClosed(Go(v, "init"))
      [] OTHER -> v

ClosingSst(v, m) ==
    CASE m.ev = "CONFIG_IND" -> SetconfigRej(v)
      [] m.ev \in {"CLOSE", "CLOSED", "OPEN_FAIL"} -> Disconnect(v)
      [] m.ev = "DISCONNECT" -> StrClosed(Go(v, "init"))
      [] OTHER -> v

InitSst(v, m) ==
    CASE m.ev = "CONFIG_IND" -> ConfigInd(v, m.arg)
      [] m.ev = "CLOSE" -> Cleanup(v)
      [] OTHER -> v

\* bta_av_sig_chg: the control block tells the streams of conn_msk.
Told(v, m) ==
    IF m.ev # "SIG_DOWN" THEN m ELSE Msg(IF v.conn THEN "DISCONNECT" ELSE "none", "none")

\* The BTU task takes the next message.
Handle ==
    /\ u.q # << >>
    /\ \E r \in Unknowns(u) :
          LET v == [u EXCEPT !.q = Tail(@)]
              m == Told(u, Head(u.q))
          IN u' = CASE u.state = "init" -> InitSst(v, m)
                    [] u.state = "opening" -> OpeningSst(v, m, r)
                    [] u.state = "incoming" -> IncomingSst(v, m, r)
                    [] u.state = "open" -> OpenSst(v, m, r)
                    [] u.state = "closing" -> ClosingSst(v, m)

-----------------------------------------------------------------------------
(* The application and the device.                                         *)

\* API_OPEN in the initial state; once SDP and the channel are done, the
\* discovery is under way (an open that ends before changes nothing here): over a
\* channel of ours, or over one the device opened and left idle, when the timer of
\* bta_av_acp_sig_timer_cback goes off.
Open ==
    /\ u.state = "init" /\ u.q = << >> /\ u.op = "none" /\ u.ep.st = "idle"
    /\ u.tries < MaxTries
    /\ \E own \in BOOLEAN :
          u' = [u EXCEPT !.state = "opening", !.op = "discover", !.up = TRUE, !.own = own,
                         !.tries = @ + 1]

\* API_CLOSE of the application or, while closing, of the close timer as well.
Close ==
    /\ u.state # "init"
    /\ \A i \in DOMAIN u.q : u.q[i].ev # "CLOSE"
    /\ u' = Post(u, "CLOSE", "none")

AnswerDiscover ==
    /\ u.op = "discover"
    /\ \E o \in Offers : u' = Post([u EXCEPT !.op = "none"], "DISC_OK", o)

\* The capabilities of the SEP asked for: of any kind but other.  After an
\* incoming configuration the list is not that of the question any more, and only
\* a search for sources looks at the answer.
Capabilities ==
    CASE u.state = "opening" -> {u.seps[u.idx]}
      [] u.state # "opening" /\ u.co.as = "source" -> Kinds \ {"other"}
      [] OTHER -> {"nocodec"}
AnswerGetcap ==
    /\ u.op = "getcap"
    /\ \E k \in Capabilities : u' = Post([u EXCEPT !.op = "none"], "GETCAP_OK", k)

\* A device takes a configuration that fits the SEP, or perhaps an unset one; what an
\* index behind the list names is not known.
AcceptConfig ==
    /\ u.op = "open"
    /\ u.idx \in DOMAIN u.seps => u.ep.codec \in {u.seps[u.idx], "unset"}
    /\ u' = [u EXCEPT !.op = "none", !.ep.st = "opening"]

Reject ==
    \/ u.op = "discover" /\ u' = Post([u EXCEPT !.op = "none"], "DISC_FAIL", "none")
    \/ u.op = "getcap" /\ u' = Post([u EXCEPT !.op = "none"], "GETCAP_FAIL", "none")
    \/ /\ u.op = "open"
       /\ u' = Post([u EXCEPT !.op = "none", !.ep = EpIdle], "OPEN_FAIL", "none")

Configure ==
    /\ u.ep.st = "idle"
    /\ \/ u.state = "init" /\ u.op = "none" /\ u.q = << >> /\ u.tries < MaxTries
       \/ u.state = "opening" /\ u.op \in {"discover", "getcap"} /\ u.up
    /\ \E c \in Codecs \cup {"unsup"} :
          u' = Post([u EXCEPT !.up = TRUE, !.own = @ /\ u.up,
                              !.ep = [st |-> "indicated", codec |-> c],
                              !.tries = IF u.state = "init" THEN @ + 1 ELSE @],
                    "CONFIG_IND", c)

\* The media channel is up: after our OPEN, or after the device's.
MediaUp ==
    /\ u.ep.st \in {"opening", "conf"} /\ u.up
    /\ u' = Post([u EXCEPT !.ep.st = "open"], "OPEN_OK", "none")

FailOf(op) == CASE op = "discover" -> "DISC_FAIL" [] op = "getcap" -> "GETCAP_FAIL"
                [] op = "open" -> "OPEN_FAIL"

\* What AVDTP reports when the channel goes: the command that waits failed, then the
\* stream of ours is told (this stands for its CLOSED as well), or the control block
\* is, and the stream only if the endpoint was configured.
LinkReports ==
    LET failed == IF u.op = "none" THEN << >> ELSE <<Msg(FailOf(u.op), "none")>>
        closed(sts) == IF u.ep.st \in sts THEN <<Msg("CLOSED", "none")>> ELSE << >>
    IN failed \o (IF u.own THEN <<Msg("DISCONNECT", "none")>>
                  ELSE closed({"conf"}) \o <<Msg("SIG_DOWN", "none")>>
                       \o closed({"opening", "open"}))

LinkDown ==
    /\ u.up
    /\ u' = [u EXCEPT !.op = "none", !.up = FALSE, !.ep = EpIdle, !.q = @ \o LinkReports]

\* Nothing is left to happen: a bound on the model.
Done == u.state = "init" /\ u.q = << >> /\ u.tries = MaxTries /\ ~u.up /\ UNCHANGED u

Answer == AnswerDiscover \/ AnswerGetcap \/ AcceptConfig \/ Reject
Next == \/ Handle \/ Open \/ Close \/ Configure \/ Answer \/ MediaUp \/ LinkDown \/ Done

Spec == Init /\ [][Next]_vars

\* The BTU task runs, AVDTP answers a command (its timers report the device
\* that does not), a media channel we asked for comes up or the link fails,
\* and the closing state ends the connection (its timer).
Fairness ==
    /\ WF_vars(Handle)
    /\ WF_vars(Answer)
    /\ WF_vars(u.ep.st = "opening" /\ (MediaUp \/ LinkDown))
    /\ WF_vars(u.state = "closing" /\ LinkDown)

FairSpec == Spec /\ Fairness

-----------------------------------------------------------------------------
(* Properties.                                                             *)

Supported(seps) == {i \in DOMAIN seps : seps[i] \in Codecs}

\* The SEP to take of a list: if there are as many we can decode as codecs in
\* the build, that many of them are looked at, else all; the last is taken.  A
\* SEP without a codec is never counted as looked at, so the end is not seen.
Wanted(seps) ==
    LET S == Supported(seps)
    IN CASE Cardinality(S) >= Capacity ->
              {i \in S : Cardinality({j \in S : j <= i}) = Capacity}
         [] Cardinality(S) < Capacity /\ \E i \in DOMAIN seps : seps[i] = "nocodec" -> {}
         [] OTHER -> {i \in S : \A j \in S : j <= i}

Exhausted(v) == v.seps # << >> /\ Candidates(v) = {}

\* The SEP and the codec asked of a device are those of its list the rule
\* above names, and the search ends without one only if it names none, unless
\* entries of an earlier attempt were left in the call-out (bta_av_co.c:247-291).
WantedIsOpened ==
    ~u.stale =>
      /\ u.ep.st \in {"requested", "opening"} =>
            u.idx \in Wanted(u.seps) /\ u.ep.codec \in {u.seps[u.idx], "unset"}
      /\ u.state = "closing" /\ u.failed /\ Exhausted(u) => Wanted(u.seps) = {}

\* The decoder of an open stream is configured for the codec the stream was
\* configured with, whichever side did it and whatever answers to our own
\* questions arrive on the way (bta_av_aact.c:1255, :1712, :1880).
DecoderMatchesStream ==
    u.state = "open" /\ u.ep.st = "open" => u.dec = u.ep.codec

\* A discovery ends, with a stream or without, left-over entries or not, unless the
\* channel was the device's and went: nobody tells the stream then (bta_av_act.c:1413).
SearchEnds == u.state = "opening" ~> u.state # "opening" \/ (~u.up /\ ~u.own)

\* No attempt finds entries of an earlier one.  The code does not ensure it:
\* a link lost in the opening state keeps them (bta_av_aact.c:2510-2530).
NothingLeftOver == ~u.stale
=============================================================================
