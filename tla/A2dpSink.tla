------------------------------- MODULE A2dpSink -------------------------------
(***************************************************************************)
(* btc/profile/std/a2dp/btc_a2dp_sink.c: the receive side of A2DP.  Four   *)
(* tasks share one control block without a lock:                           *)
(*   BTU       takes the codec configurations and the media packets of the *)
(*             peer from AVDTP, and queues the packets (RxSbcQ);           *)
(*   BTC       runs the AV state machine (btc_av.c): it starts and stops   *)
(*             the decoder thread and switches rx_flush;                   *)
(*   worker    the decoder thread "A2DP_DECODER": it runs the messages     *)
(*             posted to it and, when there are none, drains RxSbcQ;       *)
(*   pressers  the tasks of the HCI layer, which empty RxSbcQ themselves   *)
(*             when an allocation fails (btc_a2dp_sink_on_memory_pressure).*)
(*                                                                         *)
(* One step is one access to what another task can see: the control block, *)
(* RxSbcQ (module FixedQueue), or the queues of the decoder thread (module *)
(* OsiThread).  A packet is the number of the configuration it was sent    *)
(* under, and so is a decoder.  The worker's test of thread->stop and its  *)
(* receive are one step here: only the worker reads that a stop has begun, *)
(* and until it joins BTC goes on to nothing else, so that a stop between  *)
(* the two is the same as one after the receive.                           *)
(***************************************************************************)
EXTENDS Naturals, Sequences, FiniteSets

CONSTANTS
    Pressers,        \* the tasks of the HCI layer that allocate packets
    MaxConfigs,      \* bound: the codec configurations the peer may set
    MaxMsgs,         \* bound: the AV events waiting for BTC
    Limit,           \* btc_a2dp_sink_queue_limit of each configuration
    Floor,           \* btc_a2dp_sink_queue_floor
    MemoryRunsOut,   \* may osi_malloc fail and the free memory be low?
    MayDeinit        \* may the application deinitialise the profile?

Configs == 1..MaxConfigs
NoConfig == 0        \* no codec, no decoder, no packet

ASSUME BoundsAssumption == /\ MaxConfigs \in Nat /\ MaxMsgs \in Nat
                           /\ Limit \in [0..MaxConfigs -> Nat \ {0}]
                           /\ Floor \in Nat
ASSUME SwitchesAssumption == {MemoryRunsOut, MayDeinit} \subseteq BOOLEAN

VARIABLES
    sink_state,      \* btc_a2dp_sink_state
    rx_flush,        \* btc_aa_snk_cb.rx_flush: discard the packets
    decoder,         \* the configuration ->decoder was set up for
    decoder_ready,
    codec_index,     \* the configuration whose limits are in force
    data_channel_open,
    RxSbcQ,          \* the packets of btc_aa_snk_cb.RxSbcQ
    credits,         \* its dequeue_sem
    queue_ptr,       \* what the pointer RxSbcQ points to
    thread,          \* the decoder thread, as its owner sees it
    ctrl,            \* its first work queue
    event,           \* data_ready_event: is it in the second work queue?
    btu, to_drop,    \* where BTU is in the media callback
    peer, config,    \* the AVDTP stream, and the configurations it has had
    btcq,            \* the AV events BTC has not handled
    av,              \* the state of the AV state machine
    todo,            \* the calls BTC has left to make, in order
    deinit,          \* g_a2dp_sink_ongoing_deinit
    registered,      \* is the sink service enabled in BTA?
    worker, cfg, nb, frame,   \* where the worker is, and on what
    reset_ok,        \* history: has the last decoder reset since the start succeeded?
    pressure,        \* where each presser is in on_memory_pressure
    failed,          \* the assertion that failed or the pointer that dangled
    lost             \* history: was a message not allocated since the last start?

sinkVars == << sink_state, rx_flush, decoder, decoder_ready, codec_index, data_channel_open >>
queueVars == << RxSbcQ, credits, queue_ptr >>
threadVars == << thread, ctrl, event >>
btuVars == << btu, to_drop, peer, config >>
btcVars == << btcq, av, todo, deinit, registered >>
workerVars == << worker, cfg, nb, frame, reset_ok >>
vars == << sinkVars, queueVars, threadVars, btuVars, btcVars, workerVars, pressure, failed, lost >>

Message(op, c) == [op |-> op, config |-> c]

Init == /\ sink_state = "off" /\ rx_flush = FALSE
        /\ decoder = NoConfig /\ decoder_ready = FALSE /\ codec_index = NoConfig
        /\ data_channel_open = FALSE
        /\ RxSbcQ = << >> /\ credits = 0 /\ queue_ptr = "null"
        /\ thread = "none" /\ ctrl = << >> /\ event = "null"
        /\ btu = "idle" /\ to_drop = 0 /\ peer = "closed" /\ config = NoConfig
        /\ btcq = << >> /\ av = "off" /\ todo = << >> /\ deinit = FALSE /\ registered = "no"
        /\ worker = "gone" /\ cfg = NoConfig /\ nb = 0 /\ frame = NoConfig
        /\ reset_ok = FALSE
        /\ pressure = [p \in Pressers |-> "idle"]
        /\ failed = "none" /\ lost = FALSE

-----------------------------------------------------------------------------
\* fixed_queue_length(RxSbcQ) and fixed_queue_is_empty, which accept NULL.
QueueLen == Len(RxSbcQ)

\* Mutant: a packet is taken without dequeue_sem.
MayDequeueUnclaimed == queue_ptr = "made" /\ QueueLen > 0

\* fixed_queue_dequeue(RxSbcQ, 0): the packet at the front, if dequeue_sem can
\* be taken at once.
MayDequeue == queue_ptr = "made" /\ credits > 0
Dequeue == /\ MayDequeue
           /\ RxSbcQ' = Tail(RxSbcQ)
           /\ credits' = credits - 1
           /\ UNCHANGED queue_ptr

\* The packet that comes out is freed, if one does: a round of
\* btc_a2dp_sink_flush_q and of the loops like it.
DropOne == IF MayDequeue THEN Dequeue ELSE UNCHANGED queueVars

\* osi_thread_post(btc_aa_snk_task_hdl, btc_a2dp_sink_ctrl, cfg, 0,
\* OSI_THREAD_MAX_TIMEOUT): the queue holds one message.
PostCtrl(m) == /\ thread # "none"
               /\ ctrl = << >>
               /\ ctrl' = << m >>
               /\ UNCHANGED << thread, event >>

(* Mutants: each is one operation with a plausible mistake; its name ends   *)
(* in the mistake.                                                          *)

\* The full queue is noticed when one packet too many is in it ("> limit").
EnqRoomOneMore == /\ btu = "room"
                  /\ btu' = IF QueueLen > Limit[codec_index] THEN "idle" ELSE "append"
                  /\ UNCHANGED << sinkVars, queueVars, threadVars, to_drop, peer, config, btcVars, workerVars,
                                  pressure, failed, lost >>

\* dequeue_sem is not given.
EnqGiveForgotten == /\ btu = "give"
                    /\ btu' = "post"
                    /\ UNCHANGED << sinkVars, queueVars, threadVars, to_drop, peer, config, btcVars, workerVars,
                                    pressure, failed, lost >>

\* The event is not posted at all.
EnqPostForgotten ==
    /\ btu = "post"
    /\ btu' = "idle"
    /\ UNCHANGED << sinkVars, queueVars, threadVars, to_drop, peer, config, btcVars, workerVars, pressure, failed, lost >>

\* The decoder is replaced while packets of the old one are in the queue.
WorkerResetFlushForgotten ==
    /\ worker = "resetFlush"
    /\ worker' = "resetDecoder"
    /\ UNCHANGED << sinkVars, queueVars, threadVars, btuVars, btcVars, cfg, nb, frame, reset_ok, pressure, failed, lost >>

\* It is left to BTA_AV_START_EVT to end the flush.
WorkerResetUnflushForgotten ==
    /\ worker = "resetUnflush"
    /\ reset_ok' = TRUE
    /\ worker' = "idle" /\ cfg' = NoConfig
    /\ UNCHANGED << sinkVars, queueVars, threadVars, btuVars, btcVars, nb, frame, pressure, failed, lost >>

-----------------------------------------------------------------------------
(* BTU: the media callback, bte_av_media_callback.                         *)

\* BTA_AV_MEDIA_DATA_EVT: a packet is taken only in the state STARTED.
MediaData == /\ btu = "idle" /\ peer = "streaming"
             /\ btu' = IF av = "started" THEN "check" ELSE "ignored"
             /\ UNCHANGED << sinkVars, queueVars, threadVars, to_drop, peer, config, btcVars, workerVars, pressure, failed, lost >>

\* In every other state the callback returns and leaves the packet as it is.
MediaIgnored == /\ btu = "ignored"
                /\ btu' = "idle"
                /\ UNCHANGED << sinkVars, queueVars, threadVars, to_drop, peer, config, btcVars, workerVars, pressure, failed, lost >>

\* btc_a2dp_sink_enque_buf: is the sink on, and does it take packets?
EnqCheck == /\ btu = "check"
            /\ btu' = IF \/ sink_state # "on" \/ queue_ptr = "null" \/ event = "null"
                         \/ rx_flush
                      THEN "idle" ELSE "ready"
            /\ UNCHANGED << sinkVars, queueVars, threadVars, to_drop, peer, config, btcVars, workerVars, pressure, failed, lost >>

EnqReady == /\ btu = "ready"
            /\ btu' = IF decoder_ready THEN "room" ELSE "idle"
            /\ UNCHANGED << sinkVars, queueVars, threadVars, to_drop, peer, config, btcVars, workerVars, pressure, failed, lost >>

\* A full queue refuses the packet; every so often the free memory is looked
\* at, and when it is low the packets above the floor are to go.
EnqRoom == /\ btu = "room"
           /\ \/ /\ QueueLen >= Limit[codec_index]
                 /\ btu' = "idle"
                 /\ UNCHANGED to_drop
              \/ /\ QueueLen < Limit[codec_index]
                 /\ btu' = "append"
                 /\ UNCHANGED to_drop
              \/ /\ QueueLen < Limit[codec_index]
                 /\ MemoryRunsOut /\ QueueLen > Floor
                 /\ btu' = "drop"
                 /\ to_drop' = QueueLen - Floor
           /\ UNCHANGED << sinkVars, queueVars, threadVars, peer, config, btcVars, workerVars, pressure, failed, lost >>

EnqDrop == /\ btu = "drop"
           /\ queue_ptr = "made"
           /\ DropOne
           /\ to_drop' = to_drop - 1
           /\ btu' = IF to_drop = 1 THEN "append" ELSE "drop"
           /\ UNCHANGED << sinkVars, threadVars, peer, config, btcVars, workerVars, pressure, failed, lost >>

\* fixed_queue_enqueue, first the list under the lock ...
EnqAppend == /\ btu = "append"
             /\ queue_ptr = "made"
             /\ RxSbcQ' = Append(RxSbcQ, config)
             /\ btu' = "give"
             /\ UNCHANGED << sinkVars, credits, queue_ptr, threadVars, to_drop, peer, config, btcVars, workerVars, pressure, failed, lost >>

\* ... where the new node may not be allocated, and the packet is freed ...
EnqAppendFails == /\ btu = "append"
                  /\ MemoryRunsOut
                  /\ btu' = "idle"
                  /\ UNCHANGED << sinkVars, queueVars, threadVars, to_drop, peer, config, btcVars, workerVars, pressure, failed, lost >>

\* ... then dequeue_sem.
EnqGive == /\ btu = "give"
           /\ queue_ptr = "made"
           /\ credits' = credits + 1
           /\ btu' = "post"
           /\ UNCHANGED << sinkVars, RxSbcQ, queue_ptr, threadVars, to_drop, peer, config, btcVars, workerVars, pressure, failed, lost >>

\* osi_thread_post_event(data_ready_event, 0): at most once in the queue.
EnqPost == /\ btu = "post"
           /\ btu' = "idle"
           /\ event' = IF event = "null" THEN event ELSE "queued"
           /\ failed' = IF event = "null" THEN "event" ELSE failed
           /\ UNCHANGED << sinkVars, queueVars, thread, ctrl, to_drop, peer, config, btcVars, workerVars, pressure, lost >>

\* The peer sets a configuration, or another one, of a stream that does not
\* run (BTA_AV_MEDIA_SINK_CFG_EVT).  Its message may not be allocated.
SinkCfg == /\ btu = "idle" /\ registered # "no" /\ peer # "streaming"
           /\ config < MaxConfigs
           /\ config' = config + 1
           /\ peer' = IF peer = "closed" THEN "configured" ELSE peer
           /\ \/ btu' = "cfg" /\ UNCHANGED lost
              \/ MemoryRunsOut /\ lost' = TRUE /\ UNCHANGED btu
           /\ UNCHANGED << sinkVars, queueVars, threadVars, to_drop, btcVars, workerVars, pressure, failed >>

\* btc_a2dp_sink_reset_decoder.
PostCfg == /\ btu = "cfg"
           /\ PostCtrl(Message("cfg", config))
           /\ btu' = "idle"
           /\ UNCHANGED << sinkVars, queueVars, to_drop, peer, config, btcVars, workerVars, pressure, failed, lost >>

\* bte_av_callback: the AV event of each change of the stream goes to BTC.
PeerEvent(from, to, e) ==
    /\ btu = "idle" /\ peer \in from
    /\ Len(btcq) < MaxMsgs
    /\ peer' = to
    /\ btcq' = Append(btcq, e)
    /\ UNCHANGED << sinkVars, queueVars, threadVars, btu, to_drop, config, av, todo, deinit, registered,
                    workerVars, pressure, failed, lost >>

PeerOpen == PeerEvent({"configured"}, "open", "open")
PeerStart == PeerEvent({"open"}, "streaming", "start")
PeerSuspend == PeerEvent({"streaming"}, "open", "suspend")
PeerStop == PeerEvent({"streaming"}, "open", "stop")
PeerClose == PeerEvent({"open", "streaming"}, "closed", "close")

\* The service is disabled: BTA closes what is left of the stream.
BtuDisable == /\ btu = "idle" /\ registered = "disabling"
              /\ registered' = "no"
              /\ peer' = "closed"
              /\ UNCHANGED << sinkVars, queueVars, threadVars, btu, to_drop, config, btcq, av, todo, deinit,
                              workerVars, pressure, failed, lost >>

-----------------------------------------------------------------------------
(* BTC: a handler is the sequence of the calls that touch shared state, and *)
(* BTC makes the first call of todo in one step.                            *)

OnSuspended == << "rxFlushOn", "rxFlushReq" >>
OnStopped == << "rxFlushOn", "rxFlushReq", "closeChannel" >>
OnIdle == << "rxFlushOn", "rxFlushReq", "clearTrack" >>
Shutdown == << "shuttingDown", "postCleanUp", "stop", "join", "disable" >>

\* What the AV state machine does with an event (btc_av.c).
Handler(e) ==
    CASE av = "idle" /\ e = "open"       -> << "opened" >>
      [] av = "opened" /\ e = "start"    -> << "rxFlushOff", "openChannel", "started" >>
      [] av = "started" /\ e = "suspend" -> OnSuspended \o << "opened" >>
      [] av = "started" /\ e = "stop"    -> OnStopped \o << "opened" >>
      [] av \in {"opened", "started"} /\ e = "close" ->
             OnStopped \o << "idle" >> \o OnIdle \o (IF deinit THEN Shutdown ELSE << >>)
      [] OTHER                           -> << >>

BtcEvent == /\ todo = << >> /\ btcq # << >>
            /\ todo' = Handler(Head(btcq))
            /\ btcq' = Tail(btcq)
            /\ UNCHANGED << sinkVars, queueVars, threadVars, btuVars, av, deinit, registered, workerVars, pressure, failed, lost >>

\* Mutant: nobody looks at what btc_a2dp_sink_startup returns.
AppInitUnchecked == /\ todo = << >> /\ av = "off" /\ registered = "no" /\ btcq = << >>
                    /\ sink_state = "off" /\ thread = "none"
                    /\ av' = "idle"
                    /\ todo' = OnIdle \o << "enable" >>
                    /\ UNCHANGED << sinkVars, queueVars, threadVars, btuVars, btcq, deinit, registered, workerVars,
                                    pressure, failed, lost >>

\* btc_a2dp_sink_startup, then the state machine enters IDLE and the service is
\* enabled.  A sink that is not OFF refuses to start.  An application that
\* starts the profile again is taken to wait until BTA has closed what was left.
AppInit == /\ todo = << >> /\ av = "off" /\ registered = "no" /\ btcq = << >>
           /\ sink_state = "off" /\ thread = "none"
           /\ thread' = "running"
           /\ ctrl' = << Message("init", NoConfig) >>
           /\ worker' = "idle"
           /\ av' = "idle"
           /\ todo' = OnIdle \o << "enable" >>
           /\ reset_ok' = FALSE /\ lost' = FALSE
           /\ UNCHANGED << sinkVars, queueVars, event, btuVars, btcq, deinit, registered, cfg, nb, frame,
                           pressure, failed >>

\* btc_a2d_sink_deinit: with a connection the shutdown waits for its end.
AppDeinit == /\ MayDeinit
             /\ todo = << >> /\ av # "off" /\ ~deinit
             /\ deinit' = (av # "idle")
             /\ todo' = IF av = "idle" THEN Shutdown ELSE << >>
             /\ UNCHANGED << sinkVars, queueVars, threadVars, btuVars, btcq, av, registered, workerVars, pressure, failed, lost >>

Call(f) == /\ todo # << >> /\ Head(todo) = f
           /\ todo' = Tail(todo)
           /\ UNCHANGED << btcq, deinit >>

SetRxFlush == /\ \/ Call("rxFlushOn") /\ rx_flush' = TRUE
                 \/ Call("rxFlushOff") /\ rx_flush' = FALSE
              /\ UNCHANGED << sink_state, decoder, decoder_ready, codec_index, data_channel_open, queueVars, threadVars,
                              btuVars, av, registered, workerVars, pressure, failed, lost >>

SetChannel == /\ \/ Call("openChannel") /\ data_channel_open' = TRUE
                 \/ Call("closeChannel") /\ data_channel_open' = FALSE
              /\ UNCHANGED << sink_state, rx_flush, decoder, decoder_ready, codec_index, queueVars, threadVars,
                              btuVars, av, registered, workerVars, pressure, failed, lost >>

SetState == /\ \E s \in {"idle", "opened", "started"} : Call(s) /\ av' = s
            /\ UNCHANGED << sinkVars, queueVars, threadVars, btuVars, registered, workerVars, pressure, failed, lost >>

\* btc_a2dp_sink_rx_flush_req looks at the queue first, and posts afterwards.
RxFlushReq == /\ todo # << >> /\ Head(todo) = "rxFlushReq"
              /\ \/ /\ QueueLen = 0 \/ MemoryRunsOut
                    /\ todo' = Tail(todo)
                 \/ /\ QueueLen > 0
                    /\ todo' = << "postFlush" >> \o Tail(todo)
              /\ UNCHANGED << sinkVars, queueVars, threadVars, btuVars, btcq, av, deinit, registered, workerVars,
                              pressure, failed, lost >>

\* The messages BTC posts; all but the flush may find no memory and be left out.
Post == /\ \/ /\ \/ Call("postFlush") /\ PostCtrl(Message("flush", NoConfig))
                 \/ Call("clearTrack") /\ PostCtrl(Message("clear", NoConfig))
                 \/ Call("postCleanUp") /\ PostCtrl(Message("cleanup", NoConfig))
              /\ UNCHANGED lost
           \/ /\ MemoryRunsOut
              /\ Call("clearTrack") \/ Call("postCleanUp")
              /\ lost' = TRUE
              /\ UNCHANGED threadVars
        /\ UNCHANGED << sinkVars, queueVars, btuVars, av, registered, workerVars, pressure, failed >>

EnableService == /\ Call("enable")
                 /\ registered' = "yes"
                 /\ UNCHANGED << sinkVars, queueVars, threadVars, btuVars, av, workerVars, pressure, failed, lost >>

ShuttingDown == /\ Call("shuttingDown")
                /\ sink_state' = "shutting_down"
                /\ UNCHANGED << rx_flush, decoder, decoder_ready, codec_index, data_channel_open, queueVars, threadVars,
                                btuVars, av, registered, workerVars, pressure, failed, lost >>

\* osi_thread_free: stop the worker, wait for it, then delete its queues.
Stop == /\ Call("stop")
        /\ thread' = "stopping"
        /\ UNCHANGED << sinkVars, queueVars, ctrl, event, btuVars, av, registered, workerVars, pressure, failed, lost >>

Join == /\ worker = "gone"
        /\ Call("join")
        /\ thread' = "none"
        /\ ctrl' = << >>
        /\ UNCHANGED << sinkVars, queueVars, event, btuVars, av, registered, workerVars, pressure, failed, lost >>

\* clean_up: the service is disabled and the state machine shut down.
DisableService == /\ todo # << >> /\ Head(todo) = "disable"
                  /\ todo' = Tail(todo)
                  /\ registered' = "disabling"
                  /\ av' = "off"
                  /\ deinit' = FALSE
                  /\ UNCHANGED << sinkVars, queueVars, threadVars, btuVars, btcq, workerVars, pressure, failed, lost >>

-----------------------------------------------------------------------------
(* The decoder thread: the messages, btc_a2dp_sink_ctrl.                    *)

WorkerTake == /\ worker = "idle" /\ thread = "running" /\ ctrl # << >>
              /\ cfg' = Head(ctrl).config
              /\ ctrl' = Tail(ctrl)
              /\ worker' = Head(ctrl).op
              /\ UNCHANGED << sinkVars, queueVars, thread, event, btuVars, btcVars, nb, frame, reset_ok, pressure, failed, lost >>

WorkerExit == /\ worker = "idle" /\ thread = "stopping"
              /\ worker' = "gone"
              /\ UNCHANGED << sinkVars, queueVars, threadVars, btuVars, btcVars, cfg, nb, frame, reset_ok, pressure, failed, lost >>

\* btc_a2dp_sink_thread_init: the sink is ON before it has its event and queue.
WorkerInit == /\ worker = "init"
              /\ rx_flush' = FALSE
              /\ decoder_ready' = FALSE
              /\ codec_index' = NoConfig
              /\ sink_state' = "on"
              /\ event' = "null" /\ queue_ptr' = "null"
              /\ worker' = "init2"
              /\ UNCHANGED << decoder, data_channel_open, RxSbcQ, credits, thread, ctrl, btuVars, btcVars,
                              cfg, nb, frame, reset_ok, pressure, failed, lost >>

WorkerInitQueue == /\ worker = "init2"
                   /\ event' = "clear"
                   /\ queue_ptr' = "made" /\ RxSbcQ' = << >> /\ credits' = 0
                   /\ data_channel_open' = FALSE
                   /\ worker' = "idle"
                   /\ UNCHANGED << sink_state, rx_flush, decoder, decoder_ready, codec_index, thread, ctrl,
                                   btuVars, btcVars, cfg, nb, frame, reset_ok, pressure, failed, lost >>

\* btc_a2dp_sink_thread_cleanup: first the decoder and the state ...
WorkerCleanUp == /\ worker = "cleanup"
                 /\ decoder' = NoConfig /\ decoder_ready' = FALSE
                 /\ data_channel_open' = FALSE
                 /\ sink_state' = "off"
                 /\ worker' = "cleanup2"
                 /\ UNCHANGED << rx_flush, codec_index, queueVars, threadVars, btuVars, btcVars, cfg, nb, frame, reset_ok,
                                 pressure, failed, lost >>

\* ... then fixed_queue_free, which a task inside fixed_queue_enqueue does not
\* survive ...
WorkerFreeQueue == /\ worker = "cleanup2"
                   /\ queue_ptr' = "freed" /\ RxSbcQ' = << >> /\ credits' = 0
                   /\ failed' = IF btu = "give" THEN "queue" ELSE failed
                   /\ worker' = "cleanup3"
                   /\ UNCHANGED << sinkVars, threadVars, btuVars, btcVars, cfg, nb, frame, reset_ok, pressure, lost >>

\* ... then the pointers.
WorkerForgetQueue == /\ worker = "cleanup3"
                     /\ queue_ptr' = "null"
                     /\ event' = "null"
                     /\ codec_index' = NoConfig
                     /\ worker' = "idle"
                     /\ UNCHANGED << sink_state, rx_flush, decoder, decoder_ready, data_channel_open, RxSbcQ, credits,
                                     thread, ctrl, btuVars, btcVars, cfg, nb, frame, reset_ok, pressure, failed, lost >>

\* BTC_MEDIA_FLUSH_AA_RX, BTC_MEDIA_AUDIO_SINK_CLEAR_TRACK, and the flushes of
\* data_ready: the loop ends when the queue is empty.
WorkerFlush == /\ worker \in {"flush", "clear"}
               /\ IF QueueLen = 0 THEN worker' = "idle" /\ UNCHANGED queueVars
                  ELSE DropOne /\ UNCHANGED worker
               /\ UNCHANGED << sinkVars, threadVars, btuVars, btcVars, cfg, nb, frame, reset_ok, pressure, failed, lost >>

\* btc_a2dp_sink_handle_decoder_reset: packets are refused from here on; a codec
\* without a decoder leaves it at that.
WorkerReset == /\ worker = "cfg"
               /\ decoder_ready' = FALSE
               /\ rx_flush' = TRUE
               /\ reset_ok' = FALSE
               /\ \/ worker' = "resetFlush" /\ UNCHANGED cfg
                  \/ worker' = "idle" /\ cfg' = NoConfig
               /\ UNCHANGED << sink_state, decoder, codec_index, data_channel_open, queueVars, threadVars, btuVars, btcVars,
                               nb, frame, pressure, failed, lost >>

WorkerResetFlush == /\ worker = "resetFlush"
                    /\ IF QueueLen = 0 THEN worker' = "resetDecoder" /\ UNCHANGED queueVars
                       ELSE DropOne /\ UNCHANGED worker
                    /\ UNCHANGED << sinkVars, threadVars, btuVars, btcVars, cfg, nb, frame, reset_ok, pressure, failed, lost >>

\* The old decoder goes and the new one is set up.  It may not initialise, and
\* its buffer may not be allocated.
WorkerResetDecoder ==
    /\ worker = "resetDecoder"
    /\ \/ /\ decoder' = cfg /\ worker' = "resetReady"
          /\ UNCHANGED << rx_flush, cfg >>
       \/ /\ decoder' = NoConfig /\ worker' = "idle" /\ cfg' = NoConfig
          /\ UNCHANGED rx_flush
       \/ /\ MemoryRunsOut
          /\ decoder' = cfg /\ worker' = "idle" /\ cfg' = NoConfig
          /\ rx_flush' = TRUE
    /\ decoder_ready' = FALSE
    /\ UNCHANGED << sink_state, codec_index, data_channel_open, queueVars, threadVars, btuVars, btcVars,
                    nb, frame, reset_ok, pressure, failed, lost >>

WorkerResetReady == /\ worker = "resetReady"
                    /\ codec_index' = cfg
                    /\ decoder_ready' = TRUE
                    /\ worker' = "resetUnflush"
                    /\ UNCHANGED << sink_state, rx_flush, decoder, data_channel_open, queueVars, threadVars, btuVars, btcVars,
                                    cfg, nb, frame, reset_ok, pressure, failed, lost >>

WorkerResetUnflush == /\ worker = "resetUnflush"
                      /\ rx_flush' = FALSE
                      /\ reset_ok' = TRUE
                      /\ worker' = "idle" /\ cfg' = NoConfig
                      /\ UNCHANGED << sink_state, decoder, decoder_ready, codec_index, data_channel_open, queueVars, threadVars,
                                      btuVars, btcVars, nb, frame, pressure, failed, lost >>

-----------------------------------------------------------------------------
(* The decoder thread: the packets, btc_a2dp_sink_data_ready.               *)

\* The event is run when no message waits; it may be posted again from here on.
WorkerData == /\ worker = "idle" /\ thread = "running" /\ ctrl = << >> /\ event = "queued"
              /\ event' = "clear"
              /\ worker' = "data"
              /\ UNCHANGED << sinkVars, queueVars, thread, ctrl, btuVars, btcVars, cfg, nb, frame, reset_ok, pressure, failed, lost >>

WorkerCount == /\ worker = "data"
               /\ nb' = IF rx_flush THEN 0 ELSE QueueLen
               /\ worker' = IF rx_flush THEN "flush" ELSE "drain"
               /\ UNCHANGED << sinkVars, queueVars, threadVars, btuVars, btcVars, cfg, frame, reset_ok, pressure, failed, lost >>

WorkerDrain == /\ worker = "drain"
               /\ \/ /\ nb > 0 /\ sink_state = "on" /\ MayDequeue
                     /\ frame' = Head(RxSbcQ)
                     /\ Dequeue
                     /\ worker' = "judge"
                  \/ /\ nb = 0 \/ (sink_state = "on" /\ ~MayDequeue)
                     /\ worker' = "rest"
                     /\ UNCHANGED << frame, queueVars >>
                  \/ /\ nb > 0 /\ sink_state # "on"
                     /\ worker' = "idle"
                     /\ UNCHANGED << frame, queueVars >>
               /\ nb' = IF worker' = "judge" THEN nb ELSE 0
               /\ UNCHANGED << sinkVars, threadVars, btuVars, btcVars, cfg, reset_ok, pressure, failed, lost >>

\* A flush stops the drain.
WorkerJudge == /\ worker = "judge"
               /\ IF rx_flush THEN worker' = "flush" /\ frame' = NoConfig /\ nb' = 0
                  ELSE worker' = "media" /\ UNCHANGED << frame, nb >>
               /\ UNCHANGED << sinkVars, queueVars, threadVars, btuVars, btcVars, cfg, reset_ok, pressure, failed, lost >>

\* btc_a2dp_sink_handle_inc_media drops what nobody can decode or listens to.
WorkerMedia == /\ worker = "media"
               /\ IF rx_flush \/ ~decoder_ready \/ decoder = NoConfig \/ ~data_channel_open
                  THEN worker' = "drain" /\ frame' = NoConfig /\ nb' = nb - 1
                  ELSE worker' = "decode" /\ UNCHANGED << frame, nb >>
               /\ UNCHANGED << sinkVars, queueVars, threadVars, btuVars, btcVars, cfg, reset_ok, pressure, failed, lost >>

WorkerDecode == /\ worker = "decode"
                /\ worker' = "drain" /\ frame' = NoConfig /\ nb' = nb - 1
                /\ UNCHANGED << sinkVars, queueVars, threadVars, btuVars, btcVars, cfg, reset_ok, pressure, failed, lost >>

\* What came in during the drain gets the event posted again.
WorkerRest == /\ worker = "rest"
              /\ worker' = "idle"
              /\ event' = IF QueueLen > 0 THEN "queued" ELSE event
              /\ UNCHANGED << sinkVars, queueVars, thread, ctrl, btuVars, btcVars, cfg, nb, frame, reset_ok, pressure, failed, lost >>

-----------------------------------------------------------------------------
(* A presser: btc_a2dp_sink_on_memory_pressure.                             *)

Goes(p, from, to) == /\ pressure[p] = from
                     /\ pressure' = [pressure EXCEPT ![p] = to]

PressCall(p) == /\ sink_state = "on"
                /\ Goes(p, "idle", "flushOn")
                /\ UNCHANGED << sinkVars, queueVars, threadVars, btuVars, btcVars, workerVars, failed, lost >>

PressFlushOn(p) == /\ Goes(p, "flushOn", "empty")
                   /\ rx_flush' = TRUE
                   /\ UNCHANGED << sink_state, decoder, decoder_ready, codec_index, data_channel_open, queueVars, threadVars,
                                   btuVars, btcVars, workerVars, failed, lost >>

\* No queue, or an empty one, ends the loop ...
PressEmpty(p) == /\ queue_ptr # "freed"
                 /\ Goes(p, "empty", IF QueueLen = 0 THEN "ready" ELSE "take")
                 /\ UNCHANGED << sinkVars, queueVars, threadVars, btuVars, btcVars, workerVars, failed, lost >>

\* ... otherwise it takes a packet, if it can be taken at once.
PressTake(p) == /\ queue_ptr = "made"
                /\ Goes(p, "take", "empty")
                /\ DropOne
                /\ UNCHANGED << sinkVars, threadVars, btuVars, btcVars, workerVars, failed, lost >>

PressReady(p) == /\ Goes(p, "ready", IF decoder_ready THEN "flushOff" ELSE "idle")
                 /\ UNCHANGED << sinkVars, queueVars, threadVars, btuVars, btcVars, workerVars, failed, lost >>

PressFlushOff(p) == /\ Goes(p, "flushOff", "idle")
                    /\ rx_flush' = FALSE
                    /\ UNCHANGED << sink_state, decoder, decoder_ready, codec_index, data_channel_open, queueVars, threadVars,
                                    btuVars, btcVars, workerVars, failed, lost >>

-----------------------------------------------------------------------------
(* What the code cannot do: assert(queue != NULL) of fixed_queue.c and      *)
(* assert(thread != NULL) of thread.c fail, or freed memory is used.        *)

UsesQueue == \/ queue_ptr # "made" /\ btu \in {"drop", "append", "give"}
             \/ \E p \in Pressers : \/ queue_ptr # "made" /\ pressure[p] = "take"
                                    \/ queue_ptr = "freed" /\ pressure[p] = "empty"

UsesThread == /\ thread = "none"
              /\ \/ btu = "cfg"
                 \/ todo # << >> /\ Head(todo) \in {"postFlush", "clearTrack", "postCleanUp"}

Fail == /\ \/ UsesQueue /\ failed' = "queue"
           \/ UsesThread /\ failed' = "thread"
        /\ UNCHANGED << sinkVars, queueVars, threadVars, btuVars, btcVars, workerVars, pressure, lost >>

-----------------------------------------------------------------------------
\* The steps of a media callback; the others are up to the peer and to BTA.
BtuCall == \/ MediaIgnored \/ EnqCheck \/ EnqReady \/ EnqRoom \/ EnqDrop \/ EnqAppend \/ EnqAppendFails \/ EnqGive
           \/ EnqPost \/ PostCfg
PeerStep == \/ MediaData \/ SinkCfg \/ PeerOpen \/ PeerStart \/ PeerSuspend \/ PeerStop \/ PeerClose
            \/ BtuDisable
BtcStep == \/ BtcEvent \/ SetRxFlush \/ SetChannel \/ SetState \/ RxFlushReq \/ Post \/ EnableService
           \/ ShuttingDown \/ Stop \/ Join \/ DisableService
AppStep == AppInit \/ AppDeinit
WorkerStep == WorkerTake \/ WorkerExit \/ WorkerInit \/ WorkerInitQueue \/ WorkerCleanUp \/ WorkerFreeQueue
              \/ WorkerForgetQueue \/ WorkerFlush \/ WorkerReset \/ WorkerResetFlush \/ WorkerResetDecoder
              \/ WorkerResetReady \/ WorkerResetUnflush \/ WorkerData \/ WorkerCount \/ WorkerDrain \/ WorkerJudge
              \/ WorkerMedia \/ WorkerDecode \/ WorkerRest
PressStep(p) == PressFlushOn(p) \/ PressEmpty(p) \/ PressTake(p) \/ PressReady(p) \/ PressFlushOff(p)

Next == /\ failed = "none"
        /\ \/ BtuCall \/ PeerStep
           \/ BtcStep \/ AppStep
           \/ WorkerStep
           \/ \E p \in Pressers : PressCall(p) \/ PressStep(p)
           \/ Fail

Spec == Init /\ [][Next]_vars

\* A task of the HCI layer has a higher priority than BTU, BTC and the decoder
\* thread: these are sure to get on only when no presser runs.
HostScheduled == \A p \in Pressers : pressure[p] = "idle"

\* Every task that is inside a call goes on, as far as it is scheduled.  Nothing
\* is assumed of the peer, of the application and of the calls for memory.
Fairness == /\ WF_vars(failed = "none" /\ HostScheduled /\ BtuCall)
            /\ WF_vars(failed = "none" /\ HostScheduled /\ BtcStep)
            /\ WF_vars(failed = "none" /\ HostScheduled /\ WorkerStep)
            /\ \A p \in Pressers : WF_vars(failed = "none" /\ PressStep(p))

FairSpec == Spec /\ Fairness

-----------------------------------------------------------------------------
(* Properties.                                                              *)

BtuPlaces == {"idle", "ignored", "check", "ready", "room", "drop", "append", "give", "post", "cfg"}
MsgOps == {"init", "cleanup", "cfg", "flush", "clear"}
Messages == [op : MsgOps, config : 0..MaxConfigs]
WorkerPlaces == MsgOps \cup { "gone", "idle", "init2", "cleanup2", "cleanup3", "resetFlush", "resetDecoder", "resetReady",
                              "resetUnflush", "data", "drain", "judge", "media", "decode", "rest" }
PressPlaces == {"idle", "flushOn", "empty", "take", "ready", "flushOff"}
Calls == { "rxFlushOn", "rxFlushOff", "rxFlushReq", "postFlush", "clearTrack", "openChannel", "closeChannel", "idle",
           "opened", "started", "enable", "shuttingDown", "postCleanUp", "stop", "join", "disable" }
Events == {"open", "start", "suspend", "stop", "close"}

FlagsOK == {rx_flush, decoder_ready, data_channel_open, deinit, reset_ok, lost} \subseteq BOOLEAN
ConfigsOK == {decoder, codec_index, config, cfg, frame} \subseteq 0..MaxConfigs
SequencesOK == /\ RxSbcQ \in Seq(Configs)
               /\ ctrl \in Seq(Messages) /\ Len(ctrl) <= 1
               /\ btcq \in Seq(Events) /\ Len(btcq) <= MaxMsgs
               /\ todo \in Seq(Calls)
PlacesOK == /\ sink_state \in {"off", "on", "shutting_down"}
            /\ queue_ptr \in {"null", "made", "freed"}
            /\ thread \in {"none", "running", "stopping"}
            /\ event \in {"null", "clear", "queued"}
            /\ btu \in BtuPlaces
            /\ peer \in {"closed", "configured", "open", "streaming"}
            /\ av \in {"off", "idle", "opened", "started"}
            /\ registered \in {"no", "yes", "disabling"}
            /\ worker \in WorkerPlaces
            /\ pressure \in [Pressers -> PressPlaces]
            /\ failed \in {"none", "queue", "event", "thread"}

\* The type invariant: every variable has a value the code can give it.
TypeOK == FlagsOK /\ ConfigsOK /\ SequencesOK /\ PlacesOK /\ {credits, to_drop, nb} \subseteq Nat

\* btc_a2dp_sink.c:629 "Decoding stale frames into a reconfigured/closed decoder
\* can corrupt state": a decoder is never given a packet that was sent before
\* its configuration was set, however the reset, the flushes and the incoming
\* packets interleave.
FramesNotStale == worker = "decode" => decoder # NoConfig /\ frame >= decoder

\* The queue never holds more than the limit of the codec in force: the checks
\* of btc_a2dp_sink_enque_buf are made before the packet is added, and in
\* between the worker may have put a smaller limit in force.
QueueBounded == queue_ptr = "made" => QueueLen <= Limit[codec_index]

\* No assertion on a queue, an event or a thread fails and no freed queue is
\* used, as long as the profile is not deinitialised.
NothingFails == failed = "none"

\* Nobody is in a call and nothing waits.
Quiet == /\ btcq = << >> /\ todo = << >> /\ btu = "idle"
         /\ ctrl = << >> /\ event # "queued" /\ worker = "idle"
         /\ \A p \in Pressers : pressure[p] = "idle"

\* btc_a2dp_sink.c:961 "Clearing the decoder here leaves the subsequent STARTED
\* stream muted": once all is quiet, a started stream whose decoder was set up
\* is heard - no flush is left on by the resets, the AV events and the memory
\* pressure, which switch rx_flush without knowing of each other - and, if no
\* message was lost for want of memory, somebody listens and the decoder is that
\* of the last configuration.
PlaysAfterReset == (Quiet /\ av = "started" /\ reset_ok)
                       => /\ decoder_ready /\ ~rx_flush
                          /\ lost \/ (data_channel_open /\ decoder = config)

\* BTU adds packets for ever.
Fed == []<>(btu = "append")

\* Memory stays short: again and again, or for good, a presser is at work.
Pressing == []<>(\E p \in Pressers : pressure[p] # "idle")

\* Once the pressure on memory is over, a call of BTU or BTC ends: neither waits
\* for ever for the decoder thread to take a message - for BTC, unless the worker
\* has to flush packets for ever.
HostProceeds == Pressing \/ /\ btu # "idle" ~> btu = "idle"
                            /\ Fed \/ (todo # << >> ~> todo = << >>)

\* No packet stays: once the pressure is over and BTU stops adding packets, those
\* in the queue are decoded or flushed.
QueueDrains == Pressing \/ Fed \/ (QueueLen > 0 ~> QueueLen = 0)

-----------------------------------------------------------------------------
(* What comments in the code say, and the code does not do.                 *)

\* btc_a2dp_sink.c:482 "Post cleanup BEFORE freeing the thread so it actually
\* runs": when the thread has been freed the sink has been cleaned up.
CleanUpRuns == (thread = "none" /\ todo = << >>) => sink_state = "off"

\* btc_a2dp_sink.c:629 "If a flush/reconfig/disconnect happens mid-drain, stop
\* decoding immediately": a decoder gets only packets of its configuration.
DecoderMatchesPacket == worker = "decode" => frame = decoder

\* fixed_queue.c:162 assert(queue != NULL), and the comment at
\* btc_a2dp_sink.c:1049: the queue is there as long as somebody flushes it.
QueueOutlivesUsers == failed # "queue"

\* btc_a2dp_sink.c:1049 "Immediately flushes queued audio packets to free internal
\* RAM.  This is a synchronous flush": the flush of a presser ends.
PressureEnds == \A p \in Pressers : (pressure[p] # "idle" ~> pressure[p] = "idle")

=============================================================================
