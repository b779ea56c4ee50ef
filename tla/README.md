# The receive path of the Bluetooth host, in TLA+

This directory specifies parts of the Bluetooth Classic host of the repository
(`components/bt`), the part its fork of ESP-IDF is about: receiving A2DP audio with
large codecs on a chip with little memory.  The modules are translated from the C
sources; paths below are relative to `components/bt` unless they say otherwise, and
`a2dp/` stands for `host/bluedroid/btc/profile/std/a2dp/`.

    FixedQueue        implements BoundedFifo   osi/fixed_queue.c
    OsiThread         implements WorkThread    osi/thread.c
    A2dpSink          uses what these promise  a2dp/btc_a2dp_sink.c, a2dp/btc_av.c
    HciLayer          likewise                 hci/hci_layer.c, hci/hci_hal_h4.c,
                                               stack/btu/btu_hcif.c, osi/alarm.c
    BtcAv             on top of BtaAv          a2dp/btc_av.c, bta/av, stack/avdt
    CodecNegotiation                           a2dp/bta_av_co.c, bta/av/bta_av_aact.c

For each there is an `MC...` module with the instances TLC checks (one `.cfg` per
run).  Each has a `...Proofs` module with theorems checked by TLAPS (CodecNegotiation
two, the second of them `CodecSearchProofs`); `BtaAvProofs` has the lemmas about the
operators of BtaAv that those of BtcAv rest on.  `PROJECT.json` lists the runs, the source lines of every
definition, the hazards with the properties that watch them, the findings and the
theorems.  A few `.cfg` files belong to no run: they reproduce facts that are told in
the text below and contradict a property one might expect.


## 1. Inventory

### How a packet becomes sound

1.  The controller hands a packet to the HCI transport (`hci/hci_hal_h4.c`).  The
    *packet fragmenter* joins the fragments of one L2CAP packet; L2CAP, AVDTP and
    BTA run in the **BTU** task and end in `bte_av_media_callback` (`btc_av.c`).
2.  In the state STARTED of the *AV state machine* the packet goes, without a copy,
    to `btc_a2dp_sink_enque_buf`, which puts it in the *fixed queue* `RxSbcQ` and
    posts the event `data_ready_event` to the *OSI thread* `A2DP_DECODER`.
3.  That **decoder thread** drains the queue, decodes, and gives the samples to the
    application, which buffers them in a *ring buffer* before I2S.
4.  The **BTC** task runs the AV state machine: it gets the events of the stream
    from BTU, and starts, flushes and stops the sink.
5.  When an allocation fails in the **HCI layer**, `btc_a2dp_sink_on_memory_pressure`
    empties `RxSbcQ` from the task that happens to allocate.

No lock protects the control block of the sink (`a2dp_sink_local_param` and
`btc_a2dp_sink_state`); four tasks write it.

### How a connection comes up

1.  The application calls `esp_a2d_sink_connect`, or the peer connects.  BTC queues
    connect requests (`btc_profile_queue.c`) and its state machine asks BTA.
2.  BTA (on BTU) searches SDP, opens an AVDTP signalling channel, asks for the stream
    endpoints of the peer and their capabilities, and the *call-out*
    (`bta_av_co.c`) chooses one, or judges what the peer has chosen.
3.  The stream opens, starts, is suspended and closes by messages between BTC and BTU,
    commands between AVDTP and the peer, and timers on both sides.
4.  Every command to the controller goes through the *HCI layer*: queued by BTU, sent
    on a credit, held until the controller answers.

### Components

| component | state it keeps | operations | interacts through |
|---|---|---|---|
| fixed queue (`osi/fixed_queue.c`) | list, mutex, two counting semaphores | enqueue, dequeue, try_remove, length, process | called by every task |
| OSI thread (`osi/thread.c`) | work queues, binary `work_sem` and `stop_sem`, `stop`, handle; per event `is_queued` | post, post_event, run, stop, free | messages and events to its worker |
| A2DP sink (`a2dp/btc_a2dp_sink.c`) | state, decoder, `decoder_ready`, codec index, `rx_flush`, `RxSbcQ`, event, thread | startup, shutdown, enqueue, reset, flush, drain, memory pressure | BTU, BTC and HCI call it; it posts to its thread |
| AV state machine (`a2dp/btc_av.c`, `btc_a2dp_control.c`) | state (IDLE, OPENING, OPENED, STARTED, CLOSING), flags, peer, deinit flags, connect queue | one handler per state | events from BTU and the application; calls the sink; reports to the application |
| BTA AV, AVDTP (`bta/av`, `stack/avdt`) | stream and channel control blocks, endpoints, commands without an answer, timers | open, configure, start, suspend, close | messages of BTC, commands and answers of the peer |
| codec negotiation (`a2dp/bta_av_co.c`) | entries of the peer's endpoints, chosen codec | discovery, selection, configuration | called by BTA on BTU; sets the decoder |
| HCI layer (`hci/hci_layer.c`) | command queue, credits, commands awaiting an answer, timer, packet queue | transmit, receive, time out | BTU queues commands; answers go back to it |
| HCI transport (`hci/hci_hal_h4.c`) | queue of received packets, advertising reports | receive, credit, deliver | controller callbacks, HCI host task |
| packet fragmenter (`hci/packet_fragmenter.c`) | partial packet per handle, current fragment | fragment, reassemble | HCI layer, L2CAP |
| OSI alarm, future, packet queue | timers, semaphores | set, cancel, free; await, ready | `esp_timer` task, BTC |
| BTC and BTU tasks | one OSI thread each | dispatch by profile or event | everything |
| ring buffer (`components/esp_ringbuf`) | buffer, four pointers | send, acquire, complete, receive, return | application tasks |
| A2DP source, codec libraries, rest of ESP-IDF | - | - | not considered: see section 10 |

### What is hard in it, and what must hold

*Fixed queue.*  Every operation takes a semaphore, then the lock, then gives the
other semaphore; tasks may be anywhere between these.  The counts must agree with the
list, the front of an empty list must never be taken, no wake-up may be lost,
and the order is that of the appends.

*OSI thread.*  One binary semaphore stands for any number of items in several
queues, for a stop, and is taken once per emptying of them all; an event must be
queued at most once and yet be handled after every post; priorities; the join
of a stop that times out.

*A2DP sink.*  A reset of the decoder, a drain, a flush for lack of memory, the
AV events and incoming packets overlap.  A decoder must never get stale packets
(the comment at `btc_a2dp_sink.c:629` says it crashed), no packet may be stranded, the
queue must keep to its limit, and the four writers of `rx_flush` must not leave a
started stream muted.  Shutting down races everything.

*HCI layer.*  Credits that are overwritten by numbers the controller computed earlier;
answers in any order, to commands of one opcode; commands freed by one of two tasks;
callers that wait without a time-out for what only the task they may have blocked can
give; lost packets.

*AV state machine, BTA and AVDTP.*  Collisions of local and remote operations, failed
operations, a second device, timers on both sides, and deinitialisation in any state.
Three state machines in two tasks must end up agreeing on what the connection is.

*Codec negotiation.*  Choices over the capabilities of a peer that configures us while
it is asked, and state that outlives the attempt it was made for.

*Fragmenter, ring buffer.*  16-bit lengths that do not add up; wrap-around and items
returned out of order.


## 2. Fixed queue: `BoundedFifo`, `FixedQueue`

| in the module | in the code |
|---|---|
| `list`, `enqueue_sem`, `dequeue_sem` | the list under `queue->lock`, and the two semaphores' counts |
| `pc`, `held` | where each task is in an operation, and the pointer it holds |
| `EnqueueCall/Take/Timeout/Append/AppendFails/Give` | `fixed_queue_enqueue` |
| `DequeueCall/Take/Timeout/Remove`, `GiveEnqueue` | `fixed_queue_dequeue` |
| `TryRemove` | `fixed_queue_try_remove_from_queue`, whose claim is made under the lock |

A critical section of `queue->lock` with the list operation in it is one step (the mutex is
recursive and nothing blocks inside); each semaphore operation is another.
`Patient` tasks pass an infinite timeout, the others may time out whenever the
semaphore is 0.  `BoundedFifo` is what `fixed_queue.h` promises: a FIFO whose
operations take effect at one instant, which is that of the list operation.

One run, `fixed_queue`, has safety, refinement and liveness, with appends that may
fail.  Three places, four pointers, two producers, two consumers and two removers, one
task being all three (as BTU both adds to and drops from the A2DP queue) and one of the
others impatient: enough for a queue that is full, empty and in between with every pair
of operations under way.  `CHECK_DEADLOCK FALSE`: once failed appends have used up the
places, tasks that wait for ever may be all that is left.

A failed append loses a place: `fixed_queue_enqueue` takes `enqueue_sem` and does not
give it back when `list_append` fails (`fixed_queue.c:149`), so that the queue
refuses or blocks callers before it is full, which is not what
`include/osi/fixed_queue.h:40-42` promises.  The history variable `lost` counts these
places: `EnqueueBalance` says that no place goes missing in another way,
and `ProducerProceeds` that a producer gets on unless all are lost.


## 3. OSI thread: `WorkThread`, `OsiThread`

| in the module | in the code |
|---|---|
| `Post`, `Put`, `PutTimeout`, `GiveWork` | `osi_thread_post` |
| `PostEvent`, `AcquireEvent`, `ClearEvent` | `osi_thread_post_event`: the test without the lock, the increment under it, what follows a failed post |
| `WorkerTake` to `WorkerDelete` | `osi_thread_run`, with its inner loop over the queues (`idx`): `stop` is read (`WorkerTest`) before the queue is received from (`WorkerGet`, `WorkerMiss`) |
| `HandlerClear`, `WorkerFinish` | `osi_thread_generic_event_handler`, and the return of an item's function |
| `Free`, `OwnerGiveWork`, `Join`, `JoinTimeout`, `OwnerDelete`, `Release` | `osi_thread_free` and `osi_thread_stop` |

The worker may post from the item it runs, as `btc_a2dp_sink_data_ready` does.
`unseen` and `arrived` are history variables.  `WorkThread` is the promise of
`thread.h`: queues in order, one item at a time, no rest while there is work.  After the stop it
may run one item more (`last`), or give it up: the worker reads `stop` without a lock before it
receives, and a stop that comes in between is seen after that item only.
The owner frees the thread when no other task is in a post; that the sink does not keep to
this is found in `A2dpSink`, not assumed away there.

| run | instance | shows |
|---|---|---|
| `osi_thread` | two events alone in a queue of two places, work in another of one; one poster and the worker may give up; the join succeeds | safety, refinement, liveness |
| `osi_thread_shared` | two works and an event in one queue of two places, so that an event's post can fail; the join may time out | the safety part of the refinement, `StopEndsWork` |

Two posters and the worker: two posts of one event overlap with its handler, and a post
overlaps every step of the scan.  All run with `CHECK_DEADLOCK FALSE`, because a freed
thread ends its life.

The code's join waits 1000 ms, and an item may run longer: what a stop promises has to hold when
the join times out too.  Two things might be expected of it:

*   `StopEndsWork` holds: once `osi_thread_stop` has returned, no item runs, no post of the worker
    is under way and no queue is looked at, so that the queues may be deleted.  The worker has been deleted
    wherever it was, or is past the loop.
*   `StopLeavesNoWorker` does not (`MCOsiThreadJoin.cfg` reproduces it): a join that times out after the worker has
    forgotten its handle and before it has given `stop_sem` (`thread.c:182-183`) deletes
    nothing (`:207-208`, after "if join failed, delete the task here"), and `stop_sem` and the
    thread are freed under their worker.

Another fact the model makes plain:

*   A poster cannot tell from the result whether the event will be handled: the post also
    returns false when the event is already queued (`thread.c:442`), while
    `include/osi/thread.h:115` says that false means a full queue.


## 4. A2DP sink: `A2dpSink`

One module for the sink and the three kinds of tasks around it, because every property of interest is
about their interleaving.

| variable | in the code |
|---|---|
| `sink_state`, `rx_flush`, `decoder`, `decoder_ready`, `codec_index`, `data_channel_open` | the control block; a decoder is named by the configuration it was set up for |
| `RxSbcQ`, `credits`, `queue_ptr` | the packets, the count of `dequeue_sem`, and whether the pointer is NULL, valid or freed |
| `thread`, `ctrl`, `event` | the decoder thread: running, its message queue (one place), is the event queued |
| `btu`, `to_drop`, `peer`, `config` | where BTU is in the media callback; the stream as AVDTP has it |
| `btcq`, `av`, `todo`, `deinit`, `registered` | BTC: the waiting AV events, the state, the calls a handler has left to make |
| `worker`, `cfg`, `nb`, `frame` | where the decoder thread is, and on what |
| `pressure` | where each task is in `btc_a2dp_sink_on_memory_pressure` |
| `failed` | which assertion failed, or which freed object was used |
| `reset_ok`, `lost` | history since the last startup: the last reset succeeded; a message was not allocated |

A packet is the number of the configuration under which it was sent.  A handler of
BTC is the sequence of calls it makes on shared state (`Handler`, `OnStopped`,
`OnIdle`, `Shutdown`, ...), executed one per step.  One step is one access to something
shared.  What was put together, and why that loses nothing:

*   several fields read by one `if` of `btc_a2dp_sink_enque_buf` (state, pointers,
    `rx_flush`) are one step; `decoder_ready`, which the same `if` reads last, is another,
    since a reset writes it on its own;
*   adjacent writes of one task that nobody can use in between (the resets of the control block in `thread_init`
    and `thread_cleanup`);
*   dequeueing is atomic and the two halves of enqueueing are not: between
    `list_append` and `osi_sem_give` the queue is not empty and yet gives nothing, which
    the flushes and the drain can see.  `enqueue_sem` is left out: the limits are below
    the capacity of the queue;
*   posting to and taking from the thread's queues are atomic: `OsiThread` shows they
    may be taken so.  The join of a stop is taken to succeed (section 3 says what happens
    when it does not).

Allocation failures (`MemoryRunsOut`) and deinitialisation (`MayDeinit`) are switched on per
run.  With
`MemoryRunsOut` the configuration, CLEAR and CLEAN_UP messages may be lost, the append may fail, the
decode buffer may be missing and BTU may drop old packets; the flush message is lost by
`RxFlushReq`.

### Properties that hold

*   `FramesNotStale`: a decoder never gets a packet sent before its configuration
    was set.  BTU may have passed its checks before the flush of a reset and append
    after it; what saves it is that BTU also takes the configurations, so that a packet it
    appends is of the newest configuration there is.
*   `QueueBounded`: the limit in force holds although it is looked at before the append.
    A reset makes the decoder unready, empties the queue and only then puts another
    limit in force; BTU can be past its checks with one packet, for which every limit has room.
*   `PlaysAfterReset`: when nothing is under way, a started stream whose last reset
    succeeded is neither flushed nor without a decoder; if no message was lost for want of
    memory since the start (the history `lost`), the channel is open and the decoder is
    that of the last configuration.  A CLEAR message lost at startup is an exception: it
    is BTC's wait for its turn that orders `thread_init`, which wipes
    `data_channel_open`, before the START of a stream.
*   `NothingFails`: without a deinit no assertion on queue, event or thread fails, and no
    freed object is used, even when allocations fail.
*   `HostProceeds`, `QueueDrains` (liveness): BTU and BTC, which post with an infinite timeout
    to a queue of one place, get on; the queue drains, so that no packet is stranded by an event
    that was not posted.  Both hold once the pressure on memory is over (`Pressing`): while
    a task is at work on it, the tasks below it need not get a turn (see Fairness).  What
    waits for the drain or the worker's flush also needs that BTU does not add packets for ever (`Fed`): both
    loops go on until they see an empty list.

### Runs

| run | instance | shows |
|---|---|---|
| `a2dp_sink` | 2 configurations with limits 2 and 1, 1 AV event waiting, `MayDeinit`, `MemoryRunsOut` | the safety properties, across failed allocations, shutdown and the next startup |
| `a2dp_sink_live` | 1 configuration, limit 1, 1 AV event, `MemoryRunsOut` | liveness and `NothingFails`, with failing allocations |
| `a2dp_sink_clean_up` | the smallest that shows it | the finding |

Bounds: one task under memory pressure (two differ from one only in who takes the
packet), two configurations (a reset needs an old and a new one; the second has the smaller
limit, the direction that could break `QueueBounded`), queue limits of 2 and 1 and floor
0 (the code has 4 to 32: full, in between and empty are all reached), one
AV event waiting for BTC, besides the one it handles (the peer can overtake BTC by two).
`MaxConfigs` and `MaxMsgs` are bounds of the model, not of the code.  The runs with
`MayDeinit` switch deadlock checking off: the finding of `a2dp_sink_clean_up` is that
the sink can stop for good there, and an assertion that failed stops everything.
`a2dp_sink_live` checks for deadlock.

### Fairness

`FairSpec` assumes weak fairness of a task under pressure inside its call, and of BTU, BTC and
the decoder thread only while no task is under pressure (`HostScheduled`).  The flush is called
in the controller's task (`host_recv_pkt_cb`) or in the HCI host task; both have a higher priority
than BTU, which is above BTC and the decoder thread, all are pinned to cores, by default to the same one, and the loop of the flush does not
block: FreeRTOS need not run the others while it lasts.  Among BTU, BTC and the decoder thread weak fairness
is justified because each blocks when it has nothing to do: BTU and BTC on their queues or on the
message queue of the decoder thread, the decoder thread on its semaphore.  That BTU, above the others, may
be kept busy by packets for ever is the exception `Fed`.  Nothing is assumed of the peer, of
the application and of when memory is short.  In `FixedQueue`, a
task that waits on a semaphore for ever is not overtaken for ever (strong fairness of the take, FreeRTOS
wakes the longest waiter of the highest priority); in `OsiThread` items' functions return.

### What does not hold

The first is the run `a2dp_sink_clean_up`; the others are reproduced with the `.cfg`
named.

1.  The CLEAN_UP message is posted before the thread is freed "so it actually runs"
    (`btc_a2dp_sink.c:482`), but the worker leaves its loop without looking at its queue
    once `stop` is set.  The sink stays SHUTTING_DOWN and refuses to start again.
2.  `PressureEnds` (`MCA2dpSinkSpin.cfg`): the flush of the HCI layer, which "immediately flushes
    queued audio packets" (`:1049`), looks at the list and takes by the semaphore
    (`btc_a2dp_sink.c:1080-1085`).  On an element BTU has appended and not yet announced
    (`fixed_queue.c:148-155`) it spins, and BTU, which has the lower priority, cannot announce it.
3.  `DecoderMatchesPacket` (`MCA2dpSinkMidDrain.cfg`): a reconfiguration waits in the
    message queue while the drain goes on, and the old decoder gets a packet of the new
    codec.
4.  `QueueOutlivesUsers` (`MCA2dpSinkQueue.cfg`): the HCI layer flushes, or BTU fills, a
    queue that is being freed.

Two more facts: with `MayDeinit`, BTU may post a configuration to a thread that has been
freed (`UsesThread`; `btc_a2dp_sink.c:603` against `assert(thread != NULL)`,
`thread.c:340`), so that `NothingFails` is checked without it; and a packet that arrives
outside STARTED is neither queued nor freed (`MediaIgnored`; `btc_av.c:1445`, while
`bta_av_aact.c:602` says "packet will be free by upper").


## 5. HCI layer: `HciLayer`

| in the module | in the code |
|---|---|
| `command_queue`, `packet_queue`, `command_credits`, `pending` | `hci_host_env`, and the commands that wait for an answer |
| `downstream`, `upstream` | are the two events of `hci_host_thread` queued |
| `rx_q`, `hci` | received packets; where the HCI task is in one of the two handlers, with `pkts_to_process` |
| `btuq`, `btu`, `sync` | BTU's queue; its caller that waits; `ble_sync_info`: `sync_sem`, opcode, status |
| `timer` | `timer_is_set`, the alarm, the messages it has sent to BTC |
| `allocated`, `ctl` | command buffers in use; the controller: room, commands held, ACL buffers |
| `Send`, `SendPacket`, `SyncTake`, `SyncRead`, `Handle` | BTU: `transmit_command`, `transmit_downward`, `btu_hcif_send_cmd_sync`, the messages of HCI |
| `HciDown` | `hci_downstream_data_handler`, `event_command_ready`, `event_packet_ready` |
| `HciUp` | `hci_upstream_data_handler`, `filter_incoming_event`, `restart_command_waiting_response_timer` |
| `AlarmFires`, `TimedOut` | `alarm.c`'s callback through BTC, and `command_timed_out` |
| `Controller` | `host_recv_pkt_cb`, `host_send_pkt_available_cb`, and the answers (external) |

Both directions run on the *one* thread `hci_host_thread` (`hci_layer.c:116-126`,
`hci_hal_h4.c:143`), as two events; what interleaves is that thread with BTU, BTC, the
`esp_timer` task and the controller's callbacks.  HCI has the highest priority of the
host's tasks, which share a core, so that the others run only when it has nothing to do
or waits for room in BTU's queue (`HciRests`).  The controller meets HCI in `rx_q` and
the events alone; it steps when HCI is idle or is about to post, since what it does
elsewhere in an activation it may as well do at its end.

Properties that hold:

*   `EveryCommandHasOneHolder`: who frees a command depends on the event that answers it
    (HCI after Command Complete, BTU after Command Status); none leaks or is freed twice.
*   `AnswersMatch`: answers come in any order and are matched to the first command of
    their opcode, yet each command that waits is with the controller or has an answer on its way.
*   `NeverOverrunsController`: `command_credits` is overwritten with numbers the controller
    computed before it got the commands sent since; with room for one command it never
    gets two.  With room for more it may get too many, by the same code.
*   `SyncStatusIsOwn`: `sync_sem` is given before the opcode is cleared, and the status is in one
    variable that every Command Complete overwrites; with a one-slot controller the
    caller still reads that of its own command.  With room for two it may read
    another's (`btu_hcif.c:804`, `:1639`).
*   `TimerCoversPending`: as long as commands wait, the one alarm is set or its expiry is
    on the way to BTC.
*   `CallerReleased`, `CommandSent`, `PacketSent`, `DataFlows` (liveness): no event of the HCI task is
    forgotten when credits run out or the controller is full.

| run | instance | shows |
|---|---|---|
| `hci_layer` | commands a, b of one opcode and a synchronous s; room for one or two commands; a BTU queue of two places, one other event | safety |
| `hci_layer_live` | commands a (callbacks), s (synchronous), f (future), one slot, one ACL buffer, one packet, the alarm, other events may be dropped | `TimerCoversPending` and liveness |

Two commands of an opcode, and one of another, are what confuses matching; two slots let
answers overtake each other; a BTU queue of two fills up.  `hci_layer` runs with
`CHECK_DEADLOCK FALSE`: with a full BTU queue HCI waits for BTU, while BTU waits for an
answer only HCI can pass on.  Nothing in the code bounds what comes into that
queue (it has 100 places, and HCI posts without a timeout, `hci_layer.c:485`); the
live run has room for all of it.

`FairSpec` assumes that the tasks run, that the controller answers every
command and has room again, and strong fairness of `Handle`: BTU may be sending whenever
it could handle a message, but it does not send for ever without handling one.

What does not hold, or holds under a condition:

*   Any packet may be dropped for want of memory (`hci_hal_h4.c:645-662`), after "The
    Bluetooth stack will handle retransmission if needed" (`:657-658`).  No one
    retransmits the answer of a command: its credit is lost and its caller waits for
    ever (`MCHciLayerDrop.cfg`, `CallerReleased`).
*   `osi_alarm_cancel` may return while the alarm's message is in BTC's queue: the
    callback runs after it (`alarm.c:139-153`), against `include/osi/alarm.h:64-66`
    (`MCHciLayerCancel.cfg`, `CancelIsFinal`).  `command_timed_out` survives it,
    because it finds no command.
*   A future is completed by Command Complete only (`hci_layer.c:497`): the model's
    controller answers such a command so, as it must for the caller to go on.
*   Commands that are not acknowledged, as the acknowledgement of ACL data, take no
    credit and yet wait for one (`:250`).

Left out: start and shutdown (`hci_layer.c:137-151`, `209-233`), the credits of
advertising reports (`hci_hal_h4.c:315-453`), the fragments of a packet (it is sent whole),
and a failing allocation of a message to BTU.  `TimedOut` is one step.


## 6. Connection: `BtaAv`, `BtcAv`

`BtaAv` has the data of the BTU task as one record and its actions as operators on it, as in
the code, where a table names the actions a state takes for an event: `scb` with the
stream state machine (`bta_av_ssm.c`, `bta_av_aact.c`), `lcb`, `conn` and the two
timers of the control block (`bta_av_act.c`), and AVDTP as far as BTA can tell
(`link`, `cback`, `op`, `idle`, `ep`).  `BtcAv` has BTC (`btc`), the application, the
peers and the timers, and puts the two tasks together: they talk through their two queues
and nothing else.  A handler of either task is one step, because nothing it touches is
shared.  Packets come to BTU through the same queue as the messages (`stack/btu/btu_task.c:219-257`), but
the queue of the model has the messages only: a packet may be handled at any time, as one that
was waiting before them.  How many may do so is not limited, which is more than the code allows.

| in the module | in the code |
|---|---|
| `btc.sm`, `peer`, `lsp`, `rs` | state, `peer_bda`, LOCAL_SUSPEND_PENDING, REMOTE_SUSPEND |
| `btc.init`, `deinit`, `ongoing` | the `g_a2dp_*` flags the application's task reads |
| `btc.connq` | the connect request `btc_profile_queue.c` is busy with |
| `btc.shown` | history: the state last reported of each device |
| `BtcStep` | the five state handlers of `btc_av.c`, media control, and the connect queue |
| `BtuStep` | `bta_av_hdl_event`, `bta_av_ssm_execute`, AVDTP's handlers |

One life of the profile is modelled: initially BTC has handled `sink_init`, and after
`deinit` there is nothing more.  The search for a codec is one answer (`Discovered`):
section 7 has it.  What a peer does of its own accord counts against `MaxPeer`; its
answers, and the OPEN that follows its configuration, do not.

| run | instance | shows |
|---|---|---|
| `btc_av` | devices a, b; one call of the application, two actions of the peers | `StreamIsKnown`, `ShownIsPeer` |
| `btc_av_live` | device a; two calls, one action of the peer | `StreamIsShown` and liveness |
| `btc_av_deinit` | device a; two calls, two actions | the finding |

A second device is what addresses can be mixed up with; two calls are a connection and
what ends or suspends it.  No run checks for deadlock: with calls and actions
used up, the system rests.

*   `StreamIsKnown`: when no message is under way, a stream that is open in BTA is not one BTC
    thinks idle, opening or gone, in whatever order a peer's channel, the 2 s timers, a request
    and a rejection reach the two queues.  CLOSING is not excluded: BTC may be left in it (see
    the finding) and the peer then configure and open a stream again, which takes two calls and three
    actions.  In that larger instance (one device, 13.2 million states) `StreamIsKnown` and `StreamIsShown` hold too.
    It is a theorem for any devices, calls and actions.
*   `ShownIsPeer`: the application is told of the end of a connection before BTC takes up another.
*   `StreamIsShown`, with one device: an open stream has been reported.  With
    two it may fail: `peer_addr` of the stream is overwritten when a channel of b
    comes up (`bta_av_act.c:1375`) while BTC reports a.  Section 8 has the theorem, and what it assumes.
*   `OwnOpenEnds`, `OwnCloseEnds`: whichever step fails, an opening or closing stream on our own channel
    gets there.  The condition `OwnChannel` is needed: of a channel the *peer* opened, only the control
    block is told when it is lost (`bta_av_aact.c:1217-1221`, `bta_av_act.c:1413-1427`), and
    the stream stays in OPENING or CLOSING for good.
*   `LocalSuspendEnds`: LOCAL_SUSPEND_PENDING, which refuses further suspends, does not last.  It
    does when BTC waits in CLOSING for a CLOSE that never comes, as told below: the peer opens and starts a
    stream while our SDP search runs, the application suspends and disconnects, and the search ends in
    BTA's CLOSING.  `SearchOutlivesStream` names that state and the property leaves it
    out.  It takes three calls and three actions of the peer (or four and two), more than the run has: there the
    property holds without the exception, and so it does with three calls and one action
    (`MCBtcAvSuspend.cfg`, 390,000 states).  With three calls and two actions (10.6 million states, too
    many for TLC's check of liveness) a search for a state with the flag set in which no step is left found none.

`FairSpec`: the two tasks serve their queues; SDP, L2CAP and AVDTP answer or time out.  A
timer that runs, runs out although messages keep coming, hence strong
fairness for the timers' expiry (a handler may stop and start one again).  The application and the
peers need not do anything.

### The finding

`btc_av_deinit`: we connect and the SDP search runs; the peer connects, configures and opens a
stream, so that BTC is in OPENED; the application deinitialises, and BTA goes to CLOSING.  The search ends
there, and `bta_av_sdp_failed` reports OPEN (failed) instead of CLOSE, which
BTC has no case for in OPENED.  The flag of the deinitialisation stays set.  There is a
second way: CLOSE in CLOSING does not look at the flag (`btc_av.c:650`),
so that a deinitialisation followed by a disconnection is not completed.

A connection request, or a disconnection, that reaches a BTC without a state machine is an abort
in the code (`CHECK_BTAV_INIT`, `btc_av.c:1673` and `:1763`): `BtcStep` takes no such message
(`Aborts`), because the program has ended there.

A disconnection can be lost in the same way.  The stream the peer opened is started, the
application disconnects, and BTC goes to CLOSING to "wait in closing state until fully
closed" (`btc_av.c:959`).  The search ends while BTA closes: the stream is back in INIT, BTC gets OPEN (failed),
which CLOSING ignores, and stays there; DISCONNECTED is never reported, and
the next connect request keeps the connect queue busy.  `MCBtcAvClosing.cfg` reproduces
it: `WaitsUntilClosed` fails.

### Facts met on the way

*   A rejection or `clean_up` leaves the connect queue busy (`btc_av.c:483-487`, `:1291`); a
    DISCONNECT_REQ in OPENING is lost, a CONNECT_REQ in STARTED or CLOSING is not handled.
*   A failed SUSPEND has switched `rx_flush` on before BTC looks at its status
    (`btc_av.c:969`); BTA closes the connection then (`bta_av_aact.c:2604-2612`), so that
    no muted stream remains.
*   A STOP while `suspend_sup` is FALSE is answered locally while AVDTP streams on.
*   `bta_av_setconfig_rej` reports an `avdt_handle` nobody has set on that path
    (`bta_av_aact.c:1143-1147`, `:1972-1976`).
*   BTA returns from INCOMING to INIT without a word to BTC; the idle timer is not
    stopped by a peer's SETCONFIG; the close timer turned out redundant in the model,
    where AVDTP's own timer ends what it would end.
*   `bta_av_api_enable` clears the control block (`bta_av_main.c:251-259`): the second
    initialisation is not modelled with the connection.

Left out: the source role and role switches, AVRCP, reconfiguration, delay
reports, content protection, SCO.


## 7. Codec negotiation: `CodecNegotiation`

How a sink finds the codec of a connection.  As in `BtaAv`, the BTU task's data is one
record and a handler an operator on it; the device answers, rejects, configures us
while it is asked, or is lost at any moment; the application opens and closes.  The
header of the module names the fields; `Open` stands for an API_OPEN whose SDP
search and channel have come up.

The rule, as the code has it, is `Wanted`: with C places in the call-out (C codecs in the
build), the C-th endpoint we can decode if there are as many, else the last one.
An endpoint without any codec is never counted as looked at
(`bta_av_co.c:366-413`), so that with one in the list the end is not seen, and the open
fails although a decodable endpoint was offered.

*   `WantedIsOpened`: the endpoint and the codec asked of the device are those `Wanted`
    names in *its* list, and the search fails only when it names none, for a search that began
    without left-over entries.
*   `DecoderMatchesStream`: whichever side configured an open stream, the decoder is set for its codec,
    although answers to our own questions arrive in INCOMING and OPEN and are
    given to the same call-out (`bta_av_aact.c:1728`).
*   `SearchEnds`: a search ends with a stream or without, left-over entries or not, unless its channel was
    the device's and went.  A search may run over a channel the device opened and left idle
    (`bta_av_acp_sig_timer_cback`, `bta_av_act.c:1492-1503`).  When that channel goes, a command
    without an answer still fails, and its failure ends the search; but the end of the channel is told to the control block only,
    which passes it on to streams that are open (`bta_av_act.c:1413-1427`).  With an answer
    still in BTU's queue, or the media channel coming up, the stream stays in OPENING.  The
    field `own` says whose channel it is, `conn` is the bit that makes the control block pass it on.

One run, `codec_negotiation`: two codecs, two places, two attempts, and four lists of endpoints: none; one of
ours before one without a codec; one of ours after one we cannot decode and one in use; more endpoints
than places, with a codec twice.  The second attempt is what left-over entries and counts need.
`MCCodecNegotiationLists.cfg` checks the two invariants for one attempt and ten lists: also both orders of
the two codecs, and a list in which nothing is of ours.  The ten lists with two attempts
(11.8 million states, too long for a run) satisfy the invariants as well.  All lists of up to
three endpoints of five kinds are too many for TLC together with what else may happen.
`FairSpec`: BTU runs, AVDTP answers
every command (its timer stands in for a silent device), a media channel we have asked for
comes up or the link fails, and CLOSING ends the connection.

What a handler cannot know is a record of `Unknowns`: whether memory is found; whether a configuration
can be built from the capabilities (`bta_av_co.c:346-352`; if not, the code goes on with an unset one);
what `p_cap` holds when it was never filled.  After the device has configured us with a codec other than SBC,
`bta_av_setconfig_rsp` asks for its endpoints (`SetconfigRsp`), `bta_av_disc_res_as_acp` looks through them for sinks
(`DiscResAsAcp`), and the answers that follow are those `DecoderMatchesStream` is about.

`NothingLeftOver` does not hold (`MCCodecNegotiationLeft.cfg`).
`bta_av_co_audio_disc_res` resets every counter but `num_sup_srcs`, and two ways leave it and its entries
behind: a link lost in OPENING when no command waits (an answer is queued, or the
media channel is opening) goes to `bta_av_conn_failed`, which does not call the call-out's
close (`bta_av_aact.c:2510-2530`); and a refused configuration of the peer in INCOMING.
The next search, of perhaps another device, counts the old entries as found: it stops
too early and asks for an index and a codec of another list.  The device rejects
that, and the failed open cleans up, so that the attempt after it is sound.

Two more facts: after a configuration we refuse while a capabilities request is
outstanding, `bta_av_cleanup` frees `p_cap` that AVDTP still holds; and the `psc_mask` of a
stream is taken from the capabilities fetched last, not of the endpoint chosen
(`bta_av_aact.c:1928-1930`).

Left out: the source role, two SETCONFIG commands that cross, an open during an
incoming configuration (section 6 has it) or while an old command has no answer.


## 8. Proofs

The theorems hold for every value of the constants that the modules' `ASSUME`s
allow.  Each `...Proofs` module proves that an inductive invariant holds, one lemma per
action or handler with one step per conjunct it can disturb, and derives the
theorems from it.

*   **FixedQueueProofs.**  `TypeCorrect`, `FrontIsSafe`, `ElementsBalance`, `PlacesBalance`,
    `Refinement`.  `FrontNeverOnEmpty` is not inductive: it needs that the elements are
    counted exactly (`DequeueBalance`) and that a count never exceeds the capacity, where
    a semaphore would silently refuse a give (`EnqueueBalance`).  The counts are
    cardinalities of the sets of tasks at a place, so the lemmas say how a step moves one
    task between two of them.
*   **OsiThreadProofs.**  `TypeCorrect`, `WakeupIsKept`, `OneInstance`,
    `PriorityIsRespected`, `StopIsClean` (`StopEndsWork`, with a join that may time out) and
    `Refinement` (safety part, with the one item after the stop).  `EventOnce` is inductive only with what ties an event's
    job to its poster's place; `NoLostWakeup` with where the stop has got to.
*   **A2dpSinkProofs.**  `TypeCorrect`, `FramesAreFresh`, `QueueIsBounded`, with any
    number of tasks under pressure, any limits, failing allocations and deinitialisation.
    `IInv` is `TypeOK` and four parts: `Life` (which states of thread, worker and queue
    pointer go together), `Counts` (credits against the length of the list and BTU's
    unfinished enqueue), `Fresh` (every packet in the queue, and the one BTU or the worker
    holds, is no older than the decoder it can meet) and `Bounded` (the limit, minus one
    while BTU is past its check).
    Two theorems rest on `IInv`.  `NothingEverFails` (assuming no deinitialisation, as
    `NothingFails` says) adds `Alive`: `Lasting`, that no script of BTC has a call left that ends
    the thread and none is on its way to it, and `Reached`, that who has seen the queue or its event
    finds it.  `StreamIsHeard` adds `PInv`: the scripts of BTC are followed by state
    (`ScriptOK`); `Stops` and `Starts` put the stop of the thread, and its INIT, in order with
    the stream, so that no stream starts before the INIT unless a message was lost; `Setup` and
    `Latest` follow the last configuration through `ctrl` and the reset to the decoder;
    `Heard` says that a flush after the start belongs to a task under pressure that is still inside
    its call.
*   **HciLayerProofs.**  `TypeCorrect`, with the buffers given back to the controller counted, and what HCI holds at
    each place (`Base`).  `TimerCovers` needs that an armed alarm is known to be set also inside
    a callback.  `OneHolder`: the holders of a command are counted over two queues, the
    list, HCI and BTU, with `Times`.  `NeverOverruns`: with one slot there is one
    permission to send (`OneCommand`), as HCI's credit, a command held, an event on its way, or
    withheld by the controller.  `AnswersAreMatched` and `StatusIsOwn` assume
    `NoAnswerLost`: the transport drops what it has no memory for, and a dropped answer is one its
    command waits for in vain.  `StatusIsOwn` adds where the command of the waiting caller is, and that its answer
    is the first to reach BTU (`OwnStatus`).
*   **CodecNegotiationProofs.**  `DecoderMatches`.  The property is about the last message
    handled, the invariant `Settled` about those that wait: one question at a time (`OneQuestion`), one
    configuration of the peer and no answer before it (`OneConfig`), and, past the indication, no answer left
    that could configure the decoder anew (`Configured`).
*   **CodecSearchProofs.**  `WantedOpened`, on top of it.  The call-out has counts and
    entries but no index, the search an index but no counts: `Progress` says the counts are
    those of the list before the index, `Taken` that the SEP chosen is the one the whole list calls for, `Ended`
    that a list without a candidate calls for none.
*   **BtcAvProofs.**  `PeerIsShown`, for any devices and whatever BTA, the peers and the
    timers do.  Only `BtcStep` writes `btc`, so it is enough to follow each handler,
    given any message.  The inductive invariant `BtcInv` adds to `ShownIsPeer` that `sm` is one of
    its states and that IDLE has no peer: a connection is then taken up by a BTC task
    that shows none.

    `TypeCorrect` and `OpenIsKnown` are about both tasks and their queues, with any number of
    devices, calls and actions of the peers.  `StreamIsKnown` speaks of the moments without
    messages; `TasksInv` says what holds between them:
    *   `DataInv`: the types, with a device in every message whose handler reads one, and
        what BTA relies on in AVDTP: a channel that is down has no command, an OPEN command that waits
        is the endpoint's own, a stream that is opening has a peer.
    *   `Knows`: while the stream is open, an OPEN event is under way to BTC with no CLOSE
        event after it, or BTC is connected and no CLOSE is under way, or the profile is gone.
    *   `Deregisters`, `Registers`: after the deinitialisation the stream is gone or the message that ends it is
        under way, and a registration could bring it back only as the first message there is.

    `BtaAvProofs` follows every operator of `BtaAv`: those of AVDTP leave the stream alone
    (`Below`), an action of the stream's table keeps the state and adds no CLOSE (`Stay`), or
    moves it (`Moved`), and only `bta_av_str_opened` opens it, after which OPEN is the last word to
    BTC (`HandleSteps`).  On BTC's side `Serves` says that OPEN makes any state connected, and that
    nothing but CLOSE or a deinitialisation ends it.

    `OpenIsShown` is `StreamIsShown` with one device, any calls and any actions.  `ShownInv` adds that the
    device of a connection BTC holds is shown, and that the OPEN events under way name a device.  They do
    if an open stream has a `peer_addr` (`OpenIsPeered`, any devices).  Its invariant `Peered`: a stream in OPEN has one, and one in
    INCOMING has one or its CONFIG_IND waits in BTU's queue with no OPEN_OK before it (`Awaited`), because AVDTP's
    callback turns the stream INCOMING before BTA has saved the address (`PeerConfigures`).

    Both assume `InOrder`: no SETCONFIG turns a stream INCOMING while the OPEN_OK of an earlier one waits.  The model,
    where the peer acts while messages wait, allows it: then that OPEN_OK meets the stream configured anew, and OPEN
    is reported of no device (the counterexamples we met have seven or more actions of the peer; the run has fewer).  In the code the
    BTU thread has one work queue for packets and messages (`btu_init.c:186`, `btu_task.c:219`), and OPEN_OK is posted while
    the media channel's packet is handled.  A SETCONFIG handled before that message was in the queue by then, sent
    before the peer had any answer to the CLOSE or ABORT that ends the earlier stream.

TLC checked each inductive invariant on small instances before it was proved.
Of the constants the theorems about BtcAv assume that `None` is no device and no command of AVDTP.

Only model-checked: all liveness (out of the prover's reach), and `ImplementsWorkThread` beyond its safety part.
Every invariant, action property and safety refinement of a passing run is a theorem, `StreamIsShown` under the
hypothesis `InOrder`.  `TypeOK` of `BtcAv` and of `HciLayer` are theorems and in no run.


## 9. Plan

1.  `InOrder` as a theorem: packets in the queue of BTU with the messages, and a peer that waits for the answer
    to a command.
2.  A composition of `A2dpSink` with `BtcAv`, which takes its `Handler` from it, and of
    `BtcAv` with `CodecNegotiation`, which takes the place of `Discovered`; an abstract
    connection (closed, open, streaming) as reported to the application.
3.  **PacketFragmenter** (`packet_fragmenter.c`): reassembly per handle as a refinement of
    "a packet is delivered whole or not at all", 16-bit offsets (`:244`), partly sent packets.
4.  **OsiAlarm** (`alarm.c`): the callback that outlives its alarm, for alarms other than HCI's.
5.  **RingBuffer** (`components/esp_ringbuf/ringbuf.c`): no-split and byte buffers,
    refinement of a bounded FIFO, with items acquired and returned out of order.


## 10. Not modelled

*   The external-codec variant (`btc_a2dp_sink_ext_coedc.c`) and builds with
    `A2D_DYNAMIC_MEMORY`: other configurations of the same code.
*   A startup of the sink that fails: it leaves everything as it was, and takes no step.
*   What decoders compute, the samples, the bytes of codec capabilities: data.
*   In `A2dpSink`, what the AV state machine does besides its calls of the sink: `BtcAv` has it.
*   An application that starts the profile again while BTA is still closing the stream
    of the last time: `AppInit` waits, and `BtcAv` has one life.
*   The packet fragmenter and the ring buffer: planned above; start and shutdown of the
    HCI layer, and advertising reports.
*   The A2DP source, BLE, and everything outside the Bluetooth host: Espressif's code,
    unchanged, of which the fork's own logic is independent.
