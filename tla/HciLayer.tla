------------------------------ MODULE HciLayer ------------------------------
(***************************************************************************)
(* host/bluedroid/hci/hci_layer.c and hci_hal_h4.c, with what they rest on:*)
(* the alarm of common/osi/alarm.c, the synchronous commands of            *)
(* stack/btu/btu_hcif.c and the futures of common/osi/future.c.            *)
(*                                                                         *)
(* Actors: the controller (and the callbacks it makes), the HCI host task, *)
(* which both transmits and receives, the BTU task, which sends commands   *)
(* and waits for some of them, and BTC, which runs the callback of the     *)
(* command timer.  HCI, BTU and BTC share a core, and HCI has the highest  *)
(* priority of the three: the others run only when it is blocked           *)
(* (HciRests).  The controller meets HCI in rx_q and in the events alone,  *)
(* so that what HCI does between two accesses to those is one step.  The   *)
(* timer is of 8 s: it fires between two activations of HCI.               *)
(*                                                                         *)
(* Events of the OSI thread are queued at most once and are handled after  *)
(* every post, as OsiThread shows: downstream and upstream are their       *)
(* is_queued.  Advertising reports and ISO packets are left out.           *)
(***************************************************************************)
EXTENDS Naturals, Sequences, FiniteSets

CONSTANTS
    Cmds,          \* command buffers that may be allocated
    Opcode,        \* Opcode[c]: the opcode, by which answers are matched
    Kind,          \* Kind[o]: who waits for the answer (CmdKinds)
    None,          \* no command, no opcode
    Ack,           \* Host Number of Completed Packets, sent for ACL data (NOACK)
    SlotChoices,   \* how many commands a controller may have room for
    HostBuffers,   \* L2CAP_HOST_FC_ACL_BUFS
    BtuQueueLen,   \* places in BTU's work queue (100 in the code)
    MaxEvents,     \* bound: ACL packets and other events that wait to be handled
    MaxPackets,    \* bound: packets BTU has handed to transmit_downward
    MaxAlarms,     \* bound: messages of the alarm that wait for BTC
    MayDrop        \* what host_recv_pkt_cb drops for want of memory

CmdKinds == {"async", "sync", "future"}
EventTypes == {"complete", "status", "acl", "event"}

Opcodes == {Opcode[c] : c \in Cmds}

\* An opcode is always sent by the same function, and so in the same way.
ASSUME CmdsAssumption ==
    /\ IsFiniteSet(Cmds)
    /\ Kind \in [Opcodes -> CmdKinds]
    /\ None \notin Cmds \cup Opcodes /\ Ack \notin Cmds \cup {None}
ASSUME BoundsAssumption ==
    /\ SlotChoices \subseteq Nat \ {0}
    /\ HostBuffers \in Nat /\ BtuQueueLen \in Nat \ {0}
    /\ MaxEvents \in Nat /\ MaxPackets \in Nat /\ MaxAlarms \in Nat
    /\ MayDrop \subseteq EventTypes

VARIABLES
    command_queue,   \* hci_host_env.command_queue
    packet_queue,    \* length of hci_host_env.packet_queue
    command_credits,
    pending,         \* commands_pending_response
    downstream,      \* is downstream_data_ready queued?
    upstream,        \* is upstream_data_ready queued?
    rx_q,            \* hci_hal_env.rx_q
    hci,             \* the HCI task: where it is, pkts_to_process, the packet in hand
    btuq,            \* BTU's work queue
    btu,             \* BTU: where it is, and the command it waits for
    sync,            \* ble_sync_info: sync_sem, opcode, and whose status it holds
    timer,           \* timer_is_set; is the alarm armed; its messages to BTC
    allocated,       \* the command buffers in use
    ctl              \* the controller: slots, commands held, buffers, room

vars == << command_queue, packet_queue, command_credits, pending, downstream,
           upstream, rx_q, hci, btuq, btu, sync, timer, allocated, ctl >>

sending == << command_queue, packet_queue, command_credits >>
receiving == << rx_q, upstream >>
above == << btuq, btu, sync >>

Elements(s) == {s[i] : i \in DOMAIN s}
Remove(s, i) == SubSeq(s, 1, i - 1) \o SubSeq(s, i + 1, Len(s))
CountType(s, type) == Cardinality({i \in DOMAIN s : s[i].type = type})

Event(type, o, ok, credits) == [type |-> type, opcode |-> o, ok |-> ok, credits |-> credits]
Plain(type) == Event(type, None, TRUE, 0)

\* A task of lower priority runs only if HCI has nothing to do, or waits for
\* room in BTU's queue.
HciRests == \/ hci.at = "idle" /\ ~downstream /\ ~upstream
            \/ hci.at = "post" /\ Len(btuq) = BtuQueueLen

-----------------------------------------------------------------------------
(* Mutants: what some definitions below would be with a plausible bug.  No *)
(* behaviour of Spec uses them; each breaks a property in their place.     *)

\* The credits are not looked at.
CommandReadyAlways == command_queue # << >>

\* BTU does not free the command whose status it has handled.
HandleForgets ==
    /\ HciRests
    /\ btu.at = "idle"
    /\ btuq # << >>
    /\ btuq' = Tail(btuq)
    /\ UNCHANGED << sending, pending, downstream, receiving, hci, btu, sync, timer,
                    allocated, ctl >>

\* An answer is taken to be that of the oldest command.
WaitingFirst(o) == IF pending = << >> THEN 0 ELSE 1

\* sync_sem is given without a look at the opcode; for any opcode while someone
\* waits; only for Command Complete.
ReleasesAlways(e) == e.type = "complete" \/ ~e.ok
ReleasesAnyOpcode(e) == ReleasesAlways(e) /\ sync.opcode # None
ReleasesComplete(e) ==
    e.type = "complete" /\ sync.opcode # None /\ sync.opcode = e.opcode

\* The timer is left as it is; the event is not posted.
InterceptedWithoutTimer(credits) ==
    /\ UNCHANGED timer
    /\ downstream' = (downstream \/ (credits > 0 /\ command_queue # << >>))
InterceptedSilently(credits) ==
    /\ timer' = [timer EXCEPT !.set = pending' # << >>,
                             !.armed = IF pending' # << >> THEN TRUE ELSE @ /\ ~timer.set]
    /\ UNCHANGED downstream

\* ACL data is not acknowledged.
ReceiveDataUnacknowledged ==
    /\ hci.at = "up" /\ hci.n > 0
    /\ Head(rx_q).type \in {"acl", "event"}
    /\ rx_q' = Tail(rx_q)
    /\ hci' = [at |-> "post", n |-> hci.n - 1, packet |-> Head(rx_q), entry |-> None]
    /\ UNCHANGED << sending, downstream, pending, upstream, above, timer, allocated, ctl >>

\* No event is posted when the controller has room again.
AvailableSilently ==
    /\ ~ctl.ready
    /\ ctl' = [ctl EXCEPT !.ready = TRUE]
    /\ UNCHANGED << sending, pending, downstream, receiving, hci, above, timer, allocated >>

-----------------------------------------------------------------------------

\* The entry get_waiting_command finds: the first with the opcode, 0 if none.
Matches(o) == {i \in DOMAIN pending : Opcode[pending[i]] = o}
Waiting(o) == IF Matches(o) = {} THEN 0
              ELSE CHOOSE i \in Matches(o) : \A j \in Matches(o) : i <= j

Init == /\ command_queue = << >> /\ packet_queue = 0
        /\ command_credits = 1
        /\ pending = << >>
        /\ downstream = FALSE /\ upstream = FALSE
        /\ rx_q = << >>
        /\ hci = [at |-> "idle", n |-> 0, packet |-> Plain("event"), entry |-> None]
        /\ btuq = << >>
        /\ btu = [at |-> "idle", cmd |-> None]
        /\ sync = [sem |-> FALSE, opcode |-> None, status |-> None]
        /\ timer = [set |-> FALSE, armed |-> FALSE, msgs |-> 0]
        /\ allocated = {}
        /\ \E s \in SlotChoices :
              ctl = [slots |-> s, held |-> [o \in Opcodes |-> 0], paused |-> FALSE,
                     buffers |-> HostBuffers, ready |-> TRUE]

-----------------------------------------------------------------------------
(* BTU *)

\* transmit_command, and transmit_command_futured: the command is queued and
\* the event posted.  BTU then goes on, or waits for sync_sem or the future.
\* (Cmds bounds the commands whose answers BTU has not handled yet.)
Send(c) ==
    /\ HciRests
    /\ btu.at = "idle"
    /\ c \notin allocated \cup {btuq[i].cmd : i \in DOMAIN btuq}
    /\ allocated' = allocated \cup {c}
    /\ command_queue' = Append(command_queue, c)
    /\ downstream' = TRUE
    /\ btu' = CASE Kind[Opcode[c]] = "async" -> btu
                [] Kind[Opcode[c]] = "sync" -> [at |-> "wait", cmd |-> c]
                [] Kind[Opcode[c]] = "future" -> [at |-> "await", cmd |-> c]
    /\ sync' = IF Kind[Opcode[c]] = "sync" THEN [sync EXCEPT !.opcode = Opcode[c]] ELSE sync
    /\ UNCHANGED << packet_queue, command_credits, pending, receiving, hci, btuq,
                    timer, ctl >>

\* transmit_downward
SendPacket ==
    /\ HciRests
    /\ btu.at = "idle"
    /\ packet_queue < MaxPackets
    /\ packet_queue' = packet_queue + 1
    /\ downstream' = TRUE
    /\ UNCHANGED << command_queue, command_credits, pending, receiving, hci, above,
                    timer, allocated, ctl >>

\* The end of osi_sem_take(&sync_info->sync_sem) ...
SyncTake ==
    /\ HciRests
    /\ btu.at = "wait" /\ sync.sem
    /\ sync' = [sync EXCEPT !.sem = FALSE]
    /\ btu' = [btu EXCEPT !.at = "read"]
    /\ UNCHANGED << sending, pending, downstream, receiving, hci, btuq, timer,
                    allocated, ctl >>

\* ... and btsnd_hcic_ble_get_status.
SyncRead ==
    /\ HciRests
    /\ btu.at = "read"
    /\ btu' = [at |-> "idle", cmd |-> None]
    /\ sync' = [sync EXCEPT !.status = None]
    /\ UNCHANGED << sending, pending, downstream, receiving, hci, btuq, timer,
                    allocated, ctl >>

\* A message of HCI.  That of a command status frees the command.
Handle ==
    /\ HciRests
    /\ btu.at = "idle"
    /\ btuq # << >>
    /\ btuq' = Tail(btuq)
    /\ allocated' = IF Head(btuq).type = "status" THEN allocated \ {Head(btuq).cmd}
                    ELSE allocated
    /\ UNCHANGED << sending, pending, downstream, receiving, hci, btu, sync, timer,
                    ctl >>

Btu == (\E c \in Cmds : Send(c)) \/ SendPacket \/ SyncTake \/ SyncRead \/ Handle

-----------------------------------------------------------------------------
(* The HCI task *)

\* restart_command_waiting_response_timer, with p the commands still pending.
RestartTimer(p) ==
    timer' = [timer EXCEPT !.set = p # << >>,
                           !.armed = IF p # << >> THEN TRUE ELSE @ /\ ~timer.set]

\* osi_thread_run takes the event of the first queue that has one; the handler
\* clears is_queued before it works.
DownBegin ==
    /\ hci.at = "idle"
    /\ downstream
    /\ downstream' = FALSE
    /\ hci' = [hci EXCEPT !.at = "down"]
    /\ UNCHANGED << sending, pending, receiving, above, timer, allocated, ctl >>

\* hci_downstream_data_handler: a command goes before a packet.  After a
\* transmission the controller may have no more room.
MaySend == hci.at = "down" /\ ctl.ready
CommandReady == command_queue # << >> /\ command_credits > 0

\* event_command_ready
SendCommand ==
    /\ MaySend /\ CommandReady
    /\ Head(command_queue) # Ack
    /\ command_queue' = Tail(command_queue)
    /\ command_credits' = command_credits - 1
    /\ pending' = Append(pending, Head(command_queue))
    /\ RestartTimer(pending')
    /\ \E ready \in BOOLEAN :
          ctl' = [ctl EXCEPT !.held[Opcode[Head(command_queue)]] = @ + 1, !.ready = ready]
    /\ UNCHANGED << packet_queue, downstream, receiving, hci, above, allocated >>

\* A command that is not acknowledged takes no credit, and yet waits for one.
SendAck ==
    /\ MaySend /\ CommandReady
    /\ Head(command_queue) = Ack
    /\ command_queue' = Tail(command_queue)
    /\ \E ready \in BOOLEAN : ctl' = [ctl EXCEPT !.buffers = @ + 1, !.ready = ready]
    /\ UNCHANGED << packet_queue, command_credits, pending, downstream, receiving, hci,
                    above, timer, allocated >>

\* event_packet_ready
SendData ==
    /\ MaySend /\ ~CommandReady
    /\ packet_queue > 0
    /\ packet_queue' = packet_queue - 1
    /\ \E ready \in BOOLEAN : ctl' = [ctl EXCEPT !.ready = ready]
    /\ UNCHANGED << command_queue, command_credits, pending, downstream, receiving, hci,
                    above, timer, allocated >>

DownEnd ==
    /\ hci.at = "down"
    /\ \/ ~ctl.ready
       \/ ~CommandReady /\ packet_queue = 0
    /\ hci' = [hci EXCEPT !.at = "idle"]
    /\ UNCHANGED << sending, pending, downstream, receiving, above, timer, allocated, ctl >>

\* hci_upstream_data_handler: as many packets as there are now.
UpBegin ==
    /\ hci.at = "idle"
    /\ ~downstream /\ upstream
    /\ upstream' = FALSE
    /\ hci' = [hci EXCEPT !.at = "up", !.n = Len(rx_q)]
    /\ UNCHANGED << sending, pending, downstream, rx_q, above, timer, allocated, ctl >>

\* An ACL packet is acknowledged to the controller, then passed to BTU; any
\* event but an answer is only passed.
ReceiveData ==
    /\ hci.at = "up" /\ hci.n > 0
    /\ Head(rx_q).type \in {"acl", "event"}
    /\ rx_q' = Tail(rx_q)
    /\ IF Head(rx_q).type = "acl"
       THEN command_queue' = Append(command_queue, Ack) /\ downstream' = TRUE
       ELSE UNCHANGED << command_queue, downstream >>
    /\ hci' = [at |-> "post", n |-> hci.n - 1, packet |-> Head(rx_q), entry |-> None]
    /\ UNCHANGED << packet_queue, command_credits, pending, upstream, above, timer,
                    allocated, ctl >>

\* What an answer leaves to do once its callback has returned: the timer, and
\* the event if credits have come for commands that wait (hci_layer.c:541-548).
Intercepted(credits) ==
    /\ RestartTimer(pending')
    /\ downstream' = (downstream \/ (credits > 0 /\ command_queue # << >>))

\* filter_incoming_event up to the callback of the command, which keeps the
\* status for a synchronous caller and begins to post to BTU.
ReceiveAnswer ==
    /\ hci.at = "up" /\ hci.n > 0
    /\ LET e == Head(rx_q)
           i == Waiting(e.opcode)
       IN  /\ e.type \in {"complete", "status"}
           /\ i # 0 /\ Kind[e.opcode] # "future"
           /\ rx_q' = Tail(rx_q)
           /\ command_credits' = e.credits
           /\ pending' = Remove(pending, i)
           /\ sync' = IF e.type = "complete" \/ ~e.ok
                      THEN [sync EXCEPT !.status = IF btu.at \in {"wait", "read"}
                                                    THEN pending[i] ELSE None]
                      ELSE sync
           /\ hci' = [at |-> "post", n |-> hci.n - 1,
                       packet |-> [e EXCEPT !.credits = 0], entry |-> pending[i]]
    /\ UNCHANGED << command_queue, packet_queue, downstream, upstream, btuq, btu, timer,
                    allocated, ctl >>

\* A command without callbacks: Command Complete readies its future and frees
\* the command.  Command Status frees the command and nothing more.
ReceiveFutureAnswer ==
    /\ hci.at = "up" /\ hci.n > 0
    /\ LET e == Head(rx_q)
           i == Waiting(e.opcode)
       IN  /\ e.type \in {"complete", "status"}
           /\ i # 0 /\ Kind[e.opcode] = "future"
           /\ rx_q' = Tail(rx_q)
           /\ command_credits' = e.credits
           /\ pending' = Remove(pending, i)
           /\ btu' = IF e.type = "complete" THEN [at |-> "idle", cmd |-> None] ELSE btu
           /\ allocated' = allocated \ {pending[i]}
           /\ Intercepted(e.credits)
    /\ hci' = [hci EXCEPT !.n = @ - 1]
    /\ UNCHANGED << command_queue, packet_queue, upstream, btuq, sync, ctl >>

\* An answer that no command waits for still sets the credits.
ReceiveUnmatched ==
    /\ hci.at = "up" /\ hci.n > 0
    /\ Head(rx_q).type \in {"complete", "status"}
    /\ Waiting(Head(rx_q).opcode) = 0
    /\ rx_q' = Tail(rx_q)
    /\ command_credits' = Head(rx_q).credits
    /\ hci' = [hci EXCEPT !.n = @ - 1]
    /\ UNCHANGED pending
    /\ Intercepted(Head(rx_q).credits)
    /\ UNCHANGED << command_queue, packet_queue, upstream, above, allocated, ctl >>

\* Is the synchronous caller released by this answer?
Releases(e) == /\ e.type = "complete" \/ ~e.ok
               /\ sync.opcode # None /\ sync.opcode = e.opcode

\* The packet is in BTU's queue.  For an answer HCI gives sync_sem, restarts the
\* timer, posts the event, and frees a command that is complete; one that has
\* a status is freed by BTU.
Post ==
    /\ hci.at = "post"
    /\ Len(btuq) < BtuQueueLen
    /\ btuq' = Append(btuq, [type |-> hci.packet.type, cmd |-> hci.entry])
    /\ hci' = [hci EXCEPT !.at = "up", !.packet = Plain("event"), !.entry = None]
    /\ UNCHANGED pending
    /\ IF hci.entry = None
       THEN UNCHANGED << sync, timer, downstream, allocated >>
       ELSE /\ sync' = IF Releases(hci.packet)
                       THEN [sync EXCEPT !.sem = TRUE, !.opcode = None] ELSE sync
            /\ Intercepted(command_credits)
            /\ allocated' = IF hci.packet.type = "complete" THEN allocated \ {hci.entry}
                            ELSE allocated
    /\ UNCHANGED << sending, receiving, btu, ctl >>

\* The end of the handler, which posts its event again if more has come.
UpEnd ==
    /\ hci.at = "up" /\ hci.n = 0
    /\ hci' = [hci EXCEPT !.at = "idle"]
    /\ upstream' = (upstream \/ rx_q # << >>)
    /\ UNCHANGED << sending, pending, downstream, rx_q, above, timer, allocated, ctl >>

HciDown == DownBegin \/ SendCommand \/ SendAck \/ SendData \/ DownEnd
HciUp == \/ UpBegin \/ ReceiveData \/ ReceiveAnswer \/ ReceiveFutureAnswer
         \/ ReceiveUnmatched \/ Post \/ UpEnd
Hci == HciDown \/ HciUp

-----------------------------------------------------------------------------
(* The controller *)

\* What BTU is to handle besides answers (a bound of the model: nothing in the
\* code keeps a controller from filling BTU's queue).
Backlog == CountType(rx_q, "acl") + CountType(rx_q, "event")
           + CountType(btuq, "acl") + CountType(btuq, "event")
           + (IF hci.at = "post" /\ hci.entry = None THEN 1 ELSE 0)

\* host_recv_pkt_cb: the packet is put in rx_q and the event posted, unless
\* there is no memory for it even after the A2DP queue has been flushed.
Deliver(e) ==
    \/ /\ e.type \in {"acl", "event"} => Backlog < MaxEvents
       /\ rx_q' = Append(rx_q, e)
       /\ upstream' = TRUE
    \/ e.type \in MayDrop /\ UNCHANGED receiving

\* Which answers a command may get: one with a caller that waits is answered
\* by Command Complete, or refused by Command Status.
MayAnswer(o, type, ok) ==
    \/ type = "complete" /\ ok
    \/ type = "status" /\ Kind[o] = "async" /\ ok
    \/ type = "status" /\ Kind[o] = "sync" /\ ~ok

\* The commands the controller holds, those of an opcode told apart by a number,
\* and how many more it has room for if n of them are still there: none if it
\* has been sent more than it can hold.
Holding == UNION {{o} \X (1..ctl.held[o]) : o \in Opcodes}
Held == Cardinality(Holding)
Room(n) == IF n < ctl.slots THEN ctl.slots - n ELSE 0

\* In any order.  An answer says how many commands there is room for, or that
\* none may be sent for now ...
Answer(o, type, ok) ==
    /\ ctl.held[o] > 0
    /\ MayAnswer(o, type, ok)
    /\ \E paused \in BOOLEAN :
          /\ ctl' = [ctl EXCEPT !.held[o] = @ - 1, !.paused = paused]
          /\ Deliver(Event(type, o, ok, IF paused THEN 0 ELSE Room(Held - 1)))
    /\ UNCHANGED << sending, pending, downstream, hci, above, timer, allocated >>

\* ... and a Command Complete with no opcode follows when they may again.
AnswerNone ==
    /\ ctl.paused
    /\ ctl' = [ctl EXCEPT !.paused = FALSE]
    /\ Deliver(Event("complete", None, TRUE, Room(Held)))
    /\ UNCHANGED << sending, pending, downstream, hci, above, timer, allocated >>

SendAcl ==
    /\ ctl.buffers > 0
    /\ ctl' = [ctl EXCEPT !.buffers = @ - 1]
    /\ Deliver(Plain("acl"))
    /\ UNCHANGED << sending, pending, downstream, hci, above, timer, allocated >>

SendEvent ==
    /\ Deliver(Plain("event"))
    /\ UNCHANGED << sending, pending, downstream, hci, above, timer, allocated, ctl >>

\* host_send_pkt_available_cb
Available ==
    /\ ~ctl.ready
    /\ ctl' = [ctl EXCEPT !.ready = TRUE]
    /\ downstream' = TRUE
    /\ UNCHANGED << sending, pending, receiving, hci, above, timer, allocated >>

Controller == \/ \E o \in Opcodes, type \in {"complete", "status"}, ok \in BOOLEAN :
                    Answer(o, type, ok)
              \/ AnswerNone \/ SendAcl \/ SendEvent \/ Available

-----------------------------------------------------------------------------
(* The command timer *)

\* The alarm fires in the esp_timer task, which sends BTC a message.
AlarmFires ==
    /\ HciRests
    /\ timer.armed
    /\ timer.msgs < MaxAlarms
    /\ timer' = [timer EXCEPT !.armed = FALSE, !.msgs = @ + 1]
    /\ UNCHANGED << sending, pending, downstream, receiving, hci, above, allocated, ctl >>

\* command_timed_out on BTC reports the first command that waits.  Nothing is
\* done about it.
TimedOut ==
    /\ HciRests
    /\ timer.msgs > 0
    /\ timer' = [timer EXCEPT !.msgs = @ - 1]
    /\ UNCHANGED << sending, pending, downstream, receiving, hci, above, allocated, ctl >>

Timer == AlarmFires \/ TimedOut

-----------------------------------------------------------------------------

\* The controller steps while HCI is idle, or has counted the packets of rx_q
\* and not yet handled them all: what it does elsewhere in an activation it may
\* as well do at its end, for HCI looks at rx_q and ctl.ready no more.
Next == \/ Btu
        \/ Hci
        \/ hci.at \in {"idle", "post"} /\ (Controller \/ Timer)

Spec == Init /\ [][Next]_vars

\* The tasks run, and BTU goes on handling its messages (it may be sending
\* meanwhile); the controller answers every command and has room again.
Fairness ==
    /\ WF_vars(Hci)
    /\ WF_vars(SyncTake) /\ WF_vars(SyncRead) /\ SF_vars(Handle)
    /\ \A o \in Opcodes : WF_vars(\E type \in {"complete", "status"}, ok \in BOOLEAN :
                                    Answer(o, type, ok))
    /\ WF_vars(AnswerNone) /\ WF_vars(Available)

FairSpec == Spec /\ Fairness

-----------------------------------------------------------------------------
(* Properties *)

EventRecords == [type : EventTypes, opcode : Opcodes \cup {None}, ok : BOOLEAN, credits : Nat]

TypeOK ==
    /\ command_queue \in Seq(Cmds \cup {Ack})
    /\ packet_queue \in 0..MaxPackets
    /\ command_credits \in Nat
    /\ pending \in Seq(Cmds)
    /\ downstream \in BOOLEAN /\ upstream \in BOOLEAN
    /\ rx_q \in Seq(EventRecords)
    /\ hci \in [at : {"idle", "down", "up", "post"}, n : Nat,
                packet : EventRecords, entry : Cmds \cup {None}]
    /\ btuq \in Seq([type : EventTypes, cmd : Cmds \cup {None}]) /\ Len(btuq) <= BtuQueueLen
    /\ btu \in [at : {"idle", "wait", "await", "read"}, cmd : Cmds \cup {None}]
    /\ sync \in [sem : BOOLEAN, opcode : Opcodes \cup {None},
                 status : Cmds \cup {None}]
    /\ timer \in [set : BOOLEAN, armed : BOOLEAN, msgs : 0..MaxAlarms]
    /\ allocated \subseteq Cmds
    /\ ctl \in [slots : SlotChoices, held : [Opcodes -> Nat], paused : BOOLEAN,
                buffers : 0..HostBuffers, ready : BOOLEAN]

\* How often a command is in the hands of someone who is to free it or pass it
\* on: it waits to be sent, for its answer, for HCI to return from its
\* callback, or for BTU to handle its status.
Holders(c) ==
      Cardinality({i \in DOMAIN command_queue : command_queue[i] = c})
    + Cardinality({i \in DOMAIN pending : pending[i] = c})
    + (IF hci.entry = c THEN 1 ELSE 0)
    + Cardinality({i \in DOMAIN btuq : btuq[i].type = "status" /\ btuq[i].cmd = c})

\* A command has one holder from transmit_command until it is freed, by HCI
\* after Command Complete and by BTU after Command Status: it does not leak and
\* is not freed or answered twice (hci_layer.c:550-565, btu_hcif.c:1964).
EveryCommandHasOneHolder ==
    \A c \in Cmds : Holders(c) = IF c \in allocated THEN 1 ELSE 0

\* Every command that waits for an answer is with the controller or has one on
\* its way, and conversely: answers are matched by their opcode alone, in any
\* order (hci_layer.c:610-631).
AnswersMatch ==
    \A o \in Opcodes :
        ctl.held[o]
          + Cardinality({i \in DOMAIN rx_q : rx_q[i].opcode = o})
        = Cardinality(Matches(o))

\* While commands wait for an answer the alarm is set, or has fired and its
\* message has been or will be handled (hci_layer.c:392-404).
TimerCoversPending ==
    hci.entry = None =>
        /\ timer.set = (pending # << >>)
        /\ timer.armed => timer.set

\* btu_hcif_send_cmd_sync returns the status of its own command.  Every answer
\* overwrites the status, so that this needs a controller with room for one
\* command (btu_hcif.c:804, :1639).
SyncStatusIsOwn ==
    ctl.slots = 1 /\ btu.at = "read" => sync.status = btu.cmd

\* A controller with room for one command never gets two, although the credits
\* are overwritten with numbers it computed earlier (hci_layer.c:476, :510).
NeverOverrunsController == ctl.slots = 1 => Held <= 1

\* osi_alarm_cancel: when it returns, "the callback is not in progress and will
\* not be called if it hasn't already been called" (alarm.h:64-66).  The timer
\* is cancelled and not set again when no command waits any longer.
CancelIsFinal == ~timer.set => timer.msgs = 0

\* Liveness.  A caller that waits for an answer is released.
CallerReleased == btu.at \in {"wait", "await"} ~> btu.at = "idle"

\* A command that was queued is sent: when the credits have run out the handler
\* stops, and an answer has to start it again (hci_layer.c:245, :545).
CommandSent == \A c \in Cmds : c \in Elements(command_queue) ~> c \notin Elements(command_queue)

\* A packet is sent unless commands keep coming, which go first: also one that
\* was queued while the controller had no room (hci_layer.c:250-254).
PacketSent == packet_queue = MaxPackets ~> packet_queue < MaxPackets \/ command_queue # << >>

\* The controller gets its buffers back, although acknowledgements wait for a
\* credit they do not take (hci_layer.c:250, :331).
DataFlows == ctl.buffers = 0 ~> ctl.buffers > 0
=============================================================================
