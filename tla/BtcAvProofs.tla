----------------------------- MODULE BtcAvProofs -----------------------------
(***************************************************************************)
(* Proofs about BtcAv for any set of devices and any bounds.               *)
(*                                                                         *)
(* ShownIsPeer: only BtcStep changes the data of the BTC task, so that it  *)
(* is enough to follow what each handler does with the states reported     *)
(* (shown) and with peer_bda, whatever message it is given.  The inductive *)
(* invariant adds that IDLE has no peer: a connection is then taken up by  *)
(* a BTC task that shows none.                                             *)
(*                                                                         *)
(* TypeOK and StreamIsKnown: both tasks and the queues between them.  An   *)
(* open stream is known to BTC, or the OPEN event that tells of it is      *)
(* under way with no CLOSE after it (Knows); what each handler of the BTU  *)
(* task does to that is in BtaAvProofs.                                    *)
(*                                                                         *)
(* StreamIsShown, with one device: a connection BTC holds is shown (Tells) *)
(* as every open stream has a peer (OpenHasPeer), if no SETCONFIG of the   *)
(* peer overtakes the message that an earlier stream has opened (InOrder). *)
(***************************************************************************)
EXTENDS BtcAv, BtaAvProofs

States == {"none", "IDLE", "OPENING", "OPENED", "STARTED", "CLOSING"}
Shown == {"disconnected", "connecting", "connected", "disconnecting"}

\* The BTC task's data is a record with these fields at least.
Fields == {"sm", "peer", "lsp", "rs", "init", "deinit", "ongoing", "connq", "out", "post", "shown"}
IsBtc(b) == Fields \subseteq DOMAIN b

\* No device is shown, none but peer_bda, and no peer in IDLE besides.
Silent(b) == \A d \in Devices : b.shown[d] = "disconnected"
Typed(b) == IsBtc(b) /\ b.sm \in States /\ b.shown \in [Devices -> Shown]
Told(b) == Typed(b) /\ \A d \in Devices : b.shown[d] # "disconnected" => d = b.peer
BtcInv(b) == Told(b) /\ (b.sm = "IDLE" => b.peer = None)

\* The two differ in flags, messages and the connect queue only.
Same(v, b) == IsBtc(v) /\ v.sm = b.sm /\ v.peer = b.peer /\ v.shown = b.shown

-----------------------------------------------------------------------------
(* Steps of the handlers.                                                  *)

\* What the invariant says depends on the state, the peer and what is shown.
LEMMA SameGood ==
  ASSUME NEW b, NEW v, Same(v, b)
  PROVE  /\ Typed(b) => Typed(v)
         /\ Told(b) => Told(v)
         /\ Silent(b) => Silent(v)
         /\ BtcInv(b) => BtcInv(v)
BY DEF Same, BtcInv, Told, Silent, Typed

\* Messages to BTU and to BTC itself.
LEMMA OutSame == ASSUME NEW b, IsBtc(b), NEW m PROVE Same(Out(b, m), b)
<1>1. ASSUME NEW x PROVE Same([b EXCEPT !.out = x], b)
  BY DEF IsBtc, Fields, Same
<1> QED
  BY <1>1 DEF Out

LEMMA AgainSame == ASSUME NEW b, IsBtc(b), NEW m PROVE Same(Again(b, m), b)
<1>1. ASSUME NEW x PROVE Same([b EXCEPT !.post = x], b)
  BY DEF IsBtc, Fields, Same
<1> QED
  BY <1>1 DEF Again

LEMMA AdvanceSame == ASSUME NEW b, IsBtc(b) PROVE Same(Advance(b), b)
BY AgainSame DEF Advance

\* Show changes what is shown of one device only.
LEMMA ShowTyped ==
  ASSUME NEW b, Typed(b), NEW d, NEW s \in Shown
  PROVE  /\ Typed(Show(b, d, s))
         /\ Show(b, d, s).sm = b.sm /\ Show(b, d, s).peer = b.peer
         /\ \A e \in Devices : Show(b, d, s).shown[e] = IF e = d THEN s ELSE b.shown[e]
<1>1. CASE d = None
  BY <1>1, DevicesAssumption DEF Show
<1>2. CASE d # None
  <2> DEFINE v == [b EXCEPT !.shown[d] = s]
  <2>1. Show(b, d, s) = v
    BY <1>2 DEF Show
  <2>2. v.sm = b.sm /\ v.peer = b.peer /\ v.shown = [b.shown EXCEPT ![d] = s] /\ IsBtc(v)
    BY DEF Typed, IsBtc, Fields
  <2>3. b.shown \in [Devices -> Shown]
    BY DEF Typed
  <2>4. /\ [b.shown EXCEPT ![d] = s] \in [Devices -> Shown]
        /\ \A e \in Devices : [b.shown EXCEPT ![d] = s][e] = IF e = d THEN s ELSE b.shown[e]
    BY <2>3
  <2> HIDE DEF v
  <2> QED
    BY <2>1, <2>2, <2>4 DEF Typed
<1> QED
  BY <1>1, <1>2

\* A state reported of the peer, and the end of a connection reported of any.
LEMMA ShowTold ==
  ASSUME NEW b, Told(b), NEW s \in Shown
  PROVE  /\ Told(Show(b, b.peer, s))
         /\ Silent(Show(b, b.peer, "disconnected"))
         /\ \A d : Told(Show(b, d, "disconnected"))
         /\ Silent(b) => \A d : Silent(Show(b, d, "disconnected"))
<1>1. Typed(b) /\ "disconnected" \in Shown
  BY DEF Told, Shown
<1>2. Told(Show(b, b.peer, s))
  BY <1>1, ShowTyped DEF Told
<1>3. Silent(Show(b, b.peer, "disconnected"))
  <2> SUFFICES ASSUME NEW e \in Devices
               PROVE  Show(b, b.peer, "disconnected").shown[e] = "disconnected"
    BY DEF Silent
  <2>1. Show(b, b.peer, "disconnected").shown[e]
          = IF e = b.peer THEN "disconnected" ELSE b.shown[e]
    BY <1>1, ShowTyped
  <2> QED
    BY <2>1 DEF Told
<1>4. \A d : Told(Show(b, d, "disconnected"))
  <2> TAKE d
  <2> QED
    BY <1>1, ShowTyped DEF Told
<1>5. Silent(b) => \A d : Silent(Show(b, d, "disconnected"))
  <2> SUFFICES ASSUME Silent(b), NEW d PROVE Silent(Show(b, d, "disconnected"))
    OBVIOUS
  <2> QED
    BY <1>1, ShowTyped DEF Silent
<1> QED
  BY <1>2, <1>3, <1>4, <1>5

-----------------------------------------------------------------------------
(* btc_sm_change_state.                                                    *)

\* IDLE is entered when no device is shown.
LEMMA ToIdle ==
  ASSUME NEW b, Typed(b), Silent(b)
  PROVE  BtcInv(To(b, "IDLE")) /\ Silent(To(b, "IDLE"))
<1> DEFINE v == [b EXCEPT !.sm = "IDLE", !.peer = None, !.lsp = FALSE, !.rs = FALSE]
<1>1. To(b, "IDLE") = v
  BY DEF To
<1>2. IsBtc(v) /\ v.sm = "IDLE" /\ v.peer = None /\ v.shown = b.shown
  BY DEF Typed, IsBtc, Fields
<1> QED
  BY <1>1, <1>2 DEF BtcInv, Told, Typed, States, Silent

\* OPENING shows the peer.
LEMMA ToOpening == ASSUME NEW b, Told(b) PROVE BtcInv(To(b, "OPENING"))
<1> DEFINE v == [b EXCEPT !.sm = "OPENING"]
<1>1. To(b, "OPENING") = Show(v, v.peer, "connecting")
  BY DEF To, Told, Typed, IsBtc, Fields
<1>2. IsBtc(v) /\ v.sm = "OPENING" /\ v.peer = b.peer /\ v.shown = b.shown
  BY DEF Told, Typed, IsBtc, Fields
<1>3. Told(v) /\ "connecting" \in Shown
  BY <1>2 DEF Told, Typed, Shown, States
<1>4. Told(Show(v, v.peer, "connecting"))
  BY <1>3, ShowTold
<1>5. Show(v, v.peer, "connecting").sm = "OPENING"
  <2>1. Typed(v)
    BY <1>3 DEF Told
  <2> HIDE DEF v
  <2> QED
    BY <1>2, <1>3, <2>1, ShowTyped
<1> QED
  BY <1>1, <1>4, <1>5 DEF BtcInv

\* The other states show nothing new.
LEMMA ToOther ==
  ASSUME NEW b, Told(b), NEW state \in {"OPENED", "STARTED", "CLOSING"}
  PROVE  BtcInv(To(b, state)) /\ To(b, state).sm = state
<1>1. CASE state = "STARTED"
  <2> DEFINE v == [b EXCEPT !.sm = "STARTED", !.rs = FALSE]
  <2>1. To(b, state) = v
    BY <1>1 DEF To
  <2>2. IsBtc(v) /\ v.sm = "STARTED" /\ v.peer = b.peer /\ v.shown = b.shown
    BY DEF Told, Typed, IsBtc, Fields
  <2> QED
    BY <1>1, <2>1, <2>2 DEF BtcInv, Told, Typed, States
<1>2. CASE state # "STARTED"
  <2> DEFINE v == [b EXCEPT !.sm = state]
  <2>1. To(b, state) = v
    BY <1>2 DEF To
  <2>2. IsBtc(v) /\ v.sm = state /\ v.peer = b.peer /\ v.shown = b.shown
    BY DEF Told, Typed, IsBtc, Fields
  <2> QED
    BY <1>2, <2>1, <2>2 DEF BtcInv, Told, Typed, States
<1> QED
  BY <1>1, <1>2

\* clean_up: nothing is dispatched any more.
LEMMA CleanUpGood == ASSUME NEW b, Told(b) PROVE BtcInv(CleanUp(b))
<1> DEFINE v == Out(Out(b, Msg("DEREG", None, TRUE)), Msg("DISABLE", None, TRUE))
           w == [v EXCEPT !.sm = "none", !.init = FALSE, !.deinit = TRUE, !.ongoing = FALSE]
<1>1. Told(v)
  <2>1. \A x, m : Told(x) => Told(Out(x, m))
    BY OutSame, SameGood DEF Told, Typed
  <2> QED
    BY <2>1
<1>2. IsBtc(w) /\ w.sm = "none" /\ w.peer = v.peer /\ w.shown = v.shown
  BY <1>1 DEF Told, Typed, IsBtc, Fields
<1>3. CleanUp(b) = w
  BY DEF CleanUp
<1> QED
  BY <1>1, <1>2, <1>3 DEF BtcInv, Told, Typed, States

-----------------------------------------------------------------------------
(* The states.                                                             *)

\* A state other than IDLE has nothing more to keep than Told.
LEMMA ToldGood == ASSUME NEW b, Told(b), b.sm # "IDLE" PROVE BtcInv(b)
BY DEF BtcInv

\* IDLE shows no device.
LEMMA IdleSilent == ASSUME NEW b, BtcInv(b), b.sm = "IDLE" PROVE Silent(b)
BY DevicesAssumption DEF BtcInv, Told, Silent

\* Another peer for a BTC task that shows none.
LEMMA NewPeer ==
  ASSUME NEW b, Typed(b), Silent(b), NEW d
  PROVE  Told([b EXCEPT !.peer = d])
<1> DEFINE v == [b EXCEPT !.peer = d]
<1>1. IsBtc(v) /\ v.shown = b.shown
  BY DEF Typed, IsBtc, Fields
<1> QED
  BY <1>1 DEF Told, Typed, Silent

\* The peer's connection is over: back to IDLE.
LEMMA BackToIdle ==
  ASSUME NEW b, Told(b)
  PROVE  BtcInv(To(Show(b, b.peer, "disconnected"), "IDLE"))
<1>1. Silent(Show(b, b.peer, "disconnected")) /\ Typed(Show(b, b.peer, "disconnected"))
  BY ShowTold DEF Told, Shown
<1> QED
  BY <1>1, ToIdle

\* What only adds a message keeps the invariant.
LEMMA AdvanceGood == ASSUME NEW b, BtcInv(b) PROVE BtcInv(Advance(b))
<1>1. IsBtc(b)
  BY DEF BtcInv, Told, Typed
<1> QED
  BY <1>1, AdvanceSame, SameGood

LEMMA OutGood == ASSUME NEW b, BtcInv(b), NEW m PROVE BtcInv(Out(b, m))
<1>1. IsBtc(b)
  BY DEF BtcInv, Told, Typed
<1> QED
  BY <1>1, OutSame, SameGood

LEMMA AgainGood == ASSUME NEW b, BtcInv(b), NEW m PROVE BtcInv(Again(b, m))
<1>1. IsBtc(b)
  BY DEF BtcInv, Told, Typed
<1> QED
  BY <1>1, AgainSame, SameGood

\* A CLOSE event in OPENED or STARTED (btc_av.c).
LEMMA ClosedGood == ASSUME NEW b, Told(b) PROVE BtcInv(Closed(b))
<1> DEFINE v == To(Show(b, b.peer, "disconnected"), "IDLE")
<1>1. BtcInv(v)
  BY BackToIdle
<1>2. BtcInv(CleanUp(v))
  BY <1>1, CleanUpGood DEF BtcInv
<1> QED
  BY <1>1, <1>2 DEF Closed

\* The result of an open, in IDLE or OPENING.
LEMMA OpenedGood == ASSUME NEW b, Told(b), NEW m PROVE BtcInv(Opened(b, m))
<1>1. CASE m.ok
  <2>1. Told(Show(b, b.peer, "connected"))
    BY ShowTold DEF Shown
  <2>2. BtcInv(To(Show(b, b.peer, "connected"), "OPENED"))
    BY <2>1, ToOther
  <2> QED
    BY <1>1, <2>2, AdvanceGood DEF Opened
<1>2. CASE ~m.ok
  <2>1. BtcInv(To(Show(b, b.peer, "disconnected"), "IDLE"))
    BY BackToIdle
  <2> QED
    BY <1>2, <2>1, AdvanceGood DEF Opened
<1> QED
  BY <1>1, <1>2

\* IDLE takes a new peer: it shows none, so none is forgotten.
LEMMA IdleGood == ASSUME NEW b, BtcInv(b), b.sm = "IDLE", NEW m PROVE BtcInv(Idle(b, m))
<1> DEFINE v == [b EXCEPT !.peer = m.dev]
<1>1. Silent(b) /\ Typed(b)
  BY IdleSilent DEF BtcInv, Told
<1>2. Told(v)
  BY <1>1, NewPeer
<1>3. CASE m.ev \in {"PENDING", "CONNECT_REQ"}
  <2>1. IsBtc(v)
    BY <1>2 DEF Told, Typed
  <2>2. Told(Out(v, Msg("API_OPEN", m.dev, TRUE)))
    <3> HIDE DEF v
    <3> QED
      BY <1>2, <2>1, OutSame, SameGood
  <2>3. BtcInv(To(Out(v, Msg("API_OPEN", m.dev, TRUE)), "OPENING"))
    BY <2>2, ToOpening
  <2> QED
    BY <1>3, <2>3 DEF Idle
<1>4. CASE m.ev = "DISCONNECT_REQ"
  <2> DEFINE w == Show(b, m.dev, "disconnected")
  <2>1. Told(w)
    BY ShowTold DEF BtcInv, Shown
  <2>2. w.sm = b.sm /\ w.peer = b.peer
    BY <1>1, ShowTyped DEF Shown
  <2>3. Idle(b, m) = w
    BY <1>4 DEF Idle
  <2> HIDE DEF w
  <2> QED
    BY <2>1, <2>2, <2>3 DEF BtcInv
<1>5. CASE m.ev = "OPEN"
  <2>1. BtcInv(Opened(v, m))
    BY <1>2, OpenedGood
  <2> QED
    BY <1>5, <2>1 DEF Idle
<1>6. CASE m.ev \notin {"PENDING", "CONNECT_REQ", "DISCONNECT_REQ", "OPEN"}
  BY <1>6 DEF Idle
<1> QED
  BY <1>3, <1>4, <1>5, <1>6

\* A connect request for another device is refused and reported.
LEMMA OtherConnectGood ==
  ASSUME NEW b, Told(b), b.sm # "IDLE", NEW m PROVE BtcInv(OtherConnect(b, m))
<1> DEFINE w == Show(b, m.dev, "disconnected")
<1>1. Told(w) /\ w.sm = b.sm
  BY ShowTold, ShowTyped DEF Told, Shown
<1>2. BtcInv(w)
  <2> HIDE DEF w
  <2> QED
    BY <1>1, ToldGood
<1> QED
  BY <1>2, ToldGood, AdvanceGood DEF OtherConnect

\* The handler of OPENING.
LEMMA OpeningGood == ASSUME NEW b, Told(b), b.sm = "OPENING", NEW m PROVE BtcInv(Opening(b, m))
<1>1. BtcInv(b)
  BY ToldGood
<1>2. CASE m.ev = "REJECT"
  BY <1>2, BackToIdle DEF Opening
<1>3. CASE m.ev = "OPEN"
  BY <1>3, OpenedGood DEF Opening
<1>4. CASE m.ev = "CONNECT_REQ"
  <2>1. BtcInv(OtherConnect(b, m))
    BY OtherConnectGood
  <2> QED
    BY <1>4, <2>1 DEF Opening
<1>5. CASE m.ev = "PENDING"
  BY <1>1, <1>5, OutGood DEF Opening
<1>6. CASE m.ev \notin {"REJECT", "OPEN", "CONNECT_REQ", "PENDING"}
  BY <1>1, <1>6 DEF Opening
<1> QED
  BY <1>2, <1>3, <1>4, <1>5, <1>6

\* A disconnection the application asks for shows the peer only.
LEMMA AskCloseTold ==
  ASSUME NEW b, Told(b) PROVE Told(AskClose(b)) /\ AskClose(b).sm = b.sm
<1> DEFINE v == Out(b, Msg("CLOSE", None, TRUE))
<1>1. Told(v) /\ v.sm = b.sm /\ v.peer = b.peer
  BY OutSame, SameGood DEF Told, Typed, Same
<1>2. AskClose(b) = Show(v, v.peer, "disconnecting")
  BY <1>1 DEF AskClose
<1> HIDE DEF v
<1>3. Told(Show(v, v.peer, "disconnecting")) /\ Show(v, v.peer, "disconnecting").sm = v.sm
  BY <1>1, ShowTold, ShowTyped DEF Told, Shown
<1> QED
  BY <1>1, <1>2, <1>3

\* The handler of OPENED.
LEMMA OpenedStateGood ==
  ASSUME NEW b, Told(b), b.sm = "OPENED", NEW m PROVE BtcInv(OpenedState(b, m))
<1>1. BtcInv(b)
  BY ToldGood
<1>2. CASE m.ev = "START_REQ"
  BY <1>1, <1>2, OutGood DEF OpenedState
<1>3. CASE m.ev = "START"
  BY <1>1, <1>3, ToOther DEF OpenedState
<1>4. CASE m.ev = "DISCONNECT_REQ"
  BY <1>4, AskCloseTold, ToldGood DEF OpenedState
<1>5. CASE m.ev = "CLOSE"
  BY <1>5, ClosedGood DEF OpenedState
<1>6. CASE m.ev = "CONNECT_REQ"
  <2>1. BtcInv(OtherConnect(b, m))
    BY OtherConnectGood
  <2> QED
    BY <1>6, <2>1 DEF OpenedState
<1>7. CASE m.ev \notin {"START_REQ", "START", "DISCONNECT_REQ", "CLOSE", "CONNECT_REQ"}
  BY <1>1, <1>7 DEF OpenedState
<1> QED
  BY <1>2, <1>3, <1>4, <1>5, <1>6, <1>7

\* Flags of the stream do not matter to what is shown.
LEMMA FlagsGood ==
  ASSUME NEW b, BtcInv(b), NEW x, NEW y
  PROVE  /\ BtcInv([b EXCEPT !.lsp = x, !.rs = y])
         /\ BtcInv([b EXCEPT !.lsp = x])
         /\ BtcInv([b EXCEPT !.rs = y])
<1>1. /\ Same([b EXCEPT !.lsp = x, !.rs = y], b)
      /\ Same([b EXCEPT !.lsp = x], b)
      /\ Same([b EXCEPT !.rs = y], b)
  BY DEF BtcInv, Told, Typed, Same, IsBtc, Fields
<1> QED
  BY <1>1, SameGood

\* The handler of STARTED.
LEMMA StartedGood ==
  ASSUME NEW b, Told(b), b.sm = "STARTED", NEW m PROVE BtcInv(Started(b, m))
<1>1. BtcInv(b)
  BY ToldGood
<1>2. BtcInv(To(b, "OPENED"))
  BY ToOther
<1>3. CASE m.ev = "SUSPEND_REQ"
  <2>1. BtcInv([b EXCEPT !.lsp = TRUE, !.rs = FALSE])
    BY <1>1, FlagsGood
  <2> QED
    BY <1>3, <2>1, OutGood DEF Started
<1>4. CASE m.ev = "DISCONNECT_REQ"
  <2>1. BtcInv(To(AskClose(b), "CLOSING"))
    BY AskCloseTold, ToOther
  <2> QED
    BY <1>4, <2>1 DEF Started
<1>5. CASE m.ev \in {"SUSPEND", "SUSPEND_REMOTE"}
  <2>1. CASE ~m.ok
    <3>1. BtcInv([b EXCEPT !.lsp = FALSE])
      BY <1>1, FlagsGood
    <3> QED
      BY <1>5, <2>1, <3>1 DEF Started
  <2>2. CASE m.ok
    <3> DEFINE v == To(b, "OPENED")
               w == [v EXCEPT !.rs = @ \/ (m.ev = "SUSPEND_REMOTE" /\ ~b.lsp), !.lsp = FALSE]
    <3>1. Same(w, v)
      <4>1. IsBtc(v)
        BY <1>2 DEF BtcInv, Told, Typed
      <4> HIDE DEF v
      <4> QED
        BY <4>1 DEF Same, IsBtc, Fields
    <3>2. Started(b, m) = w
      BY <1>5, <2>2 DEF Started
    <3> HIDE DEF v, w
    <3>3. BtcInv(v)
      BY <1>2 DEF v
    <3> QED
      BY <3>1, <3>2, <3>3, SameGood
  <2> QED
    BY <2>1, <2>2
<1>6. CASE m.ev = "STOP"
  BY <1>2, <1>6 DEF Started
<1>7. CASE m.ev = "CLOSE"
  BY <1>7, ClosedGood DEF Started
<1>8. CASE m.ev \notin {"SUSPEND_REQ", "DISCONNECT_REQ", "SUSPEND", "SUSPEND_REMOTE", "STOP", "CLOSE"}
  BY <1>1, <1>8 DEF Started
<1> QED
  BY <1>3, <1>4, <1>5, <1>6, <1>7, <1>8

\* The handler of CLOSING.
LEMMA ClosingGood ==
  ASSUME NEW b, Told(b), b.sm = "CLOSING", NEW m PROVE BtcInv(Closing(b, m))
<1>1. BtcInv(b)
  BY ToldGood
<1>2. BtcInv(To(Show(b, b.peer, "disconnected"), "IDLE"))
  BY BackToIdle
<1> QED
  BY <1>1, <1>2 DEF Closing

-----------------------------------------------------------------------------
(* The handler of the BTC task.                                            *)

\* btc_sm_dispatch.
LEMMA DispatchGood ==
  ASSUME NEW b, BtcInv(b), NEW m PROVE BtcInv(Dispatch(b, m))
<1>1. Told(b) /\ b.sm \in States
  BY DEF BtcInv, Told, Typed
<1>2. CASE b.sm = "none"
  BY <1>2 DEF Dispatch
<1>3. CASE b.sm = "IDLE"
  BY <1>3, IdleGood DEF Dispatch
<1>4. CASE b.sm = "OPENING"
  BY <1>1, <1>4, OpeningGood DEF Dispatch
<1>5. CASE b.sm = "OPENED"
  BY <1>1, <1>5, OpenedStateGood DEF Dispatch
<1>6. CASE b.sm = "STARTED"
  BY <1>1, <1>6, StartedGood DEF Dispatch
<1>7. CASE b.sm = "CLOSING"
  BY <1>1, <1>7, ClosingGood DEF Dispatch
<1> QED
  BY <1>1, <1>2, <1>3, <1>4, <1>5, <1>6, <1>7 DEF States

\* btc_queue_connect_next.
LEMMA QueConnectGood == ASSUME NEW b, BtcInv(b), NEW m PROVE BtcInv(QueConnect(b, m))
<1> DEFINE v == [b EXCEPT !.connq = m.dev]
<1>1. Same(v, b)
  BY DEF BtcInv, Told, Typed, Same, IsBtc, Fields
<1>2. BtcInv(v)
  BY <1>1, SameGood
<1>3. BtcInv(Dispatch(v, Msg("CONNECT_REQ", m.dev, TRUE)))
  BY <1>2, DispatchGood
<1> QED
  BY <1>3 DEF QueConnect

\* btc_a2dp_control_media_ctrl only sends and clears a flag.
LEMMA MediaCtrlGood ==
  ASSUME NEW b, BtcInv(b), NEW m, m.ev \in {"CTRL_START", "CTRL_SUSPEND"}
  PROVE  BtcInv(MediaCtrl(b, m))
<1>1. CASE m.ev = "CTRL_START"
  BY <1>1, AgainGood DEF MediaCtrl
<1>2. CASE m.ev = "CTRL_SUSPEND"
  BY <1>2, AgainGood, FlagsGood DEF MediaCtrl
<1> QED
  BY <1>1, <1>2

\* esp_a2d_sink_deinit.
LEMMA DeinitGood == ASSUME NEW b, BtcInv(b) PROVE BtcInv(Deinit(b))
<1> DEFINE v == [b EXCEPT !.ongoing = TRUE]
<1>1. Same(v, b)
  BY DEF BtcInv, Told, Typed, Same, IsBtc, Fields
<1>2. BtcInv(v)
  BY <1>1, SameGood
<1>3. BtcInv(Out(v, Msg("CLOSE", None, TRUE)))
  BY <1>2, OutGood
<1>4. BtcInv(CleanUp(v))
  BY <1>2, CleanUpGood DEF BtcInv
<1> QED
  BY <1>3, <1>4 DEF Deinit

\* Whatever message the BTC task takes.
LEMMA HandleGood == ASSUME NEW b, BtcInv(b), NEW m PROVE BtcInv(BtcHandle(b, m))
<1>1. CASE m.ev = "DEINIT"
  BY <1>1, DeinitGood DEF BtcHandle
<1>2. CASE m.ev = "SINK_CONNECT"
  BY <1>2, AgainGood DEF BtcHandle
<1>3. CASE m.ev = "QUE_CONNECT"
  BY <1>3, QueConnectGood DEF BtcHandle
<1>4. CASE m.ev = "QUE_ADVANCE"
  <2>1. Same([b EXCEPT !.connq = None], b)
    BY DEF BtcInv, Told, Typed, Same, IsBtc, Fields
  <2> QED
    BY <1>4, <2>1, SameGood DEF BtcHandle
<1>5. CASE m.ev \in {"CTRL_START", "CTRL_SUSPEND"}
  <2>1. BtcInv(MediaCtrl(b, m))
    BY <1>5, MediaCtrlGood
  <2> QED
    BY <1>5, <2>1 DEF BtcHandle
<1>6. CASE m.ev \notin {"DEINIT", "SINK_CONNECT", "QUE_CONNECT", "QUE_ADVANCE",
                        "CTRL_START", "CTRL_SUSPEND"}
  <2>1. BtcInv(Dispatch(b, m))
    BY DispatchGood
  <2> QED
    BY <1>6, <2>1 DEF BtcHandle
<1> QED
  BY <1>1, <1>2, <1>3, <1>4, <1>5, <1>6

-----------------------------------------------------------------------------
(* The specification.                                                      *)

\* The state that sink_init leaves.
LEMMA InitGood == Init => BtcInv(btc)
<1> SUFFICES ASSUME Init PROVE BtcInv(btc)
  OBVIOUS
<1>1. Typed(NullBtc) /\ Silent(NullBtc) /\ NullBtc.sm = "none"
  BY DEF Typed, IsBtc, Fields, NullBtc, Silent, States, Shown
<1> DEFINE u == To(NullBtc, "IDLE")
           v == [u EXCEPT !.init = TRUE, !.deinit = FALSE, !.ongoing = FALSE]
           w == Out(v, Msg("REG", None, TRUE))
<1>2. BtcInv(u)
  BY <1>1, ToIdle
<1>3. BtcInv(v)
  <2> HIDE DEF u
  <2>1. Same(v, u)
    BY <1>2 DEF BtcInv, Told, Typed, Same, IsBtc, Fields
  <2> QED
    BY <1>2, <2>1, SameGood
<1>4. BtcInv(w)
  <2> HIDE DEF v
  <2> QED
    BY <1>3, OutGood
<1>5. btc = [w EXCEPT !.out = << >>]
  BY <1>1 DEF Init, SinkInit
<1>6. Same(btc, w)
  <2> HIDE DEF w
  <2> QED
    BY <1>4, <1>5 DEF BtcInv, Told, Typed, Same, IsBtc, Fields
<1> QED
  BY <1>4, <1>6, SameGood

\* Only the BTC task writes its data.
LEMMA OnlyBtcWrites == Next => BtcStep \/ UNCHANGED btc
BY DEF Next, BtuStep, PeerConnects, LinkOpens, LinkLost, LinkCloses, IdleTimeout, SdpDone,
       Discovered, OpenAnswered, MediaOpens, StreamAnswered, StreamCloses, PeerConfigures,
       PeerOpens, PeerStarts, PeerSuspends, PeerCloses, SigTimerFires, AcpTimerFires,
       CloseTimerFires, AppConnects, AppDisconnects, AppStarts, AppSuspends, AppDeinits,
       PeerDoes, StackDoes, Ends, Call

\* Every step keeps the invariant.
LEMMA NextGood == BtcInv(btc) /\ [Next]_vars => BtcInv(btc)'
<1> SUFFICES ASSUME BtcInv(btc), [Next]_vars PROVE BtcInv(btc)'
  OBVIOUS
<1>1. CASE BtcStep
  <2> DEFINE b == BtcHandle(btc, Head(btcq))
  <2>1. BtcInv(b)
    BY HandleGood
  <2>2. btc' = [b EXCEPT !.out = << >>, !.post = << >>]
    BY <1>1 DEF BtcStep
  <2> HIDE DEF b
  <2>3. Same([b EXCEPT !.out = << >>, !.post = << >>], b)
    BY <2>1 DEF BtcInv, Told, Typed, Same, IsBtc, Fields
  <2> QED
    BY <2>1, <2>2, <2>3, SameGood
<1>2. CASE UNCHANGED btc
  BY <1>2
<1> QED
  BY <1>1, <1>2, OnlyBtcWrites DEF vars

\* What the BTC task's handlers keep is true of every reachable state.
THEOREM Invariance == Spec => []BtcInv(btc)
BY InitGood, NextGood, PTL DEF Spec

\* BTC reports a connection of no device but peer_bda: whatever BTA, the peers
\* and the timers do, a device is not forgotten before its end is reported.
THEOREM PeerIsShown == Spec => []ShownIsPeer
<1>1. BtcInv(btc) => ShownIsPeer
  BY DEF BtcInv, Told, ShownIsPeer
<1> QED
  BY <1>1, Invariance, PTL

-----------------------------------------------------------------------------
(* The BTC task.                                                           *)

Conn == {"OPENED", "STARTED", "CLOSING"}

BtcTyped(b) ==
  /\ Typed(b) /\ b.peer \in Peers /\ b.connq \in Peers
  /\ b.out \in Seq(Messages) /\ b.post \in Seq(Messages)
  /\ b.sm = "none" <=> b.deinit

\* A handler only adds to what it sends, no registration and no CLOSE event.
Acts(v, b) ==
  /\ BtcTyped(v)
  /\ NoReg(b.out) => NoReg(v.out)
  /\ HasDereg(b.out) => HasDereg(v.out)
  /\ NoClose(b.post) => NoClose(v.post)
  /\ NoOpen(b.post) => NoOpen(v.post)

\* The same, and the state is the old one.
ActsIn(v, b) == Acts(v, b) /\ v.sm = b.sm

\* Acts is a preorder.
LEMMA ActsRefl == ASSUME NEW b, BtcTyped(b) PROVE ActsIn(b, b)
BY DEF ActsIn, Acts

LEMMA ActsTrans == ASSUME NEW b, NEW v, NEW w, Acts(v, b), Acts(w, v) PROVE Acts(w, b)
BY DEF Acts

\* A state is reported.
LEMMA ShowActs ==
  ASSUME NEW b, BtcTyped(b), NEW d, NEW s \in Shown
  PROVE  ActsIn(Show(b, d, s), b) /\ Show(b, d, s).peer = b.peer
<1>1. CASE d = None
  BY <1>1, ActsRefl DEF Show
<1>2. CASE d # None
  <2> DEFINE v == [b EXCEPT !.shown[d] = s]
  <2>1. Show(b, d, s) = v
    BY <1>2 DEF Show
  <2>2. Typed(Show(b, d, s)) /\ Show(b, d, s).sm = b.sm /\ Show(b, d, s).peer = b.peer
    BY ShowTyped DEF BtcTyped
  <2>3. v.out = b.out /\ v.post = b.post /\ v.connq = b.connq /\ v.deinit = b.deinit
    BY DEF BtcTyped, Typed, IsBtc, Fields
  <2> HIDE DEF v
  <2> QED
    BY <2>1, <2>2, <2>3 DEF ActsIn, Acts, BtcTyped
<1> QED
  BY <1>1, <1>2

\* A message to BTU.
LEMMA OutActs ==
  ASSUME NEW b, BtcTyped(b), NEW m \in Messages, m.ev # "REG"
  PROVE  /\ ActsIn(Out(b, m), b) /\ Out(b, m).peer = b.peer
         /\ m.ev = "DEREG" => HasDereg(Out(b, m).out)
<1> DEFINE v == [b EXCEPT !.out = Append(b.out, m)]
<1>1. Out(b, m) = v
  BY DEF Out
<1>2. /\ v.out = Append(b.out, m) /\ v.post = b.post /\ v.connq = b.connq /\ v.deinit = b.deinit
      /\ v.sm = b.sm /\ v.peer = b.peer /\ v.shown = b.shown /\ IsBtc(v)
  BY DEF BtcTyped, Typed, IsBtc, Fields
<1> HIDE DEF v
<1>3. /\ Append(b.out, m) \in Seq(Messages)
      /\ NoReg(b.out) => NoReg(Append(b.out, m))
      /\ HasDereg(b.out) => HasDereg(Append(b.out, m))
  BY AppendKept DEF BtcTyped
<1>4. m.ev = "DEREG" => HasDereg(Append(b.out, m))
  <2>1. b.out \in Seq(Messages)
    BY DEF BtcTyped
  <2>2. Append(b.out, m)[Len(b.out) + 1] = m /\ Len(b.out) + 1 \in DOMAIN Append(b.out, m)
    BY <2>1
  <2> QED
    BY <2>2 DEF HasDereg
<1> QED
  BY <1>1, <1>2, <1>3, <1>4 DEF ActsIn, Acts, BtcTyped, Typed

\* A message to BTC itself.
LEMMA AgainActs ==
  ASSUME NEW b, BtcTyped(b), NEW m \in Messages, m.ev \notin {"CLOSE", "OPEN"}
  PROVE  ActsIn(Again(b, m), b) /\ Again(b, m).peer = b.peer
<1> DEFINE v == [b EXCEPT !.post = Append(b.post, m)]
<1>1. Again(b, m) = v
  BY DEF Again
<1>2. /\ v.post = Append(b.post, m) /\ v.out = b.out /\ v.connq = b.connq /\ v.deinit = b.deinit
      /\ v.sm = b.sm /\ v.peer = b.peer /\ v.shown = b.shown /\ IsBtc(v)
  BY DEF BtcTyped, Typed, IsBtc, Fields
<1> HIDE DEF v
<1>3. /\ Append(b.post, m) \in Seq(Messages)
      /\ NoClose(b.post) => NoClose(Append(b.post, m))
      /\ NoOpen(b.post) => NoOpen(Append(b.post, m))
  BY DEF BtcTyped, NoClose, NoOpen, IsOpen
<1> QED
  BY <1>1, <1>2, <1>3 DEF ActsIn, Acts, BtcTyped, Typed

\* Flags, the peer and the connect queue.
Sets(v, b) ==
  /\ IsBtc(v) /\ v.sm = b.sm /\ v.shown = b.shown /\ v.deinit = b.deinit
  /\ v.out = b.out /\ v.post = b.post /\ v.peer \in Peers /\ v.connq \in Peers

\* Fields that are only set.
LEMMA SetsActs == ASSUME NEW b, BtcTyped(b), NEW v, Sets(v, b) PROVE ActsIn(v, b)
BY DEF Sets, ActsIn, Acts, BtcTyped, Typed

LEMMA SetFields ==
  ASSUME NEW b, BtcTyped(b), NEW x, NEW y, NEW d \in Peers
  PROVE  /\ Sets([b EXCEPT !.lsp = x], b) /\ Sets([b EXCEPT !.rs = x], b)
         /\ Sets([b EXCEPT !.lsp = x, !.rs = y], b) /\ Sets([b EXCEPT !.rs = x, !.lsp = y], b)
         /\ Sets([b EXCEPT !.ongoing = x], b)
         /\ Sets([b EXCEPT !.connq = d], b) /\ Sets([b EXCEPT !.peer = d], b)
BY DEF BtcTyped, Typed, IsBtc, Fields, Sets

\* btc_sm_change_state.
LEMMA ToActs ==
  ASSUME NEW b, BtcTyped(b), b.sm # "none", NEW state \in States \ {"none"}
  PROVE  Acts(To(b, state), b) /\ To(b, state).sm = state
<1>1. CASE state = "OPENING"
  <2> DEFINE v == [b EXCEPT !.sm = "OPENING"]
  <2>1. To(b, state) = Show(v, b.peer, "connecting")
    BY <1>1 DEF To
  <2>2. /\ v.out = b.out /\ v.post = b.post /\ v.connq = b.connq /\ v.deinit = b.deinit
        /\ v.sm = "OPENING" /\ v.peer = b.peer /\ v.shown = b.shown /\ IsBtc(v)
    BY DEF BtcTyped, Typed, IsBtc, Fields
  <2> HIDE DEF v
  <2>3. Acts(v, b) /\ BtcTyped(v)
    BY <2>2 DEF Acts, BtcTyped, Typed, States
  <2>4. ActsIn(Show(v, b.peer, "connecting"), v)
    BY <2>3, ShowActs DEF Shown
  <2> QED
    BY <1>1, <2>1, <2>2, <2>3, <2>4, ActsTrans DEF ActsIn
<1>2. CASE state = "IDLE"
  <2> DEFINE v == [b EXCEPT !.sm = "IDLE", !.peer = None, !.lsp = FALSE, !.rs = FALSE]
  <2>1. To(b, state) = v
    BY <1>2 DEF To
  <2>2. /\ v.out = b.out /\ v.post = b.post /\ v.connq = b.connq /\ v.deinit = b.deinit
        /\ v.sm = "IDLE" /\ v.peer = None /\ v.shown = b.shown /\ IsBtc(v)
    BY DEF BtcTyped, Typed, IsBtc, Fields
  <2> HIDE DEF v
  <2> QED
    BY <1>2, <2>1, <2>2 DEF Acts, BtcTyped, Typed, States, Peers
<1>3. CASE state \notin {"OPENING", "IDLE"}
  <2>1. /\ To(b, state).out = b.out /\ To(b, state).post = b.post /\ To(b, state).connq = b.connq
        /\ To(b, state).deinit = b.deinit /\ To(b, state).sm = state /\ To(b, state).peer = b.peer
        /\ To(b, state).shown = b.shown /\ IsBtc(To(b, state))
    <3>1. CASE state = "STARTED"
      BY <3>1 DEF To, BtcTyped, Typed, IsBtc, Fields
    <3>2. CASE state # "STARTED"
      <4>1. To(b, state) = [b EXCEPT !.sm = state]
        BY <1>3, <3>2 DEF To
      <4> QED
        BY <4>1 DEF BtcTyped, Typed, IsBtc, Fields
    <3> QED
      BY <3>1, <3>2
  <2> QED
    BY <2>1 DEF Acts, BtcTyped, Typed
<1> QED
  BY <1>1, <1>2, <1>3

\* clean_up deregisters the stream.
LEMMA CleanUpActs ==
  ASSUME NEW b, BtcTyped(b)
  PROVE  Acts(CleanUp(b), b) /\ CleanUp(b).sm = "none" /\ HasDereg(CleanUp(b).out)
<1> DEFINE m == Msg("DEREG", None, TRUE)
           n == Msg("DISABLE", None, TRUE)
           v == Out(b, m)
           w == Out(v, n)
           x == [w EXCEPT !.sm = "none", !.init = FALSE, !.deinit = TRUE, !.ongoing = FALSE]
<1>1. m \in Messages /\ m.ev = "DEREG" /\ n \in Messages /\ n.ev = "DISABLE"
  <2>1. "DEREG" \in AnyDev /\ "DISABLE" \in AnyDev /\ None \in Peers
    BY DEF AnyDev, Peers
  <2> QED
    BY <2>1, AnyMsg
<1>2. CleanUp(b) = x
  BY DEF CleanUp
<1> HIDE DEF m, n
<1>3. Acts(v, b) /\ HasDereg(v.out)
  BY <1>1, OutActs DEF ActsIn
<1> HIDE DEF v
<1>4. Acts(w, v) /\ HasDereg(w.out)
  BY <1>1, <1>3, OutActs DEF ActsIn, Acts
<1> HIDE DEF w
<1>5. /\ x.out = w.out /\ x.post = w.post /\ x.connq = w.connq /\ x.deinit = TRUE
      /\ x.sm = "none" /\ x.peer = w.peer /\ x.shown = w.shown /\ IsBtc(x)
  BY <1>4 DEF Acts, BtcTyped, Typed, IsBtc, Fields
<1> HIDE DEF x
<1>6. Acts(x, w)
  BY <1>4, <1>5 DEF Acts, BtcTyped, Typed, States
<1> QED
  BY <1>2, <1>3, <1>4, <1>5, <1>6, ActsTrans

\* What the connection of the two tasks depends on: a handler of a BTC task
\* that is not gone leaves it in the state s, or gone and deregistered.
EndsDeregistered(v, b) == Acts(v, b) /\ (v.sm = "none" => HasDereg(v.out))

\* CLOSE in OPENED or STARTED.
LEMMA ClosedActs ==
  ASSUME NEW b, BtcTyped(b), b.sm # "none" PROVE EndsDeregistered(Closed(b), b)
<1> DEFINE x == Show(b, b.peer, "disconnected")
           v == To(x, "IDLE")
<1>1. ActsIn(x, b)
  BY ShowActs DEF Shown
<1>2. Closed(b) = IF b.ongoing THEN CleanUp(v) ELSE v
  BY DEF Closed
<1> HIDE DEF x
<1>3. "IDLE" \in States \ {"none"}
  BY DEF States
<1>4. Acts(v, x) /\ v.sm = "IDLE"
  BY <1>1, <1>3, ToActs DEF ActsIn, Acts
<1> HIDE DEF v
<1>5. Acts(CleanUp(v), v) /\ HasDereg(CleanUp(v).out)
  BY <1>4, CleanUpActs DEF Acts
<1> QED
  BY <1>1, <1>2, <1>4, <1>5, ActsTrans DEF EndsDeregistered, ActsIn

\* The connect queue is advanced.
LEMMA AdvanceActs == ASSUME NEW b, BtcTyped(b) PROVE ActsIn(Advance(b), b)
<1>1. "QUE_ADVANCE" \in AnyDev /\ None \in Peers
  BY DEF AnyDev, Peers
<1>2. /\ Msg("QUE_ADVANCE", None, TRUE) \in Messages
      /\ Msg("QUE_ADVANCE", None, TRUE).ev \notin {"CLOSE", "OPEN"}
  BY <1>1, AnyMsg
<1> QED
  BY <1>2, AgainActs DEF Advance

\* OPEN: with success the state is OPENED.
LEMMA OpenedActs ==
  ASSUME NEW b, BtcTyped(b), b.sm # "none", NEW m
  PROVE  LET v == Opened(b, m)
         IN Acts(v, b) /\ v.sm # "none" /\ (m.ok => v.sm = "OPENED")
<1> DEFINE x == Show(b, b.peer, IF m.ok THEN "connected" ELSE "disconnected")
           state == IF m.ok THEN "OPENED" ELSE "IDLE"
           v == To(x, state)
<1>1. ActsIn(x, b)
  BY ShowActs DEF Shown
<1>2. Opened(b, m) = Advance(v)
  BY DEF Opened
<1> HIDE DEF x
<1>3. state \in States \ {"none"} /\ (m.ok => state = "OPENED")
  BY DEF States
<1> HIDE DEF state
<1>4. Acts(v, x) /\ v.sm = state
  BY <1>1, <1>3, ToActs DEF ActsIn, Acts
<1> HIDE DEF v
<1>5. ActsIn(Advance(v), v)
  BY <1>4, AdvanceActs DEF Acts
<1> QED
  BY <1>1, <1>2, <1>3, <1>4, <1>5, ActsTrans DEF ActsIn

\* The handler of IDLE.
LEMMA IdleActs ==
  ASSUME NEW b, BtcTyped(b), b.sm # "none", NEW m \in Messages
  PROVE  LET v == Idle(b, m)
         IN Acts(v, b) /\ v.sm # "none" /\ (m.ev = "OPEN" /\ m.ok => v.sm = "OPENED")
<1> DEFINE x == [b EXCEPT !.peer = m.dev]
<1>1. m.dev \in Peers
  BY DEF Messages
<1>2. ActsIn(x, b)
  BY <1>1, SetFields, SetsActs
<1>3. CASE m.ev \in {"PENDING", "CONNECT_REQ"}
  <2> DEFINE n == Msg("API_OPEN", m.dev, TRUE)
             y == Out(x, n)
             v == To(y, "OPENING")
  <2>1. m.dev \in Devices /\ "API_OPEN" \in Named
    BY <1>3 DEF Messages, Named
  <2>2. n \in Messages /\ n.ev = "API_OPEN"
    BY <2>1, NamedMsg
  <2>3. Idle(b, m) = v
    BY <1>3 DEF Idle
  <2> HIDE DEF x, n
  <2>4. ActsIn(y, x)
    BY <1>2, <2>2, OutActs DEF ActsIn, Acts
  <2> HIDE DEF y
  <2>5. "OPENING" \in States \ {"none"}
    BY DEF States
  <2>6. Acts(v, y) /\ v.sm = "OPENING"
    BY <1>2, <2>4, <2>5, ToActs DEF ActsIn, Acts
  <2> HIDE DEF v
  <2> QED
    BY <1>2, <1>3, <2>3, <2>4, <2>6, ActsTrans DEF ActsIn
<1>4. CASE m.ev = "DISCONNECT_REQ"
  <2>1. Idle(b, m) = Show(b, m.dev, "disconnected")
    BY <1>4 DEF Idle
  <2>2. ActsIn(Show(b, m.dev, "disconnected"), b)
    BY ShowActs DEF Shown
  <2> QED
    BY <1>4, <2>1, <2>2 DEF ActsIn
<1>5. CASE m.ev = "OPEN"
  <2>1. Idle(b, m) = Opened(x, m)
    BY <1>5 DEF Idle
  <2> HIDE DEF x
  <2>2. /\ Acts(Opened(x, m), x) /\ Opened(x, m).sm # "none"
        /\ m.ok => Opened(x, m).sm = "OPENED"
    BY <1>2, OpenedActs DEF ActsIn, Acts
  <2> QED
    BY <1>2, <2>1, <2>2, ActsTrans DEF ActsIn
<1>6. CASE m.ev \notin {"PENDING", "CONNECT_REQ", "DISCONNECT_REQ", "OPEN"}
  <2>1. Idle(b, m) = b
    BY <1>6 DEF Idle
  <2> QED
    BY <1>6, <2>1, ActsRefl DEF ActsIn
<1> QED
  BY <1>3, <1>4, <1>5, <1>6

\* A connect request in OPENING or OPENED.
LEMMA OtherConnectActs ==
  ASSUME NEW b, BtcTyped(b), NEW m PROVE ActsIn(OtherConnect(b, m), b)
<1> DEFINE x == IF m.dev = b.peer THEN b ELSE Show(b, m.dev, "disconnected")
<1>1. ActsIn(x, b)
  BY ShowActs, ActsRefl DEF Shown
<1>2. OtherConnect(b, m) = Advance(x)
  BY DEF OtherConnect
<1> HIDE DEF x
<1>3. ActsIn(Advance(x), x)
  BY <1>1, AdvanceActs DEF ActsIn, Acts
<1> QED
  BY <1>1, <1>2, <1>3, ActsTrans DEF ActsIn

\* The handler of OPENING.
LEMMA OpeningActs ==
  ASSUME NEW b, BtcTyped(b), b.sm = "OPENING", NEW m \in Messages
  PROVE  LET v == Opening(b, m)
         IN Acts(v, b) /\ v.sm # "none" /\ (m.ev = "OPEN" /\ m.ok => v.sm = "OPENED")
<1>1. CASE m.ev = "REJECT"
  <2> DEFINE x == Show(b, b.peer, "disconnected")
  <2>1. ActsIn(x, b)
    BY ShowActs DEF Shown
  <2>2. Opening(b, m) = To(x, "IDLE")
    BY <1>1 DEF Opening
  <2> HIDE DEF x
  <2>3. "IDLE" \in States \ {"none"}
    BY DEF States
  <2>4. Acts(To(x, "IDLE"), x) /\ To(x, "IDLE").sm = "IDLE"
    BY <2>1, <2>3, ToActs DEF ActsIn, Acts
  <2> QED
    BY <1>1, <2>1, <2>2, <2>4, ActsTrans DEF ActsIn
<1>2. CASE m.ev = "OPEN"
  <2>1. Opening(b, m) = Opened(b, m)
    BY <1>2 DEF Opening
  <2> QED
    BY <2>1, OpenedActs
<1>3. CASE m.ev = "CONNECT_REQ"
  <2>1. Opening(b, m) = OtherConnect(b, m)
    BY <1>3 DEF Opening
  <2> QED
    BY <1>3, <2>1, OtherConnectActs DEF ActsIn
<1>4. CASE m.ev = "PENDING"
  <2> DEFINE n == Msg("DISCNT", m.dev, TRUE)
  <2>1. m.dev \in Devices /\ "DISCNT" \in Named
    BY <1>4 DEF Messages, Named
  <2>2. n \in Messages /\ n.ev = "DISCNT"
    BY <2>1, NamedMsg
  <2>3. Opening(b, m) = IF m.dev = b.peer THEN b ELSE Out(b, n)
    BY <1>4 DEF Opening
  <2> HIDE DEF n
  <2> QED
    BY <1>4, <2>2, <2>3, OutActs, ActsRefl DEF ActsIn
<1>5. CASE m.ev \notin {"REJECT", "OPEN", "CONNECT_REQ", "PENDING"}
  <2>1. Opening(b, m) = b
    BY <1>5 DEF Opening
  <2> QED
    BY <1>5, <2>1, ActsRefl DEF ActsIn
<1> QED
  BY <1>1, <1>2, <1>3, <1>4, <1>5

\* A disconnect request.
LEMMA AskCloseActs == ASSUME NEW b, BtcTyped(b) PROVE ActsIn(AskClose(b), b)
<1> DEFINE m == Msg("CLOSE", None, TRUE)
           v == Out(b, m)
<1>1. "CLOSE" \in AnyDev /\ None \in Peers
  BY DEF AnyDev, Peers
<1>2. m \in Messages /\ m.ev = "CLOSE"
  BY <1>1, AnyMsg
<1>3. AskClose(b) = Show(v, b.peer, "disconnecting")
  BY DEF AskClose
<1> HIDE DEF m
<1>4. ActsIn(v, b)
  BY <1>2, OutActs
<1> HIDE DEF v
<1>5. ActsIn(Show(v, b.peer, "disconnecting"), v)
  BY <1>4, ShowActs DEF ActsIn, Acts, Shown
<1> QED
  BY <1>3, <1>4, <1>5, ActsTrans DEF ActsIn

\* OPENED and STARTED are left for IDLE, or by clean_up, at a CLOSE event only.
Leaves(v, b, m) ==
  /\ EndsDeregistered(v, b)
  /\ m.ev # "CLOSE" => v.sm \in Conn

\* The handler of OPENED.
LEMMA OpenedStateActs ==
  ASSUME NEW b, BtcTyped(b), b.sm = "OPENED", NEW m \in Messages
  PROVE  Leaves(OpenedState(b, m), b, m)
<1>0. "OPENED" \in Conn /\ "STARTED" \in Conn /\ "STARTED" \in States \ {"none"} /\ "none" \notin Conn
  BY DEF Conn, States
<1>1. CASE m.ev = "START_REQ"
  <2> DEFINE n == Msg("START", None, TRUE)
  <2>1. "START" \in AnyDev /\ None \in Peers
    BY DEF AnyDev, Peers
  <2>2. n \in Messages /\ n.ev = "START"
    BY <2>1, AnyMsg
  <2>3. OpenedState(b, m) = Out(b, n)
    BY <1>1 DEF OpenedState
  <2> HIDE DEF n
  <2> QED
    BY <1>0, <2>2, <2>3, OutActs DEF ActsIn, Leaves, EndsDeregistered
<1>2. CASE m.ev = "START"
  <2>1. OpenedState(b, m) = IF m.ok THEN To(b, "STARTED") ELSE b
    BY <1>2 DEF OpenedState
  <2> QED
    BY <1>0, <2>1, ToActs, ActsRefl DEF ActsIn, Leaves, EndsDeregistered
<1>3. CASE m.ev = "DISCONNECT_REQ"
  <2>1. OpenedState(b, m) = AskClose(b)
    BY <1>3 DEF OpenedState
  <2> QED
    BY <1>0, <2>1, AskCloseActs DEF ActsIn, Leaves, EndsDeregistered
<1>4. CASE m.ev = "CLOSE"
  <2>1. OpenedState(b, m) = Closed(b)
    BY <1>4 DEF OpenedState
  <2> QED
    BY <1>4, <2>1, ClosedActs DEF Leaves
<1>5. CASE m.ev = "CONNECT_REQ"
  <2>1. OpenedState(b, m) = OtherConnect(b, m)
    BY <1>5 DEF OpenedState
  <2> QED
    BY <1>0, <2>1, OtherConnectActs DEF ActsIn, Leaves, EndsDeregistered
<1>6. CASE m.ev \notin {"START_REQ", "START", "DISCONNECT_REQ", "CLOSE", "CONNECT_REQ"}
  <2>1. OpenedState(b, m) = b
    BY <1>6 DEF OpenedState
  <2> QED
    BY <1>0, <2>1, ActsRefl DEF ActsIn, Leaves, EndsDeregistered
<1> QED
  BY <1>1, <1>2, <1>3, <1>4, <1>5, <1>6

\* The handler of STARTED.
LEMMA StartedActs ==
  ASSUME NEW b, BtcTyped(b), b.sm = "STARTED", NEW m \in Messages
  PROVE  Leaves(Started(b, m), b, m)
<1>0. /\ "OPENED" \in Conn /\ "STARTED" \in Conn /\ "CLOSING" \in Conn /\ "none" \notin Conn
      /\ "OPENED" \in States \ {"none"} /\ "CLOSING" \in States \ {"none"}
  BY DEF Conn, States
<1>1. CASE m.ev = "SUSPEND_REQ"
  <2> DEFINE n == Msg("STOP", None, TRUE)
             x == [b EXCEPT !.lsp = TRUE, !.rs = FALSE]
  <2>1. "STOP" \in AnyDev /\ None \in Peers
    BY DEF AnyDev, Peers
  <2>2. n \in Messages /\ n.ev = "STOP"
    BY <2>1, AnyMsg
  <2>3. Started(b, m) = Out(x, n)
    BY <1>1 DEF Started
  <2>4. ActsIn(x, b)
    BY <2>1, SetFields, SetsActs
  <2> HIDE DEF n, x
  <2>5. ActsIn(Out(x, n), x)
    BY <2>2, <2>4, OutActs DEF ActsIn, Acts
  <2> QED
    BY <1>0, <2>3, <2>4, <2>5, ActsTrans DEF ActsIn, Leaves, EndsDeregistered
<1>2. CASE m.ev = "DISCONNECT_REQ"
  <2>1. Started(b, m) = To(AskClose(b), "CLOSING")
    BY <1>2 DEF Started
  <2>2. ActsIn(AskClose(b), b)
    BY AskCloseActs
  <2>3. Acts(To(AskClose(b), "CLOSING"), AskClose(b)) /\ To(AskClose(b), "CLOSING").sm = "CLOSING"
    BY <1>0, <2>2, ToActs DEF ActsIn, Acts
  <2> QED
    BY <1>0, <2>1, <2>2, <2>3, ActsTrans DEF ActsIn, Leaves, EndsDeregistered
<1>3. CASE m.ev \in {"SUSPEND", "SUSPEND_REMOTE"}
  <2> DEFINE v == To(b, "OPENED")
             y == v.rs \/ (m.ev = "SUSPEND_REMOTE" /\ ~b.lsp)
             w == [v EXCEPT !.rs = y, !.lsp = FALSE]
             x == [b EXCEPT !.lsp = FALSE]
  <2>1. Started(b, m) = IF ~m.ok THEN x ELSE w
    BY <1>3 DEF Started
  <2>2. None \in Peers
    BY DEF Peers
  <2>3. ActsIn(x, b)
    BY <2>2, SetFields, SetsActs
  <2>4. Acts(v, b) /\ v.sm = "OPENED" /\ BtcTyped(v)
    BY <1>0, ToActs DEF Acts
  <2> HIDE DEF v, x, y
  <2>5. ActsIn(w, v)
    BY <2>2, <2>4, SetFields, SetsActs
  <2> HIDE DEF w
  <2> QED
    BY <1>0, <2>1, <2>3, <2>4, <2>5, ActsTrans DEF ActsIn, Leaves, EndsDeregistered
<1>4. CASE m.ev = "STOP"
  <2>1. Started(b, m) = To(b, "OPENED")
    BY <1>4 DEF Started
  <2> QED
    BY <1>0, <2>1, ToActs DEF Leaves, EndsDeregistered
<1>5. CASE m.ev = "CLOSE"
  <2>1. Started(b, m) = Closed(b)
    BY <1>5 DEF Started
  <2> QED
    BY <1>5, <2>1, ClosedActs DEF Leaves
<1>6. CASE m.ev \notin {"SUSPEND_REQ", "DISCONNECT_REQ", "SUSPEND", "SUSPEND_REMOTE", "STOP", "CLOSE"}
  <2>1. Started(b, m) = b
    BY <1>6 DEF Started
  <2> QED
    BY <1>0, <2>1, ActsRefl DEF ActsIn, Leaves, EndsDeregistered
<1> QED
  BY <1>1, <1>2, <1>3, <1>4, <1>5, <1>6

\* The handler of CLOSING.
LEMMA ClosingActs ==
  ASSUME NEW b, BtcTyped(b), b.sm = "CLOSING", NEW m \in Messages
  PROVE  Leaves(Closing(b, m), b, m)
<1>0. "CLOSING" \in Conn /\ "IDLE" \in States \ {"none"} /\ "none" \notin Conn
  BY DEF Conn, States
<1>1. CASE m.ev = "CLOSE"
  <2> DEFINE x == Show(b, b.peer, "disconnected")
  <2>1. ActsIn(x, b)
    BY ShowActs DEF Shown
  <2>2. Closing(b, m) = To(x, "IDLE")
    BY <1>1 DEF Closing
  <2> HIDE DEF x
  <2>3. Acts(To(x, "IDLE"), x) /\ To(x, "IDLE").sm = "IDLE"
    BY <1>0, <2>1, ToActs DEF ActsIn, Acts
  <2> QED
    BY <1>1, <2>1, <2>2, <2>3, ActsTrans DEF ActsIn, Leaves, EndsDeregistered
<1>2. CASE m.ev # "CLOSE"
  <2>1. Closing(b, m) = b
    BY <1>2 DEF Closing
  <2> QED
    BY <1>0, <2>1, ActsRefl DEF ActsIn, Leaves, EndsDeregistered
<1> QED
  BY <1>1, <1>2

\* What the handlers of the BTC task do to the connection of the two tasks: an
\* OPEN event leaves it connected, nothing but CLOSE ends that, and the handle
\* is given up together with the registration.
Serves(v, b, m) ==
  /\ Acts(v, b)
  /\ b.sm = "none" => v.sm = "none"
  /\ b.sm # "none" /\ v.sm = "none" => HasDereg(v.out)
  /\ b.sm # "none" /\ m.ev = "OPEN" /\ m.ok => v.sm \in Conn
  /\ b.sm \in Conn /\ m.ev # "CLOSE" => v.sm \in Conn \cup {"none"}

\* A handler that keeps the state, one that leaves it for CLOSE alone, then all of them.
LEMMA InStateServes ==
  ASSUME NEW b, NEW v, ActsIn(v, b), NEW m, m.ev # "OPEN"
  PROVE  Serves(v, b, m)
BY DEF ActsIn, Serves

LEMMA LeavesServes ==
  ASSUME NEW b, b.sm \in Conn, NEW v, NEW m, Leaves(v, b, m)
  PROVE  Serves(v, b, m)
<1>1. b.sm # "none" /\ (m.ev = "OPEN" => m.ev # "CLOSE")
  BY DEF Conn
<1> QED
  BY <1>1 DEF Leaves, EndsDeregistered, Serves

LEMMA DispatchServes ==
  ASSUME NEW b, BtcTyped(b), NEW m \in Messages
  PROVE  Serves(Dispatch(b, m), b, m)
<1>1. b.sm \in States /\ "OPENED" \in Conn /\ "STARTED" \in Conn /\ "CLOSING" \in Conn
  BY DEF BtcTyped, Typed, Conn
<1>2. CASE b.sm = "none"
  <2>1. Dispatch(b, m) = b /\ b.sm \notin Conn
    BY <1>2 DEF Dispatch, Conn
  <2> QED
    BY <1>2, <2>1, ActsRefl DEF ActsIn, Serves
<1>3. CASE b.sm = "IDLE"
  <2>1. Dispatch(b, m) = Idle(b, m) /\ b.sm \notin Conn
    BY <1>3 DEF Dispatch, Conn
  <2> QED
    BY <1>1, <1>3, <2>1, IdleActs DEF Serves
<1>4. CASE b.sm = "OPENING"
  <2>1. Dispatch(b, m) = Opening(b, m) /\ b.sm \notin Conn
    BY <1>4 DEF Dispatch, Conn
  <2> QED
    BY <1>1, <1>4, <2>1, OpeningActs DEF Serves
<1>5. CASE b.sm = "OPENED"
  <2>1. Dispatch(b, m) = OpenedState(b, m)
    BY <1>5 DEF Dispatch
  <2> QED
    BY <1>1, <1>5, <2>1, OpenedStateActs, LeavesServes
<1>6. CASE b.sm = "STARTED"
  <2>1. Dispatch(b, m) = Started(b, m)
    BY <1>6 DEF Dispatch
  <2> QED
    BY <1>1, <1>6, <2>1, StartedActs, LeavesServes
<1>7. CASE b.sm = "CLOSING"
  <2>1. Dispatch(b, m) = Closing(b, m)
    BY <1>7 DEF Dispatch
  <2> QED
    BY <1>1, <1>7, <2>1, ClosingActs, LeavesServes
<1> QED
  BY <1>1, <1>2, <1>3, <1>4, <1>5, <1>6, <1>7 DEF States

\* btc_queue_connect_next.
LEMMA QueConnectServes ==
  ASSUME NEW b, BtcTyped(b), NEW m \in Messages, m.ev = "QUE_CONNECT"
  PROVE  Serves(QueConnect(b, m), b, m)
<1> DEFINE v == [b EXCEPT !.connq = m.dev]
           n == Msg("CONNECT_REQ", m.dev, TRUE)
<1>1. m.dev \in Devices /\ m.dev \in Peers /\ "CONNECT_REQ" \in Named
  BY DEF Messages, Named, Peers
<1>2. n \in Messages /\ n.ev = "CONNECT_REQ"
  BY <1>1, NamedMsg
<1>3. ActsIn(v, b)
  BY <1>1, SetFields, SetsActs
<1>4. QueConnect(b, m) = IF b.connq # None THEN b ELSE Dispatch(v, n)
  BY DEF QueConnect
<1> HIDE DEF v, n
<1>5. Serves(Dispatch(v, n), v, n)
  BY <1>2, <1>3, DispatchServes DEF ActsIn, Acts
<1>6. Serves(Dispatch(v, n), b, m)
  BY <1>2, <1>3, <1>5, ActsTrans DEF ActsIn, Serves
<1>7. Serves(b, b, m)
  BY ActsRefl, InStateServes
<1> QED
  BY <1>4, <1>6, <1>7

\* Media control.
LEMMA MediaCtrlServes ==
  ASSUME NEW b, BtcTyped(b), NEW m \in Messages, m.ev \in {"CTRL_START", "CTRL_SUSPEND"}
  PROVE  Serves(MediaCtrl(b, m), b, m)
<1> DEFINE n == Msg("START_REQ", None, TRUE)
           o == Msg("SUSPEND_REQ", None, TRUE)
           v == [b EXCEPT !.rs = FALSE]
<1>1. "START_REQ" \in AnyDev /\ "SUSPEND_REQ" \in AnyDev /\ None \in Peers
  BY DEF AnyDev, Peers
<1>2. n \in Messages /\ n.ev \notin {"CLOSE", "OPEN"} /\ o \in Messages /\ o.ev \notin {"CLOSE", "OPEN"}
  BY <1>1, AnyMsg
<1>3. MediaCtrl(b, m) \in {b, v, Again(b, n), Again(b, o)}
  BY DEF MediaCtrl
<1>4. ActsIn(v, b)
  BY <1>1, SetFields, SetsActs
<1> HIDE DEF n, o, v
<1>5. ActsIn(b, b) /\ ActsIn(Again(b, n), b) /\ ActsIn(Again(b, o), b)
  BY <1>2, ActsRefl, AgainActs
<1>6. ActsIn(MediaCtrl(b, m), b)
  BY <1>3, <1>4, <1>5
<1> QED
  BY <1>6, InStateServes

\* esp_a2d_sink_deinit.
LEMMA DeinitServes ==
  ASSUME NEW b, BtcTyped(b), NEW m, m.ev = "DEINIT"
  PROVE  Serves(Deinit(b), b, m)
<1> DEFINE v == [b EXCEPT !.ongoing = TRUE]
           n == Msg("CLOSE", None, TRUE)
<1>1. "CLOSE" \in AnyDev /\ None \in Peers
  BY DEF AnyDev, Peers
<1>2. n \in Messages /\ n.ev # "REG"
  BY <1>1, AnyMsg
<1>3. ActsIn(v, b)
  BY <1>1, SetFields, SetsActs
<1>4. Deinit(b) = IF b.sm \in {"OPENED", "STARTED"} THEN Out(v, n) ELSE CleanUp(v)
  BY DEF Deinit
<1> HIDE DEF v, n
<1>5. ActsIn(Out(v, n), v)
  BY <1>2, <1>3, OutActs DEF ActsIn, Acts
<1>6. ActsIn(Out(v, n), b)
  BY <1>3, <1>5, ActsTrans DEF ActsIn
<1>7. Acts(CleanUp(v), b) /\ CleanUp(v).sm = "none" /\ HasDereg(CleanUp(v).out)
  BY <1>3, CleanUpActs, ActsTrans DEF ActsIn, Acts
<1>8. Serves(Out(v, n), b, m)
  BY <1>6, InStateServes
<1>9. Serves(CleanUp(v), b, m)
  BY <1>7 DEF Serves
<1> QED
  BY <1>4, <1>8, <1>9

\* Whatever message BTC takes.
LEMMA BtcHandleServes ==
  ASSUME NEW b, BtcTyped(b), NEW m \in Messages
  PROVE  Serves(BtcHandle(b, m), b, m)
<1>1. CASE m.ev = "DEINIT"
  BY <1>1, DeinitServes DEF BtcHandle
<1>2. CASE m.ev = "SINK_CONNECT"
  <2> DEFINE n == Msg("QUE_CONNECT", m.dev, TRUE)
  <2>1. m.dev \in Devices /\ "QUE_CONNECT" \in Named
    BY <1>2 DEF Messages, Named
  <2>2. n \in Messages /\ n.ev \notin {"CLOSE", "OPEN"}
    BY <2>1, NamedMsg
  <2>3. BtcHandle(b, m) = Again(b, n)
    BY <1>2 DEF BtcHandle
  <2> HIDE DEF n
  <2>4. ActsIn(BtcHandle(b, m), b)
    BY <2>2, <2>3, AgainActs
  <2> QED
    BY <1>2, <2>4, InStateServes
<1>3. CASE m.ev = "QUE_CONNECT"
  BY <1>3, QueConnectServes DEF BtcHandle
<1>4. CASE m.ev = "QUE_ADVANCE"
  <2>1. None \in Peers
    BY DEF Peers
  <2>2. ActsIn([b EXCEPT !.connq = None], b)
    BY <2>1, SetFields, SetsActs
  <2>3. BtcHandle(b, m) = [b EXCEPT !.connq = None]
    BY <1>4 DEF BtcHandle
  <2> QED
    BY <1>4, <2>2, <2>3, InStateServes
<1>5. CASE m.ev \in {"CTRL_START", "CTRL_SUSPEND"}
  <2>1. BtcHandle(b, m) = MediaCtrl(b, m)
    BY <1>5 DEF BtcHandle
  <2> QED
    BY <1>5, <2>1, MediaCtrlServes
<1>6. CASE m.ev \notin {"DEINIT", "SINK_CONNECT", "QUE_CONNECT", "QUE_ADVANCE",
                        "CTRL_START", "CTRL_SUSPEND"}
  <2>1. BtcHandle(b, m) = Dispatch(b, m)
    BY <1>6 DEF BtcHandle
  <2> QED
    BY <2>1, DispatchServes
<1> QED
  BY <1>1, <1>2, <1>3, <1>4, <1>5, <1>6

-----------------------------------------------------------------------------
(* The queues.                                                             *)

\* What joining two queues keeps.
LEMMA ConcatParts ==
  ASSUME NEW s \in Seq(Messages), NEW t \in Seq(Messages)
  PROVE  /\ s \o t \in Seq(Messages)
         /\ NoReg(s) /\ NoReg(t) => NoReg(s \o t)
         /\ HasDereg(s) \/ HasDereg(t) => HasDereg(s \o t)
         /\ NoClose(s) /\ NoClose(t) => NoClose(s \o t)
         /\ Opens(t) => Opens(s \o t)
         /\ Opens(s) /\ NoClose(t) => Opens(s \o t)
<1> DEFINE r == s \o t
<1>1. /\ r \in Seq(Messages) /\ DOMAIN r = 1..(Len(s) + Len(t))
      /\ DOMAIN s = 1..Len(s) /\ DOMAIN t = 1..Len(t) /\ Len(s) \in Nat /\ Len(t) \in Nat
      /\ \A i \in 1..Len(s) : r[i] = s[i]
  OBVIOUS
<1>2. \A i \in 1..Len(t) : r[Len(s) + i] = t[i]
  OBVIOUS
<1> HIDE DEF r
<1>3. \A i \in DOMAIN r : \/ i \in DOMAIN s /\ r[i] = s[i]
                          \/ i - Len(s) \in DOMAIN t /\ r[i] = t[i - Len(s)]
  <2> TAKE i \in DOMAIN r
  <2>1. CASE i <= Len(s)
    BY <1>1, <2>1
  <2>2. CASE i > Len(s)
    <3>1. i - Len(s) \in 1..Len(t) /\ Len(s) + (i - Len(s)) = i
      BY <1>1, <2>2
    <3> QED
      BY <1>1, <1>2, <3>1
  <2> QED
    BY <1>1, <2>1, <2>2
<1>4. (NoReg(s) /\ NoReg(t) => NoReg(r)) /\ (NoClose(s) /\ NoClose(t) => NoClose(r))
  BY <1>3 DEF NoReg, NoClose
<1>5. \A i \in DOMAIN s : i \in DOMAIN r /\ r[i] = s[i]
  BY <1>1
<1>6. \A i \in DOMAIN t : Len(s) + i \in DOMAIN r /\ r[Len(s) + i] = t[i]
  BY <1>1, <1>2
<1>7. HasDereg(s) \/ HasDereg(t) => HasDereg(r)
  BY <1>5, <1>6 DEF HasDereg
<1>8. ASSUME Opens(t) PROVE Opens(r)
  <2>1. PICK i \in DOMAIN t : t[i].ev = "OPEN" /\ t[i].ok /\ \A j \in DOMAIN t : j > i => t[j].ev # "CLOSE"
    BY <1>8 DEF Opens
  <2>2. \A j \in DOMAIN r : j > Len(s) + i => r[j].ev # "CLOSE"
    <3> SUFFICES ASSUME NEW j \in DOMAIN r, j > Len(s) + i PROVE r[j].ev # "CLOSE"
      OBVIOUS
    <3>1. j \notin DOMAIN s /\ j - Len(s) > i
      BY <1>1, <2>1
    <3>2. j - Len(s) \in DOMAIN t /\ r[j] = t[j - Len(s)]
      BY <1>3, <3>1
    <3> QED
      BY <2>1, <3>1, <3>2
  <2> QED
    BY <1>6, <2>1, <2>2 DEF Opens
<1>9. ASSUME Opens(s), NoClose(t) PROVE Opens(r)
  <2>1. PICK i \in DOMAIN s : s[i].ev = "OPEN" /\ s[i].ok /\ \A j \in DOMAIN s : j > i => s[j].ev # "CLOSE"
    BY <1>9 DEF Opens
  <2>2. \A j \in DOMAIN r : j > i => r[j].ev # "CLOSE"
    BY <1>3, <1>9, <2>1 DEF NoClose
  <2> QED
    BY <1>5, <2>1, <2>2 DEF Opens
<1> QED
  BY <1>1, <1>4, <1>7, <1>8, <1>9 DEF r

\* What taking the first message leaves.
LEMMA TailParts ==
  ASSUME NEW s \in Seq(Messages), s # << >>
  PROVE  /\ Head(s) \in Messages /\ Tail(s) \in Seq(Messages)
         /\ NoReg(s) => Head(s).ev # "REG"
         /\ (\A i \in DOMAIN s : s[i].ev = "REG" => i = 1) => NoReg(Tail(s))
         /\ HasDereg(s) => Head(s).ev = "DEREG" \/ HasDereg(Tail(s))
         /\ NoClose(s) => Head(s).ev # "CLOSE" /\ NoClose(Tail(s))
         /\ Opens(s) => Opens(Tail(s)) \/ (Head(s).ev = "OPEN" /\ Head(s).ok /\ NoClose(Tail(s)))
<1> DEFINE t == Tail(s)
<1>1. /\ t \in Seq(Messages) /\ DOMAIN s = 1..Len(s) /\ Len(s) \in Nat /\ 1 \in DOMAIN s
      /\ Head(s) = s[1] /\ Head(s) \in Messages
      /\ DOMAIN t = 1..(Len(s) - 1)
  OBVIOUS
<1>2. \A i \in DOMAIN t : t[i] = s[i + 1]
  OBVIOUS
<1> HIDE DEF t
<1>3. \A i \in DOMAIN t : i + 1 \in DOMAIN s /\ t[i] = s[i + 1] /\ i + 1 > 1 /\ i \in Nat
  BY <1>1, <1>2
<1>4. \A i \in DOMAIN s : i # 1 => i - 1 \in DOMAIN t /\ t[i - 1] = s[i]
  <2> SUFFICES ASSUME NEW i \in DOMAIN s, i # 1 PROVE i - 1 \in DOMAIN t /\ t[i - 1] = s[i]
    OBVIOUS
  <2>1. i - 1 \in DOMAIN t /\ (i - 1) + 1 = i
    BY <1>1
  <2> QED
    BY <1>2, <2>1
<1>5. NoReg(s) => Head(s).ev # "REG"
  BY <1>1 DEF NoReg
<1>6. (\A i \in DOMAIN s : s[i].ev = "REG" => i = 1) => NoReg(t)
  BY <1>3 DEF NoReg
<1>7. HasDereg(s) => Head(s).ev = "DEREG" \/ HasDereg(t)
  BY <1>1, <1>4 DEF HasDereg
<1>8. NoClose(s) => Head(s).ev # "CLOSE" /\ NoClose(t)
  BY <1>1, <1>3 DEF NoClose
<1>9. ASSUME Opens(s) PROVE Opens(t) \/ (Head(s).ev = "OPEN" /\ Head(s).ok /\ NoClose(t))
  <2>1. PICK i \in DOMAIN s : s[i].ev = "OPEN" /\ s[i].ok /\ \A j \in DOMAIN s : j > i => s[j].ev # "CLOSE"
    BY <1>9 DEF Opens
  <2>2. CASE i = 1
    BY <1>1, <1>3, <2>1, <2>2 DEF NoClose
  <2>3. CASE i # 1
    <3>1. i - 1 \in DOMAIN t /\ t[i - 1] = s[i] /\ i \in Nat
      BY <1>1, <1>4, <2>3
    <3>2. \A j \in DOMAIN t : j > i - 1 => t[j].ev # "CLOSE"
      BY <1>3, <2>1, <3>1
    <3> QED
      BY <2>1, <3>1, <3>2 DEF Opens
  <2> QED
    BY <2>2, <2>3
<1> QED
  BY <1>1, <1>5, <1>6, <1>7, <1>8, <1>9 DEF t

-----------------------------------------------------------------------------
(* What reaches the BTU task from below.                                   *)

\* A handler that adds no more than messages of AVDTP's.
LEMMA EvtBelow ==
  ASSUME NEW u, NEW v, Below(v, u), NEW ev \in AnyDev \ {"REG"}, NEW d \in Peers, NEW ok \in BOOLEAN
  PROVE  Below(StrEvt(v, Msg(ev, d, ok)), u)
<1>1. Msg(ev, d, ok) \in Messages /\ Msg(ev, d, ok).ev # "REG"
  BY AnyMsg
<1> QED
  BY <1>1, StrEvtBelow, BelowTrans DEF Below

\* An event of a channel, after a change of AVDTP.
LEMMA CtrlBelow ==
  ASSUME NEW u, NEW v, Below(v, u), NEW d \in Devices,
         NEW ev \in {"CONNECT", "DISCONNECT"}, NEW acp \in BOOLEAN
  PROVE  Below(CtrlEvt(v, d, ev, acp), u)
BY CtrlEvtBelow, BelowTrans DEF Below

\* The peer opens a channel.
LEMMA PeerConnectsBelow ==
  ASSUME NEW u, BtuInv(u), NEW d \in Devices, u.link[d] = "down"
  PROVE  Below(CtrlEvt([u EXCEPT !.link[d] = "up", !.cback[d] = "conn"], d, "CONNECT", TRUE), u)
<1> DEFINE v == [u EXCEPT !.link[d] = "up", !.cback[d] = "conn"]
<1>1. /\ v.link = [u.link EXCEPT ![d] = "up"] /\ v.cback = [u.cback EXCEPT ![d] = "conn"]
      /\ DOMAIN v = DOMAIN u /\ \A f \in DOMAIN u : f \notin {"link", "cback"} => v[f] = u[f]
  BY DEF BtuInv, BtuTyped, IsBtu, BtuFields
<1> HIDE DEF v
<1>2. Channel(v, u, d) /\ v.link[d] = "up" /\ v.reconn = u.reconn /\ v.op = u.op
  BY <1>1 DEF BtuInv, BtuTyped, AvdtTyped, IsBtu, BtuFields, Channel, Links
<1>3. ~u.reconn[d] /\ u.op[d] # "open"
  BY CommandsAssumption DEF BtuInv, Avdt
<1>4. Below(v, u)
  BY <1>2, <1>3, ChannelBelow
<1>5. Below(CtrlEvt(v, d, "CONNECT", TRUE), u)
  BY <1>4, CtrlBelow
<1> QED
  BY <1>5 DEF v

\* Our channel opens.
LEMMA LinkOpensBelow ==
  ASSUME NEW u, BtuInv(u), NEW d \in Devices, u.link[d] = "opening"
  PROVE  Below(CtrlEvt([u EXCEPT !.link[d] = "up"], d, "CONNECT", FALSE), u)
<1> DEFINE v == [u EXCEPT !.link[d] = "up"]
<1>1. /\ v.link = [u.link EXCEPT ![d] = "up"]
      /\ DOMAIN v = DOMAIN u /\ \A f \in DOMAIN u : f # "link" => v[f] = u[f]
  BY DEF BtuInv, BtuTyped, IsBtu, BtuFields
<1> HIDE DEF v
<1>2. Channel(v, u, d) /\ v.link[d] = "up" /\ v.reconn = u.reconn /\ v.op = u.op
  BY <1>1 DEF BtuInv, BtuTyped, AvdtTyped, IsBtu, BtuFields, Channel, Links
<1>3. ~u.reconn[d] /\ (u.op[d] = "open" => u.ep.dev = d /\ u.ep.st \in {"requested", "conf"})
  BY DEF BtuInv, Avdt
<1>4. Below(v, u)
  BY <1>2, <1>3, ChannelBelow
<1>5. Below(CtrlEvt(v, d, "CONNECT", FALSE), u)
  BY <1>4, CtrlBelow
<1> QED
  BY <1>5 DEF v

\* A channel that goes down.
LEMMA DownBelow ==
  ASSUME NEW u, BtuInv(u), NEW d \in Devices, ~u.reconn[d]
  PROVE  Below(Down(u, d), u)
<1> DEFINE c == ClearCmds(u, d)
           v == [c EXCEPT !.link[d] = "down", !.idle[d] = FALSE]
           w == CtrlEvt(v, d, "DISCONNECT", TRUE)
           x == [w EXCEPT !.cback[d] = "conn"]
<1>1. Below(c, u) /\ BtuInv(c) /\ c.reconn = u.reconn /\ c.op[d] = None
  BY ClearCmdsBelow DEF Below
<1>2. Down(u, d) = x
  BY DEF Down
<1> HIDE DEF c
<1>3. /\ v.link = [c.link EXCEPT ![d] = "down"] /\ v.idle = [c.idle EXCEPT ![d] = FALSE]
      /\ DOMAIN v = DOMAIN c /\ \A f \in DOMAIN c : f \notin {"link", "idle"} => v[f] = c[f]
  BY <1>1 DEF BtuInv, BtuTyped, IsBtu, BtuFields
<1> HIDE DEF v
<1>4. Channel(v, c, d) /\ ~v.idle[d] /\ v.reconn = c.reconn /\ v.op = c.op
  <2>1. BtuTyped(c)
    BY <1>1 DEF BtuInv
  <2> QED
    BY <1>3, <2>1 DEF BtuTyped, AvdtTyped, IsBtu, BtuFields, Channel, Links
<1>5. Below(v, c)
  BY <1>1, <1>4, ChannelBelow, CommandsAssumption
<1>6. Below(w, u) /\ BtuInv(w)
  <2>1. Below(v, u)
    BY <1>1, <1>5, BelowTrans
  <2>2. Below(w, u)
    BY <2>1, CtrlBelow
  <2> QED
    BY <2>2 DEF Below
<1> HIDE DEF w
<1>7. /\ x.cback = [w.cback EXCEPT ![d] = "conn"]
      /\ DOMAIN x = DOMAIN w /\ \A f \in DOMAIN w : f # "cback" => x[f] = w[f]
  BY <1>6 DEF BtuInv, BtuTyped, IsBtu, BtuFields
<1> HIDE DEF x
<1>8. Channel(x, w, d) /\ x.link = w.link /\ x.idle = w.idle /\ x.reconn = w.reconn /\ x.op = w.op
  BY <1>6, <1>7 DEF BtuInv, BtuTyped, AvdtTyped, IsBtu, BtuFields, Channel
<1>9. Below(x, w)
  <2>1. /\ w.link[d] = "down" => w.op[d] = None /\ ~w.idle[d]
        /\ w.reconn[d] => w.link[d] \in {"closing", "aborting"}
        /\ w.op[d] = "open" => w.ep.dev = d /\ w.ep.st \in {"requested", "conf"}
    BY <1>6 DEF BtuInv, Avdt
  <2> QED
    BY <1>6, <1>8, <2>1, ChannelBelow
<1> QED
  BY <1>2, <1>6, <1>9, BelowTrans

\* A channel closes and is opened again.
LEMMA ReconnBelow ==
  ASSUME NEW u, BtuInv(u), NEW d \in Devices
  PROVE  Below([u EXCEPT !.link[d] = "opening", !.reconn[d] = FALSE], u)
<1> DEFINE v == [u EXCEPT !.link[d] = "opening", !.reconn[d] = FALSE]
<1>1. /\ v.link = [u.link EXCEPT ![d] = "opening"] /\ v.reconn = [u.reconn EXCEPT ![d] = FALSE]
      /\ DOMAIN v = DOMAIN u /\ \A f \in DOMAIN u : f \notin {"link", "reconn"} => v[f] = u[f]
  BY DEF BtuInv, BtuTyped, IsBtu, BtuFields
<1> HIDE DEF v
<1>2. Channel(v, u, d) /\ v.link[d] = "opening" /\ ~v.reconn[d] /\ v.op = u.op
  BY <1>1 DEF BtuInv, BtuTyped, AvdtTyped, IsBtu, BtuFields, Channel, Links
<1>3. u.op[d] = "open" => u.ep.dev = d /\ u.ep.st \in {"requested", "conf"}
  BY DEF BtuInv, Avdt
<1>4. Below(v, u)
  BY <1>2, <1>3, ChannelBelow
<1> QED
  BY <1>4 DEF v

\* The idle timer runs out.
LEMMA IdleBelow ==
  ASSUME NEW u, BtuInv(u), NEW d \in Devices
  PROVE  LET v == [u EXCEPT !.idle[d] = FALSE]
         IN Below(v, u) /\ v.link = u.link /\ v.reconn = u.reconn
<1> DEFINE v == [u EXCEPT !.idle[d] = FALSE]
<1>1. /\ v.idle = [u.idle EXCEPT ![d] = FALSE]
      /\ DOMAIN v = DOMAIN u /\ \A f \in DOMAIN u : f # "idle" => v[f] = u[f]
  BY DEF BtuInv, BtuTyped, IsBtu, BtuFields
<1> HIDE DEF v
<1>2. Channel(v, u, d) /\ v.link = u.link /\ v.reconn = u.reconn /\ v.op = u.op /\ ~v.idle[d]
  BY <1>1 DEF BtuInv, BtuTyped, AvdtTyped, IsBtu, BtuFields, Channel
<1>3. /\ u.link[d] = "down" => u.op[d] = None
      /\ u.reconn[d] => u.link[d] \in {"closing", "aborting"}
      /\ u.op[d] = "open" => u.ep.dev = d /\ u.ep.st \in {"requested", "conf"}
  BY DEF BtuInv, Avdt
<1>4. Below(v, u) /\ v.link = u.link /\ v.reconn = u.reconn
  BY <1>2, <1>3, ChannelBelow
<1> QED
  BY <1>4 DEF v

\* The answer to an open was a refusal.
LEMMA GivenUpBelow ==
  ASSUME NEW u, BtuInv(u), NEW d \in Devices
  PROVE  Below([ClearCmds(u, d) EXCEPT !.link[d] = "closing"], u)
<1> DEFINE c == ClearCmds(u, d)
           v == [c EXCEPT !.link[d] = "closing"]
<1>1. Below(c, u) /\ BtuInv(c) /\ c.op[d] = None
  BY ClearCmdsBelow DEF Below
<1> HIDE DEF c
<1>2. /\ v.link = [c.link EXCEPT ![d] = "closing"]
      /\ DOMAIN v = DOMAIN c /\ \A f \in DOMAIN c : f # "link" => v[f] = c[f]
  BY <1>1 DEF BtuInv, BtuTyped, IsBtu, BtuFields
<1> HIDE DEF v
<1>3. Channel(v, c, d) /\ v.link[d] = "closing" /\ v.op = c.op
  <2>1. BtuTyped(c)
    BY <1>1 DEF BtuInv
  <2> QED
    BY <1>2, <2>1 DEF BtuTyped, AvdtTyped, IsBtu, BtuFields, Channel, Links
<1>4. Below(v, u)
  BY <1>1, <1>3, ChannelBelow, BelowTrans, CommandsAssumption
<1> QED
  BY <1>4 DEF v, c

\* A command that is answered.
LEMMA AnsweredBelow ==
  ASSUME NEW u, BtuInv(u), NEW d \in Devices
  PROVE  LET v == [u EXCEPT !.op[d] = None]
         IN /\ Below(v, u) /\ v.ep = u.ep /\ v.op[d] = None
            /\ \A c \in Devices : c # d => v.op[c] = u.op[c]
<1> DEFINE v == [u EXCEPT !.op[d] = None]
<1>1. /\ v.op = [u.op EXCEPT ![d] = None]
      /\ DOMAIN v = DOMAIN u /\ \A f \in DOMAIN u : f # "op" => v[f] = u[f]
  BY DEF BtuInv, BtuTyped, IsBtu, BtuFields
<1> HIDE DEF v
<1>2. /\ Channel(v, u, d) /\ v.link = u.link /\ v.reconn = u.reconn /\ v.op[d] = None /\ v.idle = u.idle
      /\ \A c \in Devices : c # d => v.op[c] = u.op[c]
  BY <1>1 DEF BtuInv, BtuTyped, AvdtTyped, IsBtu, BtuFields, Channel, Ops
<1>3. /\ u.link[d] = "down" => ~u.idle[d]
      /\ u.reconn[d] => u.link[d] \in {"closing", "aborting"}
  BY DEF BtuInv, Avdt
<1>4. Below(v, u)
  BY <1>2, <1>3, ChannelBelow, CommandsAssumption
<1>5. v.ep = u.ep
  BY <1>2 DEF Channel
<1>6. Below(v, u) /\ v.ep = u.ep /\ v.op[d] = None /\ \A c \in Devices : c # d => v.op[c] = u.op[c]
  BY <1>2, <1>4, <1>5
<1> QED
  BY <1>6 DEF v

\* The endpoint's state, when no OPEN waits for its answer.
LEMMA EpStBelow ==
  ASSUME NEW u, BtuInv(u), \A c \in Devices : u.op[c] # "open", u.ep.st # "idle",
         NEW s \in EpStates \ {"idle"}, NEW i
  PROVE  /\ Below([u EXCEPT !.ep.st = s], u)
         /\ Below([u EXCEPT !.ep.st = s, !.ep.int = i], u)
<1> DEFINE e == [u.ep EXCEPT !.st = s]
           f == [u.ep EXCEPT !.st = s, !.int = i]
<1>1. {"st", "dev"} \subseteq DOMAIN u.ep /\ u.ep.dev \in Peers /\ u.ep.dev # None
  BY DEF BtuInv, BtuTyped, AvdtTyped, Avdt
<1>2. /\ {"st", "dev"} \subseteq DOMAIN e /\ e.st = s /\ e.dev = u.ep.dev
      /\ {"st", "dev"} \subseteq DOMAIN f /\ f.st = s /\ f.dev = u.ep.dev
  BY <1>1
<1>3. /\ [u EXCEPT !.ep.st = s] = [u EXCEPT !.ep = e]
      /\ [u EXCEPT !.ep.st = s, !.ep.int = i] = [u EXCEPT !.ep = f]
  BY DEF BtuInv, BtuTyped, IsBtu, BtuFields
<1> HIDE DEF e, f
<1>4. EpOK(u, e) /\ EpOK(u, f)
  BY <1>1, <1>2 DEF EpOK
<1> QED
  BY <1>3, <1>4, EpBelow

\* The endpoint is freed.
LEMMA EpFreeBelow ==
  ASSUME NEW u, BtuInv(u), \A c \in Devices : u.op[c] # "open"
  PROVE  Below([u EXCEPT !.ep = EpIdle], u)
<1>1. EpOK(u, EpIdle)
  BY EpIdleOK DEF EpOK
<1> QED
  BY <1>1, EpBelow

\* The hypothesis about the peer, for a stream that is shown: no SETCONFIG of its
\* turns a stream INCOMING while the message that an earlier one has opened waits.
NoOpenOk(q) == \A i \in DOMAIN q : q[i].ev # "OPEN_OK"
InOrder ==
  \A d \in Devices, ok \in BOOLEAN :
    PeerConfigures(d, ok) /\ btu.scb.state = "init" => NoOpenOk(btu.q)

\* What a peer, a channel or a timer does, as far as the two tasks can tell.
Stirred(v) == Steps(v, btu) /\ (InOrder /\ Peered(btu) => Peered(v))
Stirs == Registered /\ \E v : Stirred(v) /\ Ends(v)

\* What the peer and the stack do.
LEMMA PeerStirs == ASSUME NEW v, Stirred(v), PeerDoes(v) PROVE Stirs
BY DEF PeerDoes, Stirs

LEMMA StackStirs == ASSUME NEW v, Stirred(v), StackDoes(v) PROVE Stirs
BY DEF StackDoes, Stirs

LEMMA StayStirred == ASSUME NEW v, Stay(v, btu) PROVE Stirred(v)
BY StaySteps, StayPeered DEF Stirred

LEMMA BelowStirred == ASSUME NEW v, Below(v, btu) PROVE Stirred(v)
BY BelowStay, StayStirred

\* The channels.
LEMMA ChannelsStir ==
  ASSUME BtuInv(btu), NEW d \in Devices,
         PeerConnects(d) \/ LinkOpens(d) \/ LinkLost(d) \/ LinkCloses(d) \/ IdleTimeout(d)
  PROVE  Stirs
<1>1. CASE PeerConnects(d)
  <2> DEFINE v == CtrlEvt([btu EXCEPT !.link[d] = "up", !.cback[d] = "conn"], d, "CONNECT", TRUE)
  <2>1. btu.link[d] = "down" /\ PeerDoes(v)
    BY <1>1 DEF PeerConnects
  <2>2. Below(v, btu)
    BY <2>1, PeerConnectsBelow
  <2> HIDE DEF v
  <2> QED
    BY <2>1, <2>2, BelowStirred, PeerStirs
<1>2. CASE LinkOpens(d)
  <2> DEFINE v == CtrlEvt([btu EXCEPT !.link[d] = "up"], d, "CONNECT", FALSE)
  <2>1. btu.link[d] = "opening" /\ StackDoes(v)
    BY <1>2 DEF LinkOpens
  <2>2. Below(v, btu)
    BY <2>1, LinkOpensBelow
  <2> HIDE DEF v
  <2> QED
    BY <2>1, <2>2, BelowStirred, StackStirs
<1>3. CASE LinkLost(d)
  <2>1. ~btu.reconn[d] /\ PeerDoes(Down(btu, d))
    BY <1>3 DEF LinkLost, BtuInv, Avdt
  <2> QED
    BY <2>1, DownBelow, BelowStirred, PeerStirs
<1>4. CASE LinkCloses(d)
  <2> DEFINE v == [btu EXCEPT !.link[d] = "opening", !.reconn[d] = FALSE]
             w == IF btu.reconn[d] THEN v ELSE Down(btu, d)
  <2>1. StackDoes(w)
    BY <1>4 DEF LinkCloses
  <2>2. Below(v, btu)
    BY ReconnBelow
  <2>3. ~btu.reconn[d] => Below(Down(btu, d), btu)
    BY DownBelow
  <2> HIDE DEF v
  <2>4. Below(w, btu)
    BY <2>2, <2>3
  <2> QED
    BY <2>1, <2>4, BelowStirred, StackStirs
<1>5. CASE IdleTimeout(d)
  <2> DEFINE v == [btu EXCEPT !.idle[d] = FALSE]
             w == IF v.link[d] = "up" THEN [ClearCmds(v, d) EXCEPT !.link[d] = "closing"] ELSE v
  <2>1. StackDoes(w)
    BY <1>5 DEF IdleTimeout
  <2>2. Below(v, btu) /\ BtuInv(v)
    BY IdleBelow DEF Below
  <2> HIDE DEF v
  <2>3. Below(w, v)
    BY <2>2, GivenUpBelow, BelowRefl
  <2>4. Below(w, btu)
    BY <2>2, <2>3, BelowTrans
  <2> HIDE DEF w
  <2> QED
    BY <2>1, <2>4, BelowStirred, StackStirs
<1> QED
  BY <1>1, <1>2, <1>3, <1>4, <1>5

\* SDP, and the answers to discovery, to SETCONFIG and to OPEN.
LEMMA AnswersStir ==
  ASSUME BtuInv(btu), NEW d \in Devices, NEW ok \in BOOLEAN,
         Discovered(d, ok) \/ OpenAnswered(d, ok) \/ StreamAnswered(d, ok)
  PROVE  Stirs
<1> DEFINE x == [btu EXCEPT !.op[d] = None]
<1>1. Below(x, btu) /\ BtuInv(x) /\ x.ep = btu.ep /\ x.op[d] = None
      /\ \A c \in Devices : c # d => x.op[c] = btu.op[c]
  BY AnsweredBelow DEF Below
<1>2. d \in Peers
  BY DEF Peers
<1>3. CASE Discovered(d, ok)
  <2> DEFINE ev == IF ok THEN "DISC_OK" ELSE "DISC_FAIL"
             v == ChkClose(x, d)
             w == StrEvt(v, Msg(ev, d, TRUE))
  <2>1. StackDoes(w)
    BY <1>3 DEF Discovered
  <2>2. ev \in AnyDev \ {"REG"}
    BY DEF AnyDev
  <2> HIDE DEF x, ev
  <2>3. Below(v, btu)
    BY <1>1, ChkCloseBelow, BelowTrans
  <2> HIDE DEF v
  <2>4. Below(w, btu)
    BY <1>2, <2>2, <2>3, EvtBelow
  <2> HIDE DEF w
  <2> QED
    BY <2>1, <2>4, BelowStirred, StackStirs
<1>4. CASE OpenAnswered(d, ok)
  <2>1. btu.op[d] = "open" /\ btu.ep.dev = d /\ btu.ep.st \in {"requested", "conf"}
    BY <1>4 DEF OpenAnswered, BtuInv, Avdt
  <2>2. \A c \in Devices : x.op[c] # "open"
    BY <1>1, <2>1, CommandsAssumption DEF BtuInv, Avdt
  <2>3. CASE ~ok
    <3> DEFINE y == [x EXCEPT !.ep = EpIdle]
               v == ChkClose(y, d)
               w == StrEvt(v, Msg("OPEN_FAIL", d, FALSE))
    <3>1. StackDoes(w)
      <4>1. y = [btu EXCEPT !.op[d] = None, !.ep = EpIdle]
        OBVIOUS
      <4> QED
        BY <1>4, <2>3, <4>1 DEF OpenAnswered
    <3>2. "OPEN_FAIL" \in AnyDev \ {"REG"}
      BY DEF AnyDev
    <3> HIDE DEF x
    <3>3. Below(y, x)
      BY <1>1, <2>2, EpFreeBelow
    <3> HIDE DEF y
    <3>4. Below(v, y)
      BY <3>3, ChkCloseBelow DEF Below
    <3> HIDE DEF v
    <3>5. Below(v, btu)
      BY <1>1, <3>3, <3>4, BelowTrans
    <3>6. Below(w, btu)
      BY <1>2, <3>2, <3>5, EvtBelow
    <3> HIDE DEF w
    <3> QED
      BY <3>1, <3>6, BelowStirred, StackStirs
  <2>4. CASE ok /\ btu.ep.st = "requested"
    <3> DEFINE e == [btu.ep EXCEPT !.st = "conf"]
               v == [btu EXCEPT !.ep = e]
    <3>1. v = [btu EXCEPT !.ep.st = "conf"]
      OBVIOUS
    <3>2. StackDoes(v)
      BY <1>4, <2>4, <3>1 DEF OpenAnswered
    <3>3. {"st", "dev"} \subseteq DOMAIN e /\ e.st = "conf" /\ e.dev = d
      BY <2>1 DEF BtuInv, BtuTyped, AvdtTyped
    <3> HIDE DEF e
    <3>4. EpOK(btu, e)
      BY <1>2, <2>1, <3>3, DevicesAssumption DEF EpOK, EpStates, BtuInv, Avdt
    <3>5. Below(v, btu)
      BY <3>4, EpBelow
    <3> HIDE DEF v
    <3> QED
      BY <3>2, <3>5, BelowStirred, StackStirs
  <2>5. CASE ok /\ btu.ep.st # "requested"
    <3> DEFINE v == [x EXCEPT !.ep.st = "opening", !.ep.int = TRUE]
    <3>1. v = [btu EXCEPT !.op[d] = None, !.ep.st = "opening", !.ep.int = TRUE]
      OBVIOUS
    <3>2. StackDoes(v)
      BY <1>4, <2>5, <3>1 DEF OpenAnswered
    <3>3. x.ep.st # "idle" /\ "opening" \in EpStates \ {"idle"}
      BY <1>1, <2>1 DEF EpStates
    <3> HIDE DEF x
    <3>4. Below(v, x)
      BY <1>1, <2>2, <3>3, EpStBelow
    <3>5. Below(v, btu)
      BY <1>1, <3>4, BelowTrans
    <3> HIDE DEF v
    <3> QED
      BY <3>2, <3>5, BelowStirred, StackStirs
  <2> QED
    BY <2>3, <2>4, <2>5
<1>5. CASE StreamAnswered(d, ok)
  <2> DEFINE op == btu.op[d]
             live == btu.ep.st \in {"open", "streaming"}
             st == IF ~ok \/ ~live THEN btu.ep.st ELSE IF op = "start" THEN "streaming" ELSE "open"
             v == [btu EXCEPT !.op[d] = None, !.ep.st = st]
             w == IF ok /\ ~live THEN v
                  ELSE IF ok /\ op = "start" THEN StrEvt(v, Msg("START_OK", d, TRUE))
                  ELSE StrEvt(v, Msg(FailOf(op), d, ok))
  <2>1. StackDoes(w) /\ op \in {"start", "suspend"}
    BY <1>5 DEF StreamAnswered
  <2>2. Below(v, btu)
    <3>1. v = [x EXCEPT !.ep.st = st]
      OBVIOUS
    <3>2. CASE ~ok \/ ~live
      <4>1. v = [x EXCEPT !.ep.st = x.ep.st]
        BY <1>1, <3>1, <3>2
      <4>2. [x EXCEPT !.ep.st = x.ep.st] = [x EXCEPT !.ep = [x.ep EXCEPT !.st = x.ep.st]]
        OBVIOUS
      <4> DEFINE e == [x.ep EXCEPT !.st = x.ep.st]
      <4> HIDE DEF x, v
      <4>3. {"st", "dev"} \subseteq DOMAIN e /\ e.st = x.ep.st /\ e.dev = x.ep.dev
        BY <1>1 DEF BtuInv, BtuTyped, AvdtTyped
      <4> HIDE DEF e
      <4>4. EpOK(x, e)
        BY <1>1, <4>3 DEF EpOK, BtuInv, BtuTyped, AvdtTyped, Avdt
      <4>5. Below([x EXCEPT !.ep = e], x)
        BY <1>1, <4>4, EpBelow
      <4> QED
        BY <1>1, <4>1, <4>2, <4>5, BelowTrans DEF e
    <3>3. CASE ok /\ live
      <4>1. st \in EpStates \ {"idle"} /\ x.ep.st # "idle"
        BY <1>1, <3>3 DEF EpStates
      <4>2. \A c \in Devices : x.op[c] # "open"
        BY <1>1, <3>3 DEF BtuInv, Avdt
      <4> HIDE DEF x, v, st, live
      <4>3. Below([x EXCEPT !.ep.st = st], x)
        BY <1>1, <4>1, <4>2, EpStBelow
      <4> QED
        BY <1>1, <3>1, <4>3, BelowTrans
    <3> QED
      BY <3>2, <3>3
  <2>3. "START_OK" \in AnyDev \ {"REG"} /\ FailOf(op) \in AnyDev \ {"REG"}
    BY <2>1 DEF AnyDev, FailOf
  <2> HIDE DEF v, op, live
  <2>4. Below(w, btu)
    BY <1>2, <2>2, <2>3, EvtBelow
  <2> HIDE DEF w
  <2> QED
    BY <2>1, <2>4, BelowStirred, StackStirs
<1> QED
  BY <1>3, <1>4, <1>5

\* SDP ends.
LEMMA SdpStirs == ASSUME BtuInv(btu), NEW ok \in BOOLEAN, SdpDone(ok) PROVE Stirs
<1> DEFINE x == [btu EXCEPT !.sdp = FALSE]
           ev == IF ok THEN "SDP_OK" ELSE "SDP_FAIL"
           m == Msg(ev, None, TRUE)
<1>1. StackDoes(StrEvt(x, m))
  BY DEF SdpDone
<1>2. Stay(x, btu)
  BY AsideFields, AsideStay
<1>3. ev \in AnyDev /\ ev # "REG" /\ None \in Peers
  BY DEF AnyDev, Peers
<1> HIDE DEF x, ev
<1>4. m \in Messages /\ m.ev # "REG"
  BY <1>3, AnyMsg
<1> HIDE DEF m
<1>5. Stirred(StrEvt(x, m))
  BY <1>2, <1>4, StrEvtBelow, BelowStay, StayTrans, StayStirred DEF Stay, Moved
<1> QED
  BY <1>1, <1>5, StackStirs

\* A change of the endpoint, and the event that tells the stream of it.
LEMMA EpDevice ==
  ASSUME NEW u, BtuInv(u), u.ep.st # "idle"
  PROVE  u.ep.dev \in Devices /\ u.ep.dev \in Peers
BY DEF BtuInv, BtuTyped, AvdtTyped, Avdt, Peers

\* Past the configuration no open command waits.
LEMMA NoOpenWaits ==
  ASSUME NEW u, BtuInv(u), u.ep.st \notin {"requested", "conf"} \/ u.op[u.ep.dev] # "open"
  PROVE  \A c \in Devices : u.op[c] # "open"
BY DEF BtuInv, Avdt

\* The media channel opens or not; the peer starts, suspends or closes.
LEMMA MediaStirs ==
  ASSUME BtuInv(btu),
         \/ \E ok \in BOOLEAN : MediaOpens(ok)
         \/ PeerOpens \/ PeerStarts \/ PeerSuspends \/ PeerCloses
  PROVE  Stirs
<1>1. btu.ep.st # "idle" /\ \A c \in Devices : btu.op[c] # "open"
  BY NoOpenWaits DEF MediaOpens, PeerOpens, PeerStarts, PeerSuspends, PeerCloses
<1>2. btu.ep.dev \in Peers
  BY <1>1, EpDevice
<1>3. \A s \in {"open", "streaming", "closing"} :
        Below([btu EXCEPT !.ep.st = s], btu) /\ Below([btu EXCEPT !.ep.st = s, !.ep.int = TRUE], btu)
  <2>1. \A s \in {"open", "streaming", "closing"} : s \in EpStates \ {"idle"}
    BY DEF EpStates
  <2> QED
    BY <1>1, <2>1, EpStBelow
<1> DEFINE x == [btu EXCEPT !.ep.st = "open"]
           y == [btu EXCEPT !.ep.st = "streaming"]
           z == [btu EXCEPT !.ep.st = "closing"]
           w == [btu EXCEPT !.ep.st = "closing", !.ep.int = TRUE]
<1>4. "OPEN_OK" \in AnyDev \ {"REG"} /\ "START_OK" \in AnyDev \ {"REG"} /\ "SUSPEND_IND" \in AnyDev \ {"REG"}
  BY DEF AnyDev
<1>5. \/ PeerDoes(z)
      \/ StackDoes(w)
      \/ StackDoes(StrEvt(x, Msg("OPEN_OK", btu.ep.dev, TRUE)))
      \/ PeerDoes(StrEvt(y, Msg("START_OK", btu.ep.dev, TRUE)))
      \/ PeerDoes(StrEvt(x, Msg("SUSPEND_IND", btu.ep.dev, TRUE)))
  <2>1. CASE \E ok \in BOOLEAN : MediaOpens(ok)
    BY <2>1 DEF MediaOpens
  <2>2. CASE PeerOpens
    BY <2>2 DEF PeerOpens
  <2>3. CASE PeerStarts
    BY <2>3 DEF PeerStarts
  <2>4. CASE PeerSuspends
    BY <2>4 DEF PeerSuspends
  <2>5. CASE PeerCloses
    BY <2>5 DEF PeerCloses
  <2> QED
    BY <2>1, <2>2, <2>3, <2>4, <2>5
<1>6. Below(x, btu) /\ Below(y, btu) /\ Below(z, btu) /\ Below(w, btu)
  BY <1>3
<1> HIDE DEF x, y, z, w
<1>7. /\ Below(StrEvt(x, Msg("OPEN_OK", btu.ep.dev, TRUE)), btu)
      /\ Below(StrEvt(y, Msg("START_OK", btu.ep.dev, TRUE)), btu)
      /\ Below(StrEvt(x, Msg("SUSPEND_IND", btu.ep.dev, TRUE)), btu)
  BY <1>2, <1>4, <1>6, EvtBelow
<1> QED
  BY <1>5, <1>6, <1>7, BelowStirred, PeerStirs, StackStirs

\* The media channel closes.
LEMMA StreamClosesStirs == ASSUME BtuInv(btu), StreamCloses PROVE Stirs
<1> DEFINE x == [btu EXCEPT !.ep = EpIdle]
           v == IF btu.ep.int THEN ChkClose(x, btu.ep.dev) ELSE x
           w == StrEvt(v, Msg("CLOSED", btu.ep.dev, TRUE))
<1>1. btu.ep.st = "closing" /\ StackDoes(w)
  BY DEF StreamCloses
<1>2. btu.ep.dev \in Devices /\ btu.ep.dev \in Peers
  BY <1>1, EpDevice
<1>3. Below(x, btu) /\ BtuInv(x)
  BY <1>1, NoOpenWaits, EpFreeBelow DEF Below
<1> HIDE DEF x
<1>4. Below(v, btu)
  BY <1>2, <1>3, ChkCloseBelow, BelowTrans
<1> HIDE DEF v
<1>5. "CLOSED" \in AnyDev \ {"REG"}
  BY DEF AnyDev
<1>6. Below(w, btu)
  BY <1>2, <1>4, <1>5, EvtBelow
<1> HIDE DEF w
<1> QED
  BY <1>1, <1>6, BelowStirred, StackStirs

\* A configuration that joins a queue without OPEN_OK is awaited there.
LEMMA AppendAwaited ==
  ASSUME NEW q \in Seq(Messages), NoOpenOk(q), NEW m \in Messages, m.ev = "CONFIG_IND"
  PROVE  Awaited(Append(q, m))
<1>1. /\ Len(q) + 1 \in DOMAIN Append(q, m) /\ Append(q, m)[Len(q) + 1] = m
      /\ \A j \in DOMAIN Append(q, m) : j < Len(q) + 1 => j \in DOMAIN q /\ Append(q, m)[j] = q[j]
  OBVIOUS
<1> QED
  BY <1>1 DEF Awaited, NoOpenOk

\* The fields that a message to BTU and a change of state leave alone.
LEMMA PostQueue ==
  ASSUME NEW u, BtuInv(u), NEW m
  PROVE  Post(u, m).q = Append(u.q, m) /\ Post(u, m).scb = u.scb
BY DEF Post, BtuInv, BtuTyped, IsBtu, BtuFields

LEMMA GoQueue == ASSUME NEW u, BtuInv(u), NEW s PROVE Go(u, s).q = u.q
BY DEF Go, BtuInv, BtuTyped, IsBtu, BtuFields

\* SETCONFIG of the peer: the only event below BTA that changes the stream's
\* state, and it does not open it.
LEMMA PeerConfiguresStirs ==
  ASSUME BtuInv(btu), NEW d \in Devices, NEW ok \in BOOLEAN, PeerConfigures(d, ok)
  PROVE  Stirs
<1> DEFINE e == [EpIdle EXCEPT !.st = "indicated", !.dev = d]
           v == [btu EXCEPT !.ep = e]
           w == IF v.lcb = d /\ v.scb.state = "init" THEN Go(v, "incoming") ELSE v
           m == Msg("CONFIG_IND", d, ok)
<1>1. btu.ep.st = "idle" /\ PeerDoes(StrEvt(w, m))
  BY DEF PeerConfigures
<1>2. e.st = "indicated" /\ e.dev = d /\ {"st", "dev"} \subseteq DOMAIN e
  BY DEF EpIdle
<1> HIDE DEF e
<1>3. EpOK(btu, e)
  <2>1. \A c \in Devices : btu.op[c] # "open"
    BY <1>1, NoOpenWaits
  <2> QED
    BY <1>2, <2>1, DevicesAssumption DEF EpOK, EpStates, Peers
<1>4. Below(v, btu) /\ BtuInv(v)
  BY <1>3, EpBelow DEF Below
<1>5. "CONFIG_IND" \in Named
  BY DEF Named
<1>6. m \in Messages /\ m.ev = "CONFIG_IND"
  BY <1>5, NamedMsg
<1>7. v.q = btu.q /\ (InOrder /\ btu.scb.state = "init" => NoOpenOk(btu.q))
  BY DEF InOrder, BtuInv, BtuTyped, IsBtu, BtuFields
<1> HIDE DEF v, m
<1>8. Steps(w, v)
  <2>1. CASE v.lcb = d /\ v.scb.state = "init"
    BY <1>4, <2>1, GoState, LeavesSteps
  <2>2. CASE ~(v.lcb = d /\ v.scb.state = "init")
    BY <1>4, <2>2, StayRefl, StaySteps
  <2> QED
    BY <2>1, <2>2
<1>9. Steps(w, btu)
  BY <1>4, <1>8, BelowStay, StayThenSteps
<1>10. w = v \/ (v.scb.state = "init" /\ w = Go(v, "incoming"))
  OBVIOUS
<1> HIDE DEF w
<1>11. Below(StrEvt(w, m), w)
  BY <1>6, <1>9, StrEvtBelow DEF Steps, Handled
<1>12. Steps(StrEvt(w, m), btu)
  BY <1>9, <1>11 DEF Steps, Handled, Names, Below, Kept, Gone
<1>13. InOrder /\ Peered(btu) => Peered(StrEvt(w, m))
  <2> SUFFICES ASSUME InOrder, Peered(btu) PROVE Peered(StrEvt(w, m))
    OBVIOUS
  <2>1. CASE v.scb.state = "init" /\ w = Go(v, "incoming")
    <3>1. btu.scb.state = "init" /\ v.q = btu.q /\ w.q = v.q /\ w.scb.state = "incoming"
      BY <1>4, <1>7, <2>1, GoQueue, GoState DEF Below
    <3>2. NoOpenOk(w.q) /\ w.q \in Seq(Messages)
      BY <1>9, <1>7, <3>1 DEF Steps, Handled, BtuInv, BtuTyped
    <3>3. StrEvt(w, m).q = Append(w.q, m) /\ StrEvt(w, m).scb = w.scb
      BY <1>9, <3>1, PostQueue DEF StrEvt, Steps, Handled
    <3> QED
      BY <1>6, <3>1, <3>2, <3>3, AppendAwaited DEF Peered
  <2>2. CASE w = v
    BY <1>4, <1>11, <2>2, BelowStay, StayPeered
  <2> QED
    BY <1>10, <2>1, <2>2
<1> QED
  BY <1>1, <1>12, <1>13, PeerStirs DEF Stirred

\* The timers.
LEMMA TimersStir ==
  ASSUME BtuInv(btu), SigTimerFires \/ AcpTimerFires \/ CloseTimerFires PROVE Stirs
<1>1. CASE SigTimerFires
  <2> DEFINE x == [btu EXCEPT !.sig = FALSE]
             m == Msg("SIG_TIMER", None, TRUE)
  <2>1. StackDoes(Post(x, m))
    BY <1>1 DEF SigTimerFires
  <2>2. Stay(x, btu)
    BY AsideFields, AsideStay
  <2>3. "SIG_TIMER" \in AnyDev /\ None \in Peers
    BY DEF AnyDev, Peers
  <2>4. m \in Messages /\ m.ev # "REG"
    BY <2>3, AnyMsg
  <2> HIDE DEF x, m
  <2>5. Stirred(Post(x, m))
    BY <2>2, <2>4, PostStay, StayTrans, StayStirred DEF Stay, Moved
  <2> QED
    BY <2>1, <2>5, StackStirs
<1>2. CASE AcpTimerFires
  BY <1>2, AcpTimerStay, StayStirred, StackStirs DEF AcpTimerFires
<1>3. CASE CloseTimerFires
  <2> DEFINE x == [btu EXCEPT !.scb.timer = FALSE]
             m == Msg("CLOSE", None, TRUE)
  <2>1. StackDoes(Post(x, m)) /\ btu.scb.state # "none"
    BY <1>3 DEF CloseTimerFires, StackDoes, Registered
  <2>2. Flags(x, btu)
    BY DEF BtuInv, BtuTyped, IsBtu, BtuFields, ScbFields, Flags, SameAvdt, SameChannels
  <2>3. Stay(x, btu)
    BY <2>1, <2>2, FlagsStay
  <2>4. "CLOSE" \in AnyDev /\ None \in Peers
    BY DEF AnyDev, Peers
  <2>5. m \in Messages /\ m.ev # "REG"
    BY <2>4, AnyMsg
  <2> HIDE DEF x, m
  <2>6. Stirred(Post(x, m))
    BY <2>3, <2>5, PostStay, StayTrans, StayStirred DEF Stay, Moved
  <2> QED
    BY <2>1, <2>6, StackStirs
<1> QED
  BY <1>1, <1>2, <1>3

-----------------------------------------------------------------------------
(* The specification.                                                      *)

\* The two tasks' data between two steps.
DataInv ==
  /\ BtuInv(btu) /\ btu.evts = << >>
  /\ BtcTyped(btc) /\ btc.out = << >> /\ btc.post = << >>
  /\ btcq \in Seq(Messages)

\* The registration is the first message there is.
Registers ==
  \/ NoReg(btu.q)
  \/ btu.scb.state = "none" /\ \A i \in DOMAIN btu.q : btu.q[i].ev = "REG" => i = 1

\* After deinit the stream is gone, or the message that ends it is under way.
Deregisters ==
  btc.sm = "none" => /\ NoReg(btu.q) \/ HasDereg(btu.q)
                     /\ HasDereg(btu.q) \/ Gone(btu)

\* An open stream is known to BTC: its OPEN event is under way and no CLOSE
\* comes after it, or BTC is connected and no CLOSE is under way.
Knows ==
  btu.scb.state = "open" =>
    \/ btc.sm = "none"
    \/ Opens(btcq)
    \/ btc.sm \in Conn /\ NoClose(btcq)

TasksInv == DataInv /\ Registers /\ Deregisters /\ Knows

\* The empty queue.
LEMMA EmptyParts ==
  << >> \in Seq(Messages) /\ NoReg(<< >>) /\ NoClose(<< >>) /\ ~HasDereg(<< >>)
BY DEF NoReg, NoClose, HasDereg

\* The state esp_a2d_sink_init leaves: the registration is under way.
LEMMA InitTasks == Init => TasksInv
<1> SUFFICES ASSUME Init PROVE TasksInv
  OBVIOUS
<1> DEFINE m == Msg("REG", None, TRUE)
           x == [NullBtc EXCEPT !.sm = "IDLE", !.peer = None, !.lsp = FALSE, !.rs = FALSE]
           y == [x EXCEPT !.init = TRUE, !.deinit = FALSE, !.ongoing = FALSE]
           z == [y EXCEPT !.out = Append(y.out, m)]
           w == [z EXCEPT !.out = << >>]
<1>1. "REG" \in AnyDev /\ None \in Peers
  BY DEF AnyDev, Peers
<1>2. m \in Messages /\ m.ev = "REG"
  BY <1>1, AnyMsg
<1> HIDE DEF m
<1>3. /\ IsBtc(y) /\ y.sm = "IDLE" /\ y.peer = None /\ y.connq = None /\ ~y.deinit
      /\ y.out = << >> /\ y.post = << >> /\ y.shown = [d \in Devices |-> "disconnected"]
  <2>1. /\ DOMAIN NullBtc = Fields /\ NullBtc.connq = None
        /\ NullBtc.out = << >> /\ NullBtc.post = << >>
        /\ NullBtc.shown = [d \in Devices |-> "disconnected"]
    BY DEF NullBtc, Fields
  <2> QED
    BY <2>1 DEF IsBtc, Fields
<1>4. SinkInit(NullBtc) = z
  <2>1. NullBtc.sm = "none" /\ To(NullBtc, "IDLE") = x
    BY DEF NullBtc, To
  <2> HIDE DEF x
  <2> QED
    BY <2>1 DEF SinkInit, Out, m
<1> HIDE DEF y
<1>11. z.out = << m >> /\ btc = w
  BY <1>3, <1>4 DEF Init, IsBtc, Fields
<1>12. /\ IsBtc(btc) /\ btc.sm = "IDLE" /\ btc.peer = None /\ btc.connq = None /\ ~btc.deinit
      /\ btc.out = << >> /\ btc.post = << >> /\ btc.shown = [d \in Devices |-> "disconnected"]
  BY <1>3, <1>11 DEF IsBtc, Fields
<1> HIDE DEF z, w
<1>13. btu = [InitBtu EXCEPT !.q = << m >>] /\ btcq = << >>
  BY <1>4, <1>11 DEF Init
<1>5. DataInv
  <2>1. BtcTyped(btc) /\ btc.out = << >> /\ btc.post = << >>
    BY <1>1, <1>12, EmptyParts DEF BtcTyped, Typed, States, Shown
  <2>2. btu = [q |-> << m >>, evts |-> << >>, scb |-> NoScb, lcb |-> None, conn |-> FALSE,
            sig |-> FALSE, acp |-> FALSE, sdp |-> FALSE,
            link |-> [d \in Devices |-> "down"], cback |-> [d \in Devices |-> "conn"],
            reconn |-> [d \in Devices |-> FALSE], op |-> [d \in Devices |-> None],
            idle |-> [d \in Devices |-> FALSE], ep |-> EpIdle]
    BY <1>13 DEF InitBtu
  <2>3. << m >> \in Seq(Messages)
    BY <1>2
  <2>4. BtuTyped(btu) /\ btu.evts = << >>
    BY <1>1, <2>2, <2>3, EmptyParts, EpIdleOK
       DEF BtuTyped, IsBtu, BtuFields, ScbFields, AvdtTyped, NoScb, StrStates, Links, Ops
  <2>5. Avdt(btu) /\ Stream(btu)
    BY <2>2, EpIdleOK, CommandsAssumption DEF Avdt, Stream, NoScb
  <2> QED
    BY <1>13, <2>1, <2>4, <2>5, EmptyParts DEF DataInv, BtuInv
<1>6. btu.scb.state = "none" /\ btu.q = << m >> /\ btc.sm = "IDLE"
  BY <1>12, <1>13 DEF InitBtu, NoScb
<1>7. Registers
  BY <1>6 DEF Registers
<1> QED
  BY <1>5, <1>6, <1>7 DEF TasksInv, Deregisters, Knows

\* The data with other queues.
LEMMA QueueFields ==
  ASSUME NEW u, BtuInv(u), NEW s \in Seq(Messages)
  PROVE  /\ BtuInv([u EXCEPT !.q = s]) /\ BtuInv([u EXCEPT !.evts = s])
         /\ [u EXCEPT !.q = s].q = s /\ [u EXCEPT !.q = s].scb = u.scb
         /\ [u EXCEPT !.q = s].evts = u.evts
         /\ [u EXCEPT !.evts = s].evts = s /\ [u EXCEPT !.evts = s].scb = u.scb
         /\ [u EXCEPT !.evts = s].q = u.q
<1> DEFINE v == [u EXCEPT !.q = s]
           w == [u EXCEPT !.evts = s]
<1>1. /\ DOMAIN v = DOMAIN u /\ v.q = s /\ \A f \in DOMAIN u : f # "q" => v[f] = u[f]
      /\ DOMAIN w = DOMAIN u /\ w.evts = s /\ \A f \in DOMAIN u : f # "evts" => w[f] = u[f]
  BY DEF BtuInv, BtuTyped, IsBtu, BtuFields
<1> HIDE DEF v, w
<1>2. /\ IsBtu(v) /\ v.evts = u.evts /\ v.scb = u.scb /\ v.lcb = u.lcb /\ SameAvdt(v, u)
      /\ IsBtu(w) /\ w.q = u.q /\ w.scb = u.scb /\ w.lcb = u.lcb /\ SameAvdt(w, u)
  BY <1>1 DEF BtuInv, BtuTyped, IsBtu, BtuFields, SameAvdt, SameChannels
<1>3. BtuTyped(v) /\ Avdt(v) /\ Stream(v)
  BY <1>1, <1>2 DEF BtuInv, BtuTyped, AvdtTyped, Avdt, Stream, SameAvdt, SameChannels
<1>4. BtuTyped(w) /\ Avdt(w) /\ Stream(w)
  BY <1>1, <1>2 DEF BtuInv, BtuTyped, AvdtTyped, Avdt, Stream, SameAvdt, SameChannels
<1>5. /\ BtuInv(v) /\ BtuInv(w) /\ v.q = s /\ v.scb = u.scb /\ v.evts = u.evts
      /\ w.evts = s /\ w.scb = u.scb /\ w.q = u.q
  BY <1>1, <1>2, <1>3, <1>4 DEF BtuInv
<1> QED
  BY <1>5 DEF v, w

\* The registration stays first when messages join the queue.
LEMMA RegFirst ==
  ASSUME NEW s \in Seq(Messages), NEW t \in Seq(Messages), NoReg(t),
         \A i \in DOMAIN s : s[i].ev = "REG" => i = 1
  PROVE  \A i \in DOMAIN (s \o t) : (s \o t)[i].ev = "REG" => i = 1
<1> SUFFICES ASSUME NEW i \in DOMAIN (s \o t), (s \o t)[i].ev = "REG" PROVE i = 1
  OBVIOUS
<1>1. CASE i <= Len(s)
  <2>1. i \in DOMAIN s /\ (s \o t)[i] = s[i]
    BY <1>1
  <2> QED
    BY <2>1
<1>2. CASE i > Len(s)
  <2> DEFINE j == i - Len(s)
  <2>1. j \in 1..Len(t) /\ Len(s) + j = i
    BY <1>2
  <2> HIDE DEF j
  <2>2. j \in DOMAIN t /\ (s \o t)[Len(s) + j] = t[j]
    BY <2>1
  <2> QED
    BY <2>1, <2>2 DEF NoReg
<1>3. i \in Nat /\ Len(s) \in Nat
  OBVIOUS
<1> QED
  BY <1>1, <1>2, <1>3

\* A handler of the BTU task ends.
LEMMA EndsKeeps ==
  ASSUME TasksInv, NEW v, Ends(v), BtuInv(v), NoReg(v.q),
         v.scb.state = "open" => \/ btu.scb.state = "open" /\ NoClose(v.evts)
                                 \/ Opens(v.evts),
         btc.sm = "none" => HasDereg(v.q) \/ Gone(v)
  PROVE  TasksInv'
<1>1. /\ btu' = [v EXCEPT !.evts = << >>] /\ btcq' = btcq \o v.evts /\ btc' = btc
      /\ v.evts \in Seq(Messages) /\ btcq \in Seq(Messages)
  BY DEF Ends, BtuInv, BtuTyped, TasksInv, DataInv
<1>2. BtuInv(btu') /\ btu'.evts = << >> /\ btu'.scb = v.scb /\ btu'.q = v.q
  BY <1>1, EmptyParts, QueueFields
<1>3. DataInv'
  BY <1>1, <1>2, ConcatParts DEF TasksInv, DataInv
<1>4. Registers'
  BY <1>2 DEF Registers
<1>5. Deregisters'
  BY <1>1, <1>2 DEF Deregisters, Gone
<1>6. Knows'
  BY <1>1, <1>2, ConcatParts DEF TasksInv, Knows
<1> QED
  BY <1>3, <1>4, <1>5, <1>6 DEF TasksInv

\* Something reaches the BTU task from below.
LEMMA StirsKeeps == ASSUME TasksInv, Stirs PROVE TasksInv'
<1>1. PICK v : Steps(v, btu) /\ Ends(v)
  BY DEF Stirs, Stirred
<1>2. NoReg(btu.q)
  BY DEF Stirs, Registered, TasksInv, Registers
<1>3. NoClose(btu.evts)
  BY EmptyParts DEF TasksInv, DataInv
<1>4. BtuInv(v) /\ NoReg(v.q)
  BY <1>1, <1>2 DEF Steps, Handled, Kept
<1>5. v.scb.state = "open" => \/ btu.scb.state = "open" /\ NoClose(v.evts)
                              \/ Opens(v.evts)
  BY <1>1, <1>3 DEF Steps
<1>6. btc.sm = "none" => HasDereg(v.q) \/ Gone(v)
  BY <1>1 DEF Steps, Handled, Kept, TasksInv, Deregisters
<1> QED
  BY <1>1, <1>4, <1>5, <1>6, EndsKeeps

\* The BTU task handles a message.
LEMMA BtuStepKeeps == ASSUME TasksInv, BtuStep PROVE TasksInv'
<1> DEFINE m == Head(btu.q)
           u == [btu EXCEPT !.q = Tail(btu.q)]
           v == Handle(u, m)
<1>1. btu.q # << >> /\ Ends(v)
  BY DEF BtuStep
<1>2. BtuInv(btu) /\ btu.evts = << >> /\ btu.q \in Seq(Messages)
  BY DEF TasksInv, DataInv, BtuInv, BtuTyped
<1>3. /\ m \in Messages /\ Tail(btu.q) \in Seq(Messages) /\ NoReg(Tail(btu.q))
      /\ NoReg(btu.q) => m.ev # "REG"
      /\ HasDereg(btu.q) => m.ev = "DEREG" \/ HasDereg(Tail(btu.q))
  <2>1. \A i \in DOMAIN btu.q : btu.q[i].ev = "REG" => i = 1
    BY DEF TasksInv, Registers, NoReg
  <2> QED
    BY <1>1, <1>2, <2>1, TailParts
<1>4. BtuInv(u) /\ u.q = Tail(btu.q) /\ u.scb = btu.scb /\ u.evts = << >>
  BY <1>2, <1>3, QueueFields
<1> HIDE DEF u, m
<1>5. /\ Handled(v, u)
      /\ v.scb.state = "open" => \/ u.scb.state = "open" /\ (NoClose(u.evts) => NoClose(v.evts))
                                 \/ Opens(v.evts)
      /\ m.ev # "REG" /\ Gone(u) => Gone(v)
      /\ m.ev = "DEREG" => Gone(v)
  BY <1>3, <1>4, HandleSteps
<1> HIDE DEF v
<1>6. BtuInv(v) /\ NoReg(v.q) /\ (HasDereg(u.q) => HasDereg(v.q))
  BY <1>3, <1>4, <1>5 DEF Handled, Kept
<1>7. v.scb.state = "open" => \/ btu.scb.state = "open" /\ NoClose(v.evts)
                              \/ Opens(v.evts)
  BY <1>4, <1>5, EmptyParts
<1>8. btc.sm = "none" => HasDereg(v.q) \/ Gone(v)
  <2> SUFFICES ASSUME btc.sm = "none", ~HasDereg(v.q) PROVE Gone(v)
    OBVIOUS
  <2>1. CASE m.ev = "DEREG"
    BY <1>5, <2>1
  <2>2. CASE m.ev # "DEREG"
    <3>1. ~HasDereg(btu.q)
      BY <1>3, <1>4, <1>6, <2>2
    <3>2. NoReg(btu.q) /\ Gone(btu)
      BY <3>1 DEF TasksInv, Deregisters
    <3> QED
      BY <1>3, <1>4, <1>5, <3>2 DEF Gone
  <2> QED
    BY <2>1, <2>2
<1> QED
  BY <1>1, <1>6, <1>7, <1>8, EndsKeeps

\* The BTC task handles a message.
LEMMA BtcStepKeeps == ASSUME TasksInv, BtcStep PROVE TasksInv'
<1> DEFINE m == Head(btcq)
           b == BtcHandle(btc, m)
<1>1. /\ btcq # << >> /\ btc' = [b EXCEPT !.out = << >>, !.post = << >>]
      /\ btcq' = Tail(btcq) \o b.post
  BY DEF BtcStep
<1>2. btu' = [btu EXCEPT !.q = btu.q \o b.out]
  BY DEF BtcStep
<1>3. /\ BtuInv(btu) /\ btu.evts = << >> /\ btu.q \in Seq(Messages)
      /\ BtcTyped(btc) /\ btc.out = << >> /\ btc.post = << >> /\ btcq \in Seq(Messages)
  BY DEF TasksInv, DataInv, BtuInv, BtuTyped
<1>4. /\ m \in Messages /\ Tail(btcq) \in Seq(Messages)
      /\ NoClose(btcq) => m.ev # "CLOSE" /\ NoClose(Tail(btcq))
      /\ Opens(btcq) => Opens(Tail(btcq)) \/ (m.ev = "OPEN" /\ m.ok /\ NoClose(Tail(btcq)))
  BY <1>1, <1>3, TailParts
<1> HIDE DEF m
<1>5. Serves(b, btc, m)
  BY <1>3, <1>4, BtcHandleServes
<1> HIDE DEF b
<1>6. /\ BtcTyped(b) /\ b.out \in Seq(Messages) /\ b.post \in Seq(Messages)
      /\ NoReg(b.out) /\ NoClose(b.post)
  BY <1>3, <1>5, EmptyParts DEF Serves, Acts, BtcTyped
<1>7. /\ btu.q \o b.out \in Seq(Messages)
      /\ NoReg(btu.q) => NoReg(btu.q \o b.out)
      /\ HasDereg(btu.q) \/ HasDereg(b.out) => HasDereg(btu.q \o b.out)
  BY <1>3, <1>6, ConcatParts
<1>8. BtuInv(btu') /\ btu'.q = btu.q \o b.out /\ btu'.scb = btu.scb /\ btu'.evts = << >>
  BY <1>2, <1>3, <1>7, QueueFields
<1>9. /\ BtcTyped(btc') /\ btc'.sm = b.sm /\ btc'.out = << >> /\ btc'.post = << >>
  <2>1. /\ IsBtc(btc') /\ btc'.sm = b.sm /\ btc'.out = << >> /\ btc'.post = << >> /\ btc'.shown = b.shown
        /\ btc'.peer = b.peer /\ btc'.connq = b.connq /\ btc'.deinit = b.deinit
    BY <1>1, <1>6 DEF BtcTyped, Typed, IsBtc, Fields
  <2> QED
    BY <1>6, <2>1, EmptyParts DEF BtcTyped, Typed
<1>10. DataInv'
  BY <1>1, <1>4, <1>6, <1>8, <1>9, ConcatParts DEF DataInv
<1>11. Registers'
  <2>1. CASE NoReg(btu.q)
    BY <1>7, <1>8, <2>1 DEF Registers
  <2>2. CASE btu.scb.state = "none" /\ \A i \in DOMAIN btu.q : btu.q[i].ev = "REG" => i = 1
    <3>1. \A i \in DOMAIN (btu.q \o b.out) :
             (btu.q \o b.out)[i].ev = "REG" => i = 1
      BY <1>3, <1>6, <2>2, RegFirst
    <3> QED
      BY <1>8, <2>2, <3>1 DEF Registers
  <2> QED
    BY <2>1, <2>2 DEF TasksInv, Registers
<1>12. Deregisters'
  <2> SUFFICES ASSUME b.sm = "none"
               PROVE  /\ NoReg(btu'.q) \/ HasDereg(btu'.q)
                      /\ HasDereg(btu'.q) \/ Gone(btu')
    BY <1>9 DEF Deregisters
  <2>1. CASE btc.sm = "none"
    BY <1>7, <1>8, <2>1 DEF TasksInv, Deregisters, Gone
  <2>2. CASE btc.sm # "none"
    BY <1>5, <1>7, <1>8, <2>2 DEF Serves
  <2> QED
    BY <2>1, <2>2
<1>13. Knows'
  <2> SUFFICES ASSUME btu.scb.state = "open", b.sm # "none"
               PROVE  Opens(btcq') \/ (b.sm \in Conn /\ NoClose(btcq'))
    BY <1>8, <1>9 DEF Knows
  <2>1. btc.sm # "none"
    BY <1>5 DEF Serves
  <2>2. /\ Opens(Tail(btcq)) => Opens(btcq')
        /\ NoClose(Tail(btcq)) => NoClose(btcq')
    BY <1>1, <1>4, <1>6, ConcatParts
  <2>3. CASE Opens(btcq)
    BY <1>4, <1>5, <2>1, <2>2, <2>3 DEF Serves
  <2>4. CASE btc.sm \in Conn /\ NoClose(btcq)
    BY <1>4, <1>5, <2>1, <2>2, <2>4 DEF Serves
  <2> QED
    BY <2>1, <2>3, <2>4 DEF TasksInv, Knows
<1> QED
  BY <1>10, <1>11, <1>12, <1>13 DEF TasksInv

\* The application adds a message that BTC knows no CLOSE event by.
LEMMA CallKeeps ==
  ASSUME TasksInv, NEW m \in Messages, m.ev # "CLOSE", Call(m) PROVE TasksInv'
<1>1. btcq' = Append(btcq, m) /\ btu' = btu /\ btc' = btc /\ btcq \in Seq(Messages)
  BY DEF Call, TasksInv, DataInv
<1>2. Append(btcq, m) = btcq \o << m >> /\ << m >> \in Seq(Messages) /\ NoClose(<< m >>)
  BY <1>1 DEF NoClose
<1>3. /\ btcq' \in Seq(Messages)
      /\ Opens(btcq) => Opens(btcq') /\ (NoClose(btcq) => NoClose(btcq'))
  BY <1>1, <1>2, ConcatParts
<1>4. NoClose(btcq) => NoClose(btcq')
  BY <1>1, <1>2, ConcatParts
<1> QED
  BY <1>1, <1>3, <1>4 DEF TasksInv, DataInv, Registers, Deregisters, Knows

\* The messages the application sends.
LEMMA CalledMessages ==
  /\ \A d \in Devices : /\ Msg("SINK_CONNECT", d, TRUE) \in Messages
                        /\ Msg("SINK_CONNECT", d, TRUE).ev \notin {"CLOSE", "OPEN"}
                        /\ Msg("DISCONNECT_REQ", d, TRUE) \in Messages
                        /\ Msg("DISCONNECT_REQ", d, TRUE).ev \notin {"CLOSE", "OPEN"}
  /\ \A ev \in {"CTRL_START", "CTRL_SUSPEND", "DEINIT"} :
       Msg(ev, None, TRUE) \in Messages /\ Msg(ev, None, TRUE).ev \notin {"CLOSE", "OPEN"}
<1>1. "SINK_CONNECT" \in Named /\ "DISCONNECT_REQ" \in AnyDev /\ \A d \in Devices : d \in Peers
  BY DEF Named, AnyDev, Peers
<1>2. None \in Peers /\ \A ev \in {"CTRL_START", "CTRL_SUSPEND", "DEINIT"} : ev \in AnyDev
  BY DEF AnyDev, Peers
<1> QED
  BY <1>1, <1>2, NamedMsg, AnyMsg

\* The calls of the application.
LEMMA CallsKeep ==
  ASSUME TasksInv,
         \/ \E d \in Devices : AppConnects(d) \/ AppDisconnects(d)
         \/ AppStarts \/ AppSuspends \/ AppDeinits
  PROVE  TasksInv'
BY CalledMessages, CallKeeps DEF AppConnects, AppDisconnects, AppStarts, AppSuspends, AppDeinits

\* Every step keeps the invariant of the two tasks.
LEMMA NextTasks == TasksInv /\ [Next]_vars => TasksInv'
<1> SUFFICES ASSUME TasksInv, [Next]_vars PROVE TasksInv'
  OBVIOUS
<1>0. BtuInv(btu)
  BY DEF TasksInv, DataInv
<1>1. CASE BtcStep
  BY <1>1, BtcStepKeeps
<1>2. CASE BtuStep
  BY <1>2, BtuStepKeeps
<1>3. CASE \E d \in Devices : \/ PeerConnects(d) \/ LinkOpens(d) \/ LinkLost(d)
                              \/ LinkCloses(d) \/ IdleTimeout(d)
  BY <1>0, <1>3, ChannelsStir, StirsKeeps
<1>4. CASE \E ok \in BOOLEAN : SdpDone(ok)
  BY <1>0, <1>4, SdpStirs, StirsKeeps
<1>5. CASE \E d \in Devices, ok \in BOOLEAN :
             Discovered(d, ok) \/ OpenAnswered(d, ok) \/ StreamAnswered(d, ok)
  BY <1>0, <1>5, AnswersStir, StirsKeeps
<1>6. CASE \/ \E ok \in BOOLEAN : MediaOpens(ok)
           \/ PeerOpens \/ PeerStarts \/ PeerSuspends \/ PeerCloses
  BY <1>0, <1>6, MediaStirs, StirsKeeps
<1>7. CASE StreamCloses
  BY <1>0, <1>7, StreamClosesStirs, StirsKeeps
<1>8. CASE \E d \in Devices, ok \in BOOLEAN : PeerConfigures(d, ok)
  BY <1>0, <1>8, PeerConfiguresStirs, StirsKeeps
<1>9. CASE SigTimerFires \/ AcpTimerFires \/ CloseTimerFires
  BY <1>0, <1>9, TimersStir, StirsKeeps
<1>10. CASE \/ \E d \in Devices : AppConnects(d) \/ AppDisconnects(d)
            \/ AppStarts \/ AppSuspends \/ AppDeinits
  BY <1>10, CallsKeep
<1>11. CASE UNCHANGED vars
  BY <1>11 DEF vars, TasksInv, DataInv, Registers, Deregisters, Knows
<1> QED
  BY <1>1, <1>2, <1>3, <1>4, <1>5, <1>6, <1>7, <1>8, <1>9, <1>10, <1>11 DEF Next

\* The two tasks and the queues between them: the registration is handled first, a
\* BTC task that is gone has deregistered, and an open stream is known to BTC or
\* its OPEN event is under way with no CLOSE after it.
THEOREM TasksInvariance == Spec => []TasksInv
BY InitTasks, NextTasks, PTL DEF Spec

\* Types: no handler of the two tasks leaves its data in a shape or a state that
\* the tables of the state machines do not have, and every message has a device
\* where its handler reads one.
THEOREM TypeCorrect == Spec => []TypeOK
<1>1. TasksInv => TypeOK
  <2> SUFFICES ASSUME DataInv PROVE TypeOK
    BY DEF TasksInv
  <2> QED
    BY DEF DataInv, BtcTyped, Typed, States, Shown, Peers, BtuInv, BtuTyped, AvdtTyped, Avdt, Stream,
           StrStates, EpStates, Links, Ops, TypeOK
<1> QED
  BY <1>1, TasksInvariance, PTL

\* When no message is under way, BTC holds the connection of an open stream.
LEMMA OpenKnown ==
  ASSUME TasksInv, btcq = << >>, btu.q = << >>, btu.scb.state = "open" PROVE btc.sm \in Conn
<1>1. ~HasDereg(btu.q) /\ ~Opens(btcq)
  BY DEF HasDereg, Opens
<1>2. btc.sm # "none"
  BY <1>1 DEF TasksInv, Deregisters, Gone
<1> QED
  BY <1>1, <1>2 DEF TasksInv, Knows

\* An open stream is never one BTC thinks idle, opening or gone once the messages
\* are handled: however the channels of the peers, the timers, the requests of the
\* application and the rejections of btc_av.c and bta_av_aact.c interleave.
THEOREM OpenIsKnown == Spec => []StreamIsKnown
<1>1. TasksInv => StreamIsKnown
  BY OpenKnown DEF StreamIsKnown, Quiet, Conn
<1> QED
  BY <1>1, TasksInvariance, PTL

-----------------------------------------------------------------------------
(* What the application is shown of an open stream.                        *)

\* The connection of the peer is shown.
PeerShown(b) == b.peer \in Devices /\ b.shown[b.peer] \in {"connected", "disconnecting"}

\* BTC opens the stream of a device, and shows the connection it holds.
Tells(b) == Typed(b) /\ (b.sm = "OPENING" => b.peer \in Devices) /\ (b.sm \in Conn => PeerShown(b))

\* What only sends keeps it.
LEMMA SameTells == ASSUME NEW b, NEW v, Same(v, b), Tells(b) PROVE Tells(v)
BY DEF Same, Tells, Typed, PeerShown

LEMMA AddsTells ==
  ASSUME NEW b, Tells(b), NEW m PROVE Tells(Out(b, m)) /\ Tells(Again(b, m)) /\ Tells(Advance(b))
<1>1. IsBtc(b)
  BY DEF Tells, Typed
<1> QED
  BY <1>1, OutSame, AgainSame, AdvanceSame, SameTells

\* The state of another device.
LEMMA OthersTells ==
  ASSUME NEW b, Tells(b), NEW d, d # b.peer, NEW s \in Shown PROVE Tells(Show(b, d, s))
<1> DEFINE v == Show(b, d, s)
<1>1. /\ Typed(v) /\ v.sm = b.sm /\ v.peer = b.peer
      /\ \A e \in Devices : v.shown[e] = IF e = d THEN s ELSE b.shown[e]
  BY ShowTyped DEF Tells
<1> HIDE DEF v
<1>2. Tells(v)
  BY <1>1 DEF Tells, PeerShown
<1> QED
  BY <1>2 DEF v

\* The states that have no connection.
LEMMA ToIdleTells == ASSUME NEW b, Typed(b) PROVE Tells(To(b, "IDLE"))
<1> DEFINE v == [b EXCEPT !.sm = "IDLE", !.peer = None, !.lsp = FALSE, !.rs = FALSE]
<1>1. To(b, "IDLE") = v
  BY DEF To
<1>2. IsBtc(v) /\ v.sm = "IDLE" /\ v.shown = b.shown
  BY DEF Typed, IsBtc, Fields
<1> HIDE DEF v
<1> QED
  BY <1>1, <1>2 DEF Tells, Typed, States, Conn

\* OPENING.
LEMMA ToOpeningTells == ASSUME NEW b, Typed(b), b.peer \in Devices PROVE Tells(To(b, "OPENING"))
<1> DEFINE v == [b EXCEPT !.sm = "OPENING"]
           w == Show(v, b.peer, "connecting")
<1>1. To(b, "OPENING") = w
  BY DEF To
<1>2. IsBtc(v) /\ v.sm = "OPENING" /\ v.shown = b.shown /\ v.peer = b.peer
  BY DEF Typed, IsBtc, Fields
<1> HIDE DEF v
<1>3. Typed(v) /\ "connecting" \in Shown
  BY <1>2 DEF Typed, States, Shown
<1>4. Typed(w) /\ w.sm = "OPENING" /\ w.peer = b.peer
  BY <1>2, <1>3, ShowTyped
<1> HIDE DEF w
<1> QED
  BY <1>1, <1>4 DEF Tells, Conn

\* The states of a connection that is shown.
LEMMA ToConnTells ==
  ASSUME NEW b, Typed(b), PeerShown(b), NEW state \in Conn
  PROVE  Tells(To(b, state))
<1> DEFINE v == To(b, state)
<1>1. IsBtc(v) /\ v.sm = state /\ v.shown = b.shown /\ v.peer = b.peer
  <2>1. CASE state = "STARTED"
    BY <2>1 DEF To, Typed, IsBtc, Fields
  <2>2. CASE state # "STARTED"
    <3>1. v = [b EXCEPT !.sm = state]
      BY <2>2 DEF To, Conn
    <3> QED
      BY <3>1 DEF Typed, IsBtc, Fields
  <2> QED
    BY <2>1, <2>2
<1>2. state \in States /\ state # "OPENING"
  BY DEF Conn, States
<1> HIDE DEF v
<1>3. Tells(v)
  BY <1>1, <1>2 DEF Tells, Typed, PeerShown
<1> QED
  BY <1>3 DEF v

\* clean_up.
LEMMA CleanUpTells == ASSUME NEW b, Typed(b) PROVE Tells(CleanUp(b))
<1> DEFINE v == Out(Out(b, Msg("DEREG", None, TRUE)), Msg("DISABLE", None, TRUE))
           w == [v EXCEPT !.sm = "none", !.init = FALSE, !.deinit = TRUE, !.ongoing = FALSE]
<1>1. Typed(v)
  <2>1. \A x, m : Typed(x) => Typed(Out(x, m))
    BY OutSame, SameGood DEF Typed
  <2> QED
    BY <2>1
<1>2. CleanUp(b) = w
  BY DEF CleanUp
<1> HIDE DEF v
<1>3. IsBtc(w) /\ w.sm = "none" /\ w.shown = v.shown
  BY <1>1 DEF Typed, IsBtc, Fields
<1> HIDE DEF w
<1> QED
  BY <1>1, <1>2, <1>3 DEF Tells, Typed, States, Conn

\* The end of the connection.
LEMMA BackTells ==
  ASSUME NEW b, Typed(b) PROVE Tells(To(Show(b, b.peer, "disconnected"), "IDLE"))
<1>1. Typed(Show(b, b.peer, "disconnected"))
  BY ShowTyped DEF Shown
<1> QED
  BY <1>1, ToIdleTells

\* CLOSE in OPENED or STARTED.
LEMMA ClosedTells == ASSUME NEW b, Typed(b) PROVE Tells(Closed(b))
<1> DEFINE v == To(Show(b, b.peer, "disconnected"), "IDLE")
<1>1. Tells(v)
  BY BackTells
<1>2. Closed(b) = IF b.ongoing THEN CleanUp(v) ELSE v
  BY DEF Closed
<1> HIDE DEF v
<1>3. Tells(CleanUp(v))
  BY <1>1, CleanUpTells DEF Tells
<1> QED
  BY <1>1, <1>2, <1>3

\* The peer is shown connected or disconnecting.
LEMMA ShowPeer ==
  ASSUME NEW b, Typed(b), b.peer \in Devices, NEW s \in {"connected", "disconnecting"}
  PROVE  LET v == Show(b, b.peer, s)
         IN Typed(v) /\ PeerShown(v) /\ v.sm = b.sm
<1>1. s \in Shown
  BY DEF Shown
<1> DEFINE v == Show(b, b.peer, s)
<1>2. /\ Typed(v) /\ v.sm = b.sm /\ v.peer = b.peer
      /\ \A e \in Devices : v.shown[e] = IF e = b.peer THEN s ELSE b.shown[e]
  BY <1>1, ShowTyped
<1> HIDE DEF v
<1>3. PeerShown(v)
  BY <1>2 DEF PeerShown
<1> QED
  BY <1>2, <1>3 DEF v

\* OPEN: the device it names is shown connected.
LEMMA OpenedTells ==
  ASSUME NEW b, Typed(b), NEW m, m.ok => b.peer \in Devices PROVE Tells(Opened(b, m))
<1>1. CASE m.ok
  <2>1. Typed(Show(b, b.peer, "connected")) /\ PeerShown(Show(b, b.peer, "connected"))
    BY <1>1, ShowPeer
  <2>2. Tells(To(Show(b, b.peer, "connected"), "OPENED"))
    BY <2>1, ToConnTells DEF Conn
  <2> QED
    BY <1>1, <2>2, AddsTells DEF Opened
<1>2. CASE ~m.ok
  <2>1. Tells(To(Show(b, b.peer, "disconnected"), "IDLE"))
    BY BackTells
  <2> QED
    BY <1>2, <2>1, AddsTells DEF Opened
<1> QED
  BY <1>1, <1>2

\* A request of the application to connect another device.
LEMMA OtherConnectTells == ASSUME NEW b, Tells(b), NEW m PROVE Tells(OtherConnect(b, m))
<1> DEFINE w == IF m.dev = b.peer THEN b ELSE Show(b, m.dev, "disconnected")
<1>1. Tells(w)
  BY OthersTells DEF Shown
<1>2. OtherConnect(b, m) = Advance(w)
  BY DEF OtherConnect
<1> HIDE DEF w
<1> QED
  BY <1>1, <1>2, AddsTells

\* An OPEN event of an open stream names its device.
NamesDevice(m) == IsOpen(m) => m.dev \in Devices

\* The handler of IDLE.
LEMMA IdleTells ==
  ASSUME NEW b, Tells(b), b.sm = "IDLE", NEW m \in Messages, NamesDevice(m)
  PROVE  Tells(Idle(b, m))
<1> DEFINE v == [b EXCEPT !.peer = m.dev]
<1>1. Typed(v) /\ v.peer = m.dev /\ IsBtc(v)
  BY DEF Tells, Typed, IsBtc, Fields
<1>2. CASE m.ev \in {"PENDING", "CONNECT_REQ"}
  <2> DEFINE w == Out(v, Msg("API_OPEN", m.dev, TRUE))
  <2>1. m.dev \in Devices
    BY <1>2 DEF Messages, Named
  <2>2. Idle(b, m) = To(w, "OPENING")
    BY <1>2 DEF Idle
  <2> HIDE DEF v
  <2>3. Typed(w) /\ w.peer = m.dev
    BY <1>1, OutSame, SameGood DEF Same
  <2> HIDE DEF w
  <2> QED
    BY <2>1, <2>2, <2>3, ToOpeningTells
<1>3. CASE m.ev = "DISCONNECT_REQ"
  <2> DEFINE w == Show(b, m.dev, "disconnected")
  <2>1. Idle(b, m) = w
    BY <1>3 DEF Idle
  <2>2. Typed(w) /\ w.sm = "IDLE"
    BY ShowTyped DEF Tells, Shown
  <2> HIDE DEF w
  <2> QED
    BY <2>1, <2>2 DEF Tells, Conn
<1>4. CASE m.ev = "OPEN"
  <2>1. Idle(b, m) = Opened(v, m)
    BY <1>4 DEF Idle
  <2> HIDE DEF v
  <2> QED
    BY <1>1, <1>4, <2>1, OpenedTells DEF NamesDevice, IsOpen
<1>5. CASE m.ev \notin {"PENDING", "CONNECT_REQ", "DISCONNECT_REQ", "OPEN"}
  <2>1. Idle(b, m) = b
    BY <1>5 DEF Idle
  <2> QED
    BY <2>1
<1> QED
  BY <1>2, <1>3, <1>4, <1>5

\* The handler of OPENING.
LEMMA OpeningTells ==
  ASSUME NEW b, Tells(b), b.sm = "OPENING", NEW m PROVE Tells(Opening(b, m))
<1>0. Typed(b) /\ b.peer \in Devices
  BY DEF Tells
<1>1. CASE m.ev = "REJECT"
  BY <1>0, <1>1, BackTells DEF Opening
<1>2. CASE m.ev = "OPEN"
  BY <1>0, <1>2, OpenedTells DEF Opening
<1>3. CASE m.ev = "CONNECT_REQ"
  BY <1>3, OtherConnectTells DEF Opening
<1>4. CASE m.ev = "PENDING"
  BY <1>4, AddsTells DEF Opening
<1>5. CASE m.ev \notin {"REJECT", "OPEN", "CONNECT_REQ", "PENDING"}
  BY <1>5 DEF Opening
<1> QED
  BY <1>1, <1>2, <1>3, <1>4, <1>5

\* A disconnection the application asks for.
LEMMA AskCloseTells ==
  ASSUME NEW b, Tells(b), b.sm \in Conn PROVE Tells(AskClose(b)) /\ PeerShown(AskClose(b))
<1> DEFINE w == Out(b, Msg("CLOSE", None, TRUE))
           v == Show(w, w.peer, "disconnecting")
<1>1. Tells(w) /\ w.sm = b.sm /\ w.peer = b.peer
  BY AddsTells, OutSame DEF Tells, Typed, Same
<1>2. AskClose(b) = v
  BY <1>1 DEF AskClose
<1> HIDE DEF w
<1>3. Typed(v) /\ PeerShown(v) /\ v.sm = b.sm
  BY <1>1, ShowPeer DEF Tells, PeerShown
<1>4. b.sm # "OPENING"
  BY DEF Conn
<1> HIDE DEF v
<1> QED
  BY <1>2, <1>3, <1>4 DEF Tells

\* The handler of OPENED.
LEMMA OpenedStateTells ==
  ASSUME NEW b, Tells(b), b.sm = "OPENED", NEW m PROVE Tells(OpenedState(b, m))
<1>0. Typed(b) /\ PeerShown(b) /\ b.sm \in Conn /\ "STARTED" \in Conn
  BY DEF Tells, Conn
<1>1. CASE m.ev = "START_REQ"
  BY <1>1, AddsTells DEF OpenedState
<1>2. CASE m.ev = "START"
  BY <1>0, <1>2, ToConnTells DEF OpenedState
<1>3. CASE m.ev = "DISCONNECT_REQ"
  BY <1>0, <1>3, AskCloseTells DEF OpenedState
<1>4. CASE m.ev = "CLOSE"
  BY <1>0, <1>4, ClosedTells DEF OpenedState
<1>5. CASE m.ev = "CONNECT_REQ"
  BY <1>5, OtherConnectTells DEF OpenedState
<1>6. CASE m.ev \notin {"START_REQ", "START", "DISCONNECT_REQ", "CLOSE", "CONNECT_REQ"}
  BY <1>6 DEF OpenedState
<1> QED
  BY <1>1, <1>2, <1>3, <1>4, <1>5, <1>6

\* Flags.
LEMMA FlagsTells ==
  ASSUME NEW b, Tells(b), NEW x, NEW y
  PROVE  /\ Tells([b EXCEPT !.lsp = x, !.rs = y]) /\ Tells([b EXCEPT !.rs = x, !.lsp = y])
         /\ Tells([b EXCEPT !.lsp = x]) /\ Tells([b EXCEPT !.rs = x])
         /\ Tells([b EXCEPT !.ongoing = x]) /\ Tells([b EXCEPT !.connq = x])
<1>1. /\ Same([b EXCEPT !.lsp = x, !.rs = y], b) /\ Same([b EXCEPT !.rs = x, !.lsp = y], b)
      /\ Same([b EXCEPT !.lsp = x], b) /\ Same([b EXCEPT !.rs = x], b)
      /\ Same([b EXCEPT !.ongoing = x], b) /\ Same([b EXCEPT !.connq = x], b)
  BY DEF Tells, Typed, Same, IsBtc, Fields
<1> QED
  BY <1>1, SameTells

\* The handler of STARTED.
LEMMA StartedTells ==
  ASSUME NEW b, Tells(b), b.sm = "STARTED", NEW m PROVE Tells(Started(b, m))
<1>0. Typed(b) /\ PeerShown(b) /\ b.sm \in Conn /\ "OPENED" \in Conn /\ "CLOSING" \in Conn
  BY DEF Tells, Conn
<1>1. Tells(To(b, "OPENED"))
  BY <1>0, ToConnTells
<1>2. CASE m.ev = "SUSPEND_REQ"
  <2> DEFINE x == [b EXCEPT !.lsp = TRUE, !.rs = FALSE]
  <2>1. Tells(x)
    BY FlagsTells
  <2>2. Started(b, m) = Out(x, Msg("STOP", None, TRUE))
    BY <1>2 DEF Started
  <2> HIDE DEF x
  <2> QED
    BY <2>1, <2>2, AddsTells
<1>3. CASE m.ev = "DISCONNECT_REQ"
  <2>1. Tells(To(AskClose(b), "CLOSING"))
    BY <1>0, AskCloseTells, ToConnTells DEF Tells
  <2> QED
    BY <1>3, <2>1 DEF Started
<1>4. CASE m.ev \in {"SUSPEND", "SUSPEND_REMOTE"}
  <2> DEFINE v == To(b, "OPENED")
             y == v.rs \/ (m.ev = "SUSPEND_REMOTE" /\ ~b.lsp)
             w == [v EXCEPT !.rs = y, !.lsp = FALSE]
             x == [b EXCEPT !.lsp = FALSE]
  <2>1. Started(b, m) = IF ~m.ok THEN x ELSE w
    BY <1>4 DEF Started
  <2>2. Tells(x)
    BY FlagsTells
  <2>3. Tells(v)
    BY <1>1
  <2> HIDE DEF v, x, y
  <2>4. Tells(w)
    BY <2>3, FlagsTells
  <2> QED
    BY <2>1, <2>2, <2>4
<1>5. CASE m.ev = "STOP"
  BY <1>1, <1>5 DEF Started
<1>6. CASE m.ev = "CLOSE"
  BY <1>0, <1>6, ClosedTells DEF Started
<1>7. CASE m.ev \notin {"SUSPEND_REQ", "DISCONNECT_REQ", "SUSPEND", "SUSPEND_REMOTE", "STOP", "CLOSE"}
  BY <1>7 DEF Started
<1> QED
  BY <1>2, <1>3, <1>4, <1>5, <1>6, <1>7

\* btc_sm_dispatch.
LEMMA DispatchTells ==
  ASSUME NEW b, Tells(b), NEW m \in Messages, NamesDevice(m) PROVE Tells(Dispatch(b, m))
<1>1. Typed(b) /\ b.sm \in States
  BY DEF Tells, Typed
<1>2. CASE b.sm = "none"
  BY <1>2 DEF Dispatch
<1>3. CASE b.sm = "IDLE"
  BY <1>3, IdleTells DEF Dispatch
<1>4. CASE b.sm = "OPENING"
  BY <1>4, OpeningTells DEF Dispatch
<1>5. CASE b.sm = "OPENED"
  BY <1>5, OpenedStateTells DEF Dispatch
<1>6. CASE b.sm = "STARTED"
  BY <1>6, StartedTells DEF Dispatch
<1>7. CASE b.sm = "CLOSING"
  <2>1. Tells(Closing(b, m))
    BY <1>1, BackTells DEF Closing
  <2> QED
    BY <1>7, <2>1 DEF Dispatch
<1> QED
  BY <1>1, <1>2, <1>3, <1>4, <1>5, <1>6, <1>7 DEF States

\* The handler of the BTC task keeps what it tells the application.
LEMMA BtcHandleTells ==
  ASSUME NEW b, Tells(b), NEW m \in Messages, NamesDevice(m) PROVE Tells(BtcHandle(b, m))
<1>1. CASE m.ev = "DEINIT"
  <2> DEFINE v == [b EXCEPT !.ongoing = TRUE]
  <2>1. Tells(v)
    BY FlagsTells
  <2>2. BtcHandle(b, m) = IF b.sm \in {"OPENED", "STARTED"}
                          THEN Out(v, Msg("CLOSE", None, TRUE)) ELSE CleanUp(v)
    BY <1>1 DEF BtcHandle, Deinit
  <2> HIDE DEF v
  <2> QED
    BY <2>1, <2>2, AddsTells, CleanUpTells DEF Tells
<1>2. CASE m.ev = "SINK_CONNECT"
  <2>1. BtcHandle(b, m) = Again(b, Msg("QUE_CONNECT", m.dev, TRUE))
    BY <1>2 DEF BtcHandle
  <2> QED
    BY <2>1, AddsTells
<1>3. CASE m.ev = "QUE_CONNECT"
  <2> DEFINE v == [b EXCEPT !.connq = m.dev]
             n == Msg("CONNECT_REQ", m.dev, TRUE)
  <2>1. m.dev \in Devices /\ "CONNECT_REQ" \in Named
    BY <1>3 DEF Messages, Named
  <2>2. n \in Messages /\ NamesDevice(n)
    BY <2>1, NamedMsg DEF NamesDevice
  <2>3. Tells(v)
    BY FlagsTells
  <2>4. BtcHandle(b, m) = IF b.connq # None THEN b ELSE Dispatch(v, n)
    BY <1>3 DEF BtcHandle, QueConnect
  <2> HIDE DEF v, n
  <2> QED
    BY <2>2, <2>3, <2>4, DispatchTells
<1>4. CASE m.ev = "QUE_ADVANCE"
  BY <1>4, FlagsTells DEF BtcHandle
<1>5. CASE m.ev \in {"CTRL_START", "CTRL_SUSPEND"}
  <2>1. BtcHandle(b, m) \in {b, [b EXCEPT !.rs = FALSE], Again(b, Msg("START_REQ", None, TRUE)),
                             Again(b, Msg("SUSPEND_REQ", None, TRUE))}
    BY <1>5 DEF BtcHandle, MediaCtrl
  <2>2. /\ Tells([b EXCEPT !.rs = FALSE]) /\ Tells(Again(b, Msg("START_REQ", None, TRUE)))
        /\ Tells(Again(b, Msg("SUSPEND_REQ", None, TRUE)))
    BY AddsTells, FlagsTells
  <2> QED
    BY <2>1, <2>2
<1>6. CASE m.ev \notin {"DEINIT", "SINK_CONNECT", "QUE_CONNECT", "QUE_ADVANCE",
                        "CTRL_START", "CTRL_SUSPEND"}
  <2>1. BtcHandle(b, m) = Dispatch(b, m)
    BY <1>6 DEF BtcHandle
  <2> QED
    BY <2>1, DispatchTells
<1> QED
  BY <1>1, <1>2, <1>3, <1>4, <1>5, <1>6

\* The stream knows whom it is open with.
OpenHasPeer == btu.scb.state = "open" => btu.scb.peer # None

OpensNamed(q) == \A i \in DOMAIN q : NamesDevice(q[i])
ShownInv == Tells(btc) /\ OpensNamed(btcq)

\* Queues are joined, and a message is taken.
LEMMA NamedParts ==
  ASSUME NEW s \in Seq(Messages), NEW t \in Seq(Messages), OpensNamed(s), OpensNamed(t)
  PROVE  /\ OpensNamed(s \o t)
         /\ s # << >> => NamesDevice(Head(s)) /\ OpensNamed(Tail(s))
<1>1. OpensNamed(s \o t)
  <2> SUFFICES ASSUME NEW i \in DOMAIN (s \o t) PROVE NamesDevice((s \o t)[i])
    BY DEF OpensNamed
  <2>1. i \in Nat /\ Len(s) \in Nat
    OBVIOUS
  <2>2. CASE i <= Len(s)
    <3>1. i \in DOMAIN s /\ (s \o t)[i] = s[i]
      BY <2>2
    <3> QED
      BY <3>1 DEF OpensNamed
  <2>3. CASE i > Len(s)
    <3> DEFINE j == i - Len(s)
    <3>1. j \in 1..Len(t) /\ Len(s) + j = i
      BY <2>3
    <3> HIDE DEF j
    <3>2. j \in DOMAIN t /\ (s \o t)[Len(s) + j] = t[j]
      BY <3>1
    <3> QED
      BY <3>1, <3>2 DEF OpensNamed
  <2> QED
    BY <2>1, <2>2, <2>3
<1>2. ASSUME s # << >> PROVE NamesDevice(Head(s)) /\ OpensNamed(Tail(s))
  <2>1. 1 \in DOMAIN s /\ Head(s) = s[1]
    BY <1>2
  <2>2. \A i \in DOMAIN Tail(s) : i + 1 \in DOMAIN s /\ Tail(s)[i] = s[i + 1]
    BY <1>2
  <2> QED
    BY <2>1, <2>2 DEF OpensNamed
<1> QED
  BY <1>1, <1>2

\* A handler of the BTU task names the device of a stream it reports open.
LEMMA BtuNames ==
  ASSUME TasksInv, BtuStep \/ Stirs PROVE \E v : Ends(v) /\ BtuInv(v) /\ Names(v)
<1>0. NoOpen(<< >>) /\ btu.evts = << >>
  BY DEF NoOpen, TasksInv, DataInv
<1>1. CASE Stirs
  BY <1>0, <1>1 DEF Stirs, Stirred, Steps, Handled
<1>2. CASE BtuStep
  <2> DEFINE m == Head(btu.q)
             u == [btu EXCEPT !.q = Tail(btu.q)]
  <2>1. btu.q # << >> /\ Ends(Handle(u, m))
    BY <1>2 DEF BtuStep
  <2>2. BtuInv(btu) /\ btu.q \in Seq(Messages)
    BY DEF TasksInv, DataInv, BtuInv, BtuTyped
  <2>3. m \in Messages /\ Tail(btu.q) \in Seq(Messages)
    BY <2>1, <2>2, TailParts
  <2>4. BtuInv(u) /\ u.evts = << >>
    BY <1>0, <2>2, <2>3, QueueFields
  <2> HIDE DEF u, m
  <2>5. Handled(Handle(u, m), u)
    BY <2>3, <2>4, HandleSteps
  <2> QED
    BY <1>0, <2>1, <2>4, <2>5 DEF Handled
<1> QED
  BY <1>1, <1>2

\* The BTU task and what reaches it from below.
LEMMA BtuShows ==
  ASSUME TasksInv, ShownInv, OpenHasPeer', BtuStep \/ Stirs PROVE ShownInv'
<1>1. PICK v : Ends(v) /\ BtuInv(v) /\ Names(v)
  BY BtuNames
<1>2. /\ btu' = [v EXCEPT !.evts = << >>] /\ btcq' = btcq \o v.evts /\ btc' = btc
      /\ v.evts \in Seq(Messages) /\ btcq \in Seq(Messages) /\ v.scb.peer \in Peers
  BY <1>1 DEF Ends, BtuInv, BtuTyped, TasksInv, DataInv
<1>3. btu'.scb = v.scb
  BY <1>1, <1>2, EmptyParts, QueueFields
<1>4. OpensNamed(v.evts)
  BY <1>1, <1>2, <1>3 DEF Names, OpenHasPeer, OpensNamed, NamesDevice, Peers
<1> QED
  BY <1>2, <1>4, NamedParts DEF ShownInv

\* The BTC task.
LEMMA BtcShows == ASSUME TasksInv, ShownInv, BtcStep PROVE ShownInv'
<1> DEFINE m == Head(btcq)
           b == BtcHandle(btc, m)
<1>1. btcq # << >> /\ btc' = [b EXCEPT !.out = << >>, !.post = << >>] /\ btcq' = Tail(btcq) \o b.post
  BY DEF BtcStep
<1>2. BtcTyped(btc) /\ btc.post = << >> /\ btcq \in Seq(Messages) /\ OpensNamed(btcq) /\ Tells(btc)
  BY DEF TasksInv, DataInv, ShownInv
<1>3. m \in Messages /\ Tail(btcq) \in Seq(Messages) /\ NamesDevice(m) /\ OpensNamed(Tail(btcq))
  BY <1>1, <1>2, TailParts, NamedParts
<1> HIDE DEF m
<1>4. Serves(b, btc, m) /\ Tells(b)
  BY <1>2, <1>3, BtcHandleServes, BtcHandleTells
<1> HIDE DEF b
<1>5. b.post \in Seq(Messages) /\ NoOpen(b.post)
  BY <1>2, <1>4 DEF Serves, Acts, BtcTyped, NoOpen
<1>6. OpensNamed(b.post)
  BY <1>5 DEF NoOpen, OpensNamed, NamesDevice
<1>7. OpensNamed(btcq')
  BY <1>1, <1>3, <1>5, <1>6, NamedParts
<1>8. Same(btc', b)
  BY <1>1, <1>4 DEF Tells, Typed, IsBtc, Fields, Same
<1>9. Tells(btc')
  BY <1>4, <1>8, SameTells
<1> QED
  BY <1>7, <1>9 DEF ShownInv

\* The application sends no OPEN.
LEMMA CallsShow ==
  ASSUME TasksInv, ShownInv, NEW m \in Messages, m.ev # "OPEN", Call(m) PROVE ShownInv'
<1>1. btcq' = Append(btcq, m) /\ btc' = btc /\ btcq \in Seq(Messages)
  BY DEF Call, TasksInv, DataInv
<1>2. Append(btcq, m) = btcq \o << m >> /\ << m >> \in Seq(Messages) /\ OpensNamed(<< m >>)
  BY <1>1 DEF OpensNamed, NamesDevice, IsOpen
<1> QED
  BY <1>1, <1>2, NamedParts DEF ShownInv

\* Every step after which an open stream has a peer.
LEMMA NextShows == TasksInv /\ ShownInv /\ OpenHasPeer' /\ [Next]_vars => ShownInv'
<1> SUFFICES ASSUME TasksInv, ShownInv, OpenHasPeer', [Next]_vars PROVE ShownInv'
  OBVIOUS
<1>0. BtuInv(btu)
  BY DEF TasksInv, DataInv
<1>1. CASE BtcStep
  BY <1>1, BtcShows
<1>2. CASE BtuStep
  BY <1>2, BtuShows
<1>3. CASE \E d \in Devices : \/ PeerConnects(d) \/ LinkOpens(d) \/ LinkLost(d)
                              \/ LinkCloses(d) \/ IdleTimeout(d)
  BY <1>0, <1>3, ChannelsStir, BtuShows
<1>4. CASE \E ok \in BOOLEAN : SdpDone(ok)
  BY <1>0, <1>4, SdpStirs, BtuShows
<1>5. CASE \E d \in Devices, ok \in BOOLEAN :
             Discovered(d, ok) \/ OpenAnswered(d, ok) \/ StreamAnswered(d, ok)
  BY <1>0, <1>5, AnswersStir, BtuShows
<1>6. CASE \/ \E ok \in BOOLEAN : MediaOpens(ok)
           \/ PeerOpens \/ PeerStarts \/ PeerSuspends \/ PeerCloses
  BY <1>0, <1>6, MediaStirs, BtuShows
<1>7. CASE StreamCloses
  BY <1>0, <1>7, StreamClosesStirs, BtuShows
<1>8. CASE \E d \in Devices, ok \in BOOLEAN : PeerConfigures(d, ok)
  BY <1>0, <1>8, PeerConfiguresStirs, BtuShows
<1>9. CASE SigTimerFires \/ AcpTimerFires \/ CloseTimerFires
  BY <1>0, <1>9, TimersStir, BtuShows
<1>10. CASE \/ \E d \in Devices : AppConnects(d) \/ AppDisconnects(d)
            \/ AppStarts \/ AppSuspends \/ AppDeinits
  BY <1>10, CalledMessages, CallsShow
     DEF AppConnects, AppDisconnects, AppStarts, AppSuspends, AppDeinits
<1>11. CASE UNCHANGED vars
  BY <1>11 DEF vars, ShownInv
<1> QED
  BY <1>1, <1>2, <1>3, <1>4, <1>5, <1>6, <1>7, <1>8, <1>9, <1>10, <1>11 DEF Next

\* IDLE holds no connection.
LEMMA InitShows == Init => ShownInv
<1> SUFFICES ASSUME Init PROVE ShownInv
  OBVIOUS
<1>1. TasksInv /\ btcq = << >>
  BY InitTasks DEF Init
<1>2. Typed(btc)
  BY <1>1 DEF TasksInv, DataInv, BtcTyped
<1> DEFINE x == [NullBtc EXCEPT !.sm = "IDLE", !.peer = None, !.lsp = FALSE, !.rs = FALSE]
<1>3. btc.sm = "IDLE"
  <2> DEFINE m == Msg("REG", None, TRUE)
             y == [x EXCEPT !.init = TRUE, !.deinit = FALSE, !.ongoing = FALSE]
             z == [y EXCEPT !.out = Append(y.out, m)]
  <2>1. Fields \subseteq DOMAIN NullBtc /\ NullBtc.sm = "none"
    BY DEF NullBtc, Fields
  <2>2. To(NullBtc, "IDLE") = x
    BY DEF To
  <2>3. Fields \subseteq DOMAIN x /\ x.sm = "IDLE"
    BY <2>1 DEF Fields
  <2> HIDE DEF x
  <2>4. SinkInit(NullBtc) = z
    BY <2>1, <2>2 DEF SinkInit, Out
  <2>5. Fields \subseteq DOMAIN z /\ z.sm = "IDLE"
    BY <2>3 DEF Fields
  <2> HIDE DEF z
  <2>6. btc = [z EXCEPT !.out = << >>]
    BY <2>4 DEF Init
  <2> QED
    BY <2>5, <2>6 DEF Fields
<1> QED
  BY <1>1, <1>2, <1>3 DEF ShownInv, Tells, OpensNamed, Conn

\* A configuration awaited in a queue: messages join it behind, and the first
\* may be the configuration itself.
LEMMA AwaitedParts ==
  ASSUME NEW s \in Seq(Messages), NEW t \in Seq(Messages), Awaited(s)
  PROVE  /\ Awaited(s \o t)
         /\ s # << >>
         /\ Head(s).ev = "CONFIG_IND" \/ (Head(s).ev # "OPEN_OK" /\ Awaited(Tail(s)))
<1>1. PICK i \in DOMAIN s : /\ s[i].ev = "CONFIG_IND"
                            /\ \A j \in DOMAIN s : j < i => s[j].ev # "OPEN_OK"
  BY DEF Awaited
<1>2. Awaited(s \o t)
  <2>1. /\ i \in DOMAIN (s \o t) /\ (s \o t)[i] = s[i]
        /\ \A j \in DOMAIN (s \o t) : j < i => j \in DOMAIN s /\ (s \o t)[j] = s[j]
    OBVIOUS
  <2> QED
    BY <1>1, <2>1 DEF Awaited
<1>3. s # << >> /\ 1 \in DOMAIN s /\ Head(s) = s[1]
  OBVIOUS
<1>4. CASE i = 1
  BY <1>1, <1>2, <1>3, <1>4
<1>5. CASE i # 1
  <2>1. Head(s).ev # "OPEN_OK"
    BY <1>1, <1>3, <1>5
  <2>2. /\ i - 1 \in DOMAIN Tail(s) /\ Tail(s)[i - 1] = s[i]
        /\ \A j \in DOMAIN Tail(s) : j < i - 1 => j + 1 \in DOMAIN s /\ j + 1 < i /\ Tail(s)[j] = s[j + 1]
    BY <1>3, <1>5
  <2>3. Awaited(Tail(s))
    BY <1>1, <2>2 DEF Awaited
  <2> QED
    BY <1>2, <1>3, <2>1, <2>3
<1> QED
  BY <1>4, <1>5

\* What ends with events for BTC leaves the queue and the stream as they are.
LEMMA EndsPeered == ASSUME NEW v, BtuInv(v), Peered(v), Ends(v) PROVE Peered(btu)'
<1>1. btu'.q = v.q /\ btu'.scb = v.scb
  BY DEF Ends, BtuInv, BtuTyped, IsBtu, BtuFields
<1> QED
  BY <1>1 DEF Peered

\* The BTU task handles a message.
LEMMA BtuStepPeered == ASSUME TasksInv, Peered(btu), BtuStep PROVE Peered(btu)'
<1> DEFINE m == Head(btu.q)
           u == [btu EXCEPT !.q = Tail(btu.q)]
<1>1. btu.q # << >> /\ Ends(Handle(u, m))
  BY DEF BtuStep
<1>2. BtuInv(btu) /\ btu.evts = << >> /\ btu.q \in Seq(Messages)
  BY DEF TasksInv, DataInv, BtuInv, BtuTyped
<1>3. m \in Messages /\ Tail(btu.q) \in Seq(Messages)
  BY <1>1, <1>2, TailParts
<1>4. BtuInv(u) /\ u.q = Tail(btu.q) /\ u.scb = btu.scb
  BY <1>2, <1>3, QueueFields
<1>5. Awaited(btu.q) => m.ev = "CONFIG_IND" \/ (m.ev # "OPEN_OK" /\ Awaited(Tail(btu.q)))
  BY <1>2, AwaitedParts
<1> HIDE DEF u, m
<1>6. Meets(u, m)
  BY <1>4, <1>5 DEF Peered, Meets
<1>7. Peered(Handle(u, m)) /\ BtuInv(Handle(u, m))
  BY <1>3, <1>4, <1>6, HandlePeered, HandleSteps DEF Handled
<1> QED
  BY <1>1, <1>7, EndsPeered

\* The BTC task only sends BTU messages.
LEMMA BtcStepPeered == ASSUME TasksInv, Peered(btu), BtcStep PROVE Peered(btu)'
<1> DEFINE b == BtcHandle(btc, Head(btcq))
<1>1. btcq # << >> /\ btu' = [btu EXCEPT !.q = btu.q \o b.out]
  BY DEF BtcStep
<1>2. /\ BtcTyped(btc) /\ btc.post = << >> /\ btcq \in Seq(Messages)
      /\ BtuInv(btu) /\ btu.q \in Seq(Messages)
  BY DEF TasksInv, DataInv, BtuInv, BtuTyped
<1>3. Serves(b, btc, Head(btcq))
  BY <1>1, <1>2, TailParts, BtcHandleServes
<1> HIDE DEF b
<1>4. b.out \in Seq(Messages)
  BY <1>3 DEF Serves, Acts, BtcTyped
<1>5. btu'.q = btu.q \o b.out /\ btu'.scb = btu.scb
  BY <1>1, <1>2 DEF BtuInv, BtuTyped, IsBtu, BtuFields
<1> QED
  BY <1>2, <1>4, <1>5, AwaitedParts DEF Peered

\* Something reaches the BTU task from below.
LEMMA StirsPeered == ASSUME Peered(btu), InOrder, Stirs PROVE Peered(btu)'
BY EndsPeered DEF Stirs, Stirred, Steps, Handled

\* Every step in which SETCONFIG overtakes no OPEN_OK.
LEMMA NextPeered == TasksInv /\ Peered(btu) /\ [InOrder]_vars /\ [Next]_vars => Peered(btu)'
<1> SUFFICES ASSUME TasksInv, Peered(btu), [InOrder]_vars, [Next]_vars PROVE Peered(btu)'
  OBVIOUS
<1>0. BtuInv(btu)
  BY DEF TasksInv, DataInv
<1>1. CASE UNCHANGED vars
  BY <1>1 DEF vars, Peered
<1>2. CASE InOrder /\ BtcStep
  BY <1>2, BtcStepPeered
<1>3. CASE InOrder /\ BtuStep
  BY <1>3, BtuStepPeered
<1>4. CASE InOrder /\ \E d \in Devices : \/ PeerConnects(d) \/ LinkOpens(d) \/ LinkLost(d)
                                         \/ LinkCloses(d) \/ IdleTimeout(d)
  BY <1>0, <1>4, ChannelsStir, StirsPeered
<1>5. CASE InOrder /\ \E ok \in BOOLEAN : SdpDone(ok)
  BY <1>0, <1>5, SdpStirs, StirsPeered
<1>6. CASE InOrder /\ \E d \in Devices, ok \in BOOLEAN :
             Discovered(d, ok) \/ OpenAnswered(d, ok) \/ StreamAnswered(d, ok)
  BY <1>0, <1>6, AnswersStir, StirsPeered
<1>7. CASE InOrder /\ (\/ \E ok \in BOOLEAN : MediaOpens(ok)
                       \/ PeerOpens \/ PeerStarts \/ PeerSuspends \/ PeerCloses)
  BY <1>0, <1>7, MediaStirs, StirsPeered
<1>8. CASE InOrder /\ StreamCloses
  BY <1>0, <1>8, StreamClosesStirs, StirsPeered
<1>9. CASE InOrder /\ \E d \in Devices, ok \in BOOLEAN : PeerConfigures(d, ok)
  BY <1>0, <1>9, PeerConfiguresStirs, StirsPeered
<1>10. CASE InOrder /\ (SigTimerFires \/ AcpTimerFires \/ CloseTimerFires)
  BY <1>0, <1>10, TimersStir, StirsPeered
<1>11. CASE \/ \E d \in Devices : AppConnects(d) \/ AppDisconnects(d)
            \/ AppStarts \/ AppSuspends \/ AppDeinits
  BY <1>11 DEF AppConnects, AppDisconnects, AppStarts, AppSuspends, AppDeinits, Call, Peered
<1> QED
  BY <1>1, <1>2, <1>3, <1>4, <1>5, <1>6, <1>7, <1>8, <1>9, <1>10, <1>11 DEF Next

\* There is no stream yet.
LEMMA InitPeered == Init => Peered(btu)
BY AwayPeered DEF Init, InitBtu, NoScb

\* An open stream has a peer_addr, with any number of devices, calls and actions of
\* the peers, as long as SETCONFIG does not overtake OPEN_OK: bta_av_config_ind,
\* bta_av_sig_chg and bta_av_do_disc_a2d save it before bta_av_str_opened can read it.
THEOREM OpenIsPeered == Spec /\ [][InOrder]_vars => []OpenHasPeer
<1>1. Peered(btu) => OpenHasPeer
  BY DEF Peered, OpenHasPeer
<1> QED
  BY <1>1, InitPeered, NextPeered, InitTasks, NextTasks, PTL DEF Spec

\* With one device about, the connection of an open stream is shown to the
\* application: peer_addr of bta_av_scb is what bta_av_str_opened puts into the OPEN
\* event, and BTC shows no device for an event without one.
THEOREM OpenIsShown ==
  ASSUME NEW x, Devices = {x} PROVE Spec /\ [][InOrder]_vars => []StreamIsShown
<1>1. TasksInv /\ ShownInv /\ OpenHasPeer => StreamIsShown
  <2> SUFFICES ASSUME TasksInv, ShownInv, OpenHasPeer, Quiet, btu.scb.state = "open"
               PROVE  btc.shown[btu.scb.peer] \in {"connected", "disconnecting"}
    BY DEF StreamIsShown
  <2>1. PeerShown(btc)
    BY OpenKnown DEF ShownInv, Tells, Quiet
  <2>2. btu.scb.peer \in Peers /\ btu.scb.peer # None
    BY DEF TasksInv, DataInv, BtuInv, BtuTyped, OpenHasPeer
  <2> QED
    BY <2>1, <2>2 DEF PeerShown, Peers
<1> QED
  BY <1>1, OpenIsPeered, InitShows, InitTasks, NextShows, NextTasks, PTL DEF Spec
==============================================================================
