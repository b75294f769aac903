---------------------------- MODULE ClientMachine ----------------------------
(***************************************************************************)
(* The statechart that runs a client session (class ClientMachine):        *)
(* creating a session, binding it over WebSocket or HTTP, streaming or     *)
(* polling, losing and recovering it, retrying, switching transport,       *)
(* constraining bandwidth, sending reverse heartbeats, slowing down, and   *)
(* reacting to the network and to the life of a web page.                  *)
(*                                                                         *)
(* Every handler of the code runs under the lock of the client, from the   *)
(* event to the end, so it is one atomic step here.  The whole state is    *)
(* the record c.                                                           *)
(*                                                                         *)
(* The server is trusted to follow the protocol: a notification comes only *)
(* over an open connection that is bound, a reply only to a request that   *)
(* was sent.  When, and whether, anything comes is left open.              *)
(*                                                                         *)
(* Left to other modules: subscriptions and messages, whose requests share *)
(* the control channel, and the data lines with their counters (Recovery). *)
(***************************************************************************)
EXTENDS ClientState

VARIABLE c

Init ==
    \E forced \in Forced, bandwidth \in Bandwidths, heartbeat \in Heartbeats :
        c = [ m |-> 100, du |-> 20, tr |-> None, w_k |-> None,
              ws_m |-> None, ws_k |-> None, wp_m |-> None, wp_p |-> None,
              h |-> None, hs_m |-> None, hs_p |-> None, hs_k |-> None,
              hp_m |-> None, rec |-> None, ctrl |-> None, swt |-> None,
              bw |-> None, rhb |-> None, slw |-> None, nr |-> 1400,
              timers |-> {}, stray |-> {}, conns |-> {}, orphans |-> {},
              status |-> DISCONNECTED, sid |-> FALSE,
              suspended |-> FALSE, disabled |-> {},
              forced |-> forced, bwOpt |-> bandwidth, rhbOpt |-> heartbeat,
              bwReq |-> None, unmanaged |-> FALSE, bwAck |-> "none",
              swtAck |-> "none", excused |-> FALSE,
              rhbGranted |-> FALSE, attempts |-> 0, addressKnown |-> FALSE,
              installed |-> FALSE, frozen |-> FALSE, failed |-> FALSE ]

-----------------------------------------------------------------------------
(* Creating a session, and trying again after a failure. *)

evtSelectCreate(k) ==
    CASE getBestForCreating(k) = "ws" ->
             Schedule(evtCreate([Open(k, "ws") EXCEPT
                 !.status = CONNECTING, !.m = 120]), "transport")
      [] getBestForCreating(k) = "http" ->
             Schedule(evtCreate([Open(k, "http") EXCEPT
                 !.status = CONNECTING, !.m = 130, !.bwReq = k.bwOpt]), "transport")
      [] OTHER -> Terminate(k)

sendCreateTTL(k) ==
    Schedule(evtCreate([Open(k, "http") EXCEPT
        !.status = CONNECTING, !.m = 140, !.bwReq = k.bwOpt]), "transport")

(* Fault: the listener is not told that the session is lost. *)
EnterRetry_Silent(k, s) == Schedule(evtRetry(goto_m_from_session(k, s)), "retry")

EnterRetry(k, s) ==
    Schedule(evtRetry([goto_m_from_session(k, s) EXCEPT !.status = WILL_RETRY]), "retry")

(* s110: the server is too busy, so a session that may wait is asked for.  *)
RetryTTL(k) ==
    sendCreateTTL(evtRetry([goto_m_from_session(k, 110) EXCEPT !.status = WILL_RETRY]))

(* s115: WebSockets do not work here; HTTP is tried at once.               *)
RetryWithoutWS(k) == evtSelectCreate(evtRetry(TearDown(suspendWS_Streaming(k))))

-----------------------------------------------------------------------------
(* Recovering a session. *)

entry_rec(k) ==
    Schedule([k EXCEPT !.status = TRYING_RECOVERY, !.tr = 260, !.rec = 1000,
                       !.attempts = 0], "recovery")

LoseSession(k, s) ==
    IF SessionRecovery THEN entry_rec(Leave(k)) ELSE EnterRetry(Leave(k), s)

(* Without a session id, encoding the request throws.                      *)
sendRecovery(k) ==
    Schedule([Open(k, "http") EXCEPT !.rec = 1001, !.attempts = @ + 1], "transport")

(* Fault: the next attempt is never scheduled. *)
evtCheckRecoveryTimeout_NoTimer(k, again) ==
    IF again
      THEN [Cancel(disposeHTTP(k), {"transport"}) EXCEPT !.rec = 1003]
      ELSE EnterRetry(Leave(k), 113)

(* again: the time given to recovery is not over yet.                      *)
evtCheckRecoveryTimeout(k, again) ==
    IF again
      THEN Schedule([Cancel(disposeHTTP(k), {"transport"}) EXCEPT !.rec = 1003], "retry")
      ELSE EnterRetry(Leave(k), 113)

(* The choices there are: time passes, and it is long enough for some      *)
(* attempts but not for ever.                                              *)
Again(k) == {b \in BOOLEAN : b => k.attempts < MaxRecoveryAttempts}

-----------------------------------------------------------------------------
(* Binding the session to the best transport. *)

openWS_Bind(k, best) ==
    LET k1 == Open(k, "ws")
    IN Schedule(IF best = "WS_STREAMING" THEN [k1 EXCEPT !.tr = 240, !.ws_m = 500]
                                         ELSE [k1 EXCEPT !.tr = 250, !.wp_m = 600],
                "transport")

(* The control channel starts when the session comes from outside s270.    *)
StartCtrl(k, from) ==
    IF from = 200 THEN evtCheckCtrlRequests([k EXCEPT !.ctrl = 1100]) ELSE k

sendBindHTTP_Streaming(k) ==
    Schedule(StartCtrl([Open(k, "http") EXCEPT
        !.tr = 270, !.h = 710, !.hs_m = 800, !.hs_p = None, !.hs_k = None,
        !.rhbGranted = k.rhbOpt], k.tr), "transport")

sendBindHTTP_Polling(k) ==
    evtSelectRhb(Schedule(StartCtrl([Open(k, "http") EXCEPT
        !.tr = 270, !.h = 720, !.hp_m = 900, !.rhb = 320,
        !.rhbGranted = FALSE], k.tr), "idle"))

(* From s811 or s904 to the same kind of HTTP transport, the region is not *)
(* cleared, and in both the control channel goes on.                       *)
forwardToTransportRegion(k) ==
    LET best == getBestForBinding(k)
        left == CASE k.hs_p = 811 /\ best = "HTTP_STREAMING" -> exit_hs(k)
                  [] k.hs_p = 811 /\ best # "HTTP_STREAMING" -> exit_hs(clear_hs(k))
                  [] k.hp_m = 904 /\ best = "HTTP_POLLING"   -> exit_hp(k)
                  [] k.hp_m = 904 /\ best # "HTTP_POLLING"   -> exit_hp(clear_hp(k))
                  [] OTHER -> k
    IN CASE best = "none"           -> Terminate(k)
         [] best = "HTTP_STREAMING" -> sendBindHTTP_Streaming(left)
         [] best = "HTTP_POLLING"   -> sendBindHTTP_Polling(left)
         [] OTHER -> openWS_Bind(IF k.tr = 270 THEN exit_ctrl(clear_ctrl(left)) ELSE left, best)

evtSwitchTransport(k) ==
    IF isSwitching(k) THEN evtCheckTransport(forwardToTransportRegion([k EXCEPT !.swt = 1300]))
                      ELSE forwardToTransportRegion(k)

Rebind(k) == evtSwitchTransport([Leave(k) EXCEPT !.tr = 200])

-----------------------------------------------------------------------------
(* Timeouts. *)

(* A timer that goes off, the hidden ones included, is no longer armed.    *)
Fired(t) == {[c EXCEPT !.timers = @ \ {x}] : x \in c.timers \cap {t}}
            \cup {[c EXCEPT !.stray = @ \ {x}] : x \in c.stray \cap {t}}

evtTransportTimeout(k, again) ==
    CASE k.m \in {120, 121}      -> RetryWithoutWS(k)
      [] k.m \in {122, 130}      -> EnterRetry(TearDown(k), 112)
      [] k.m = 140               -> EnterRetry(TearDown(k), 111)
      [] k.tr \in {220, 230}     -> LoseSession(k, 112)
      [] k.ws_m = 500            -> Rebind(disableWS(k))
      [] k.ws_m = 501            -> LoseSession(disableWS(k), 112)
      [] k.ws_m = 502            -> LoseSession(k, 112)
      [] k.wp_m \in {600, 601}   -> Rebind(disableWS(k))
      [] k.tr = 260 /\ k.rec = 1001 -> evtCheckRecoveryTimeout(k, again)
      [] k.hs_m = 800            ->
             Schedule(RecheckTransport(Cancel(
                 [disableHTTP_Streaming(k) EXCEPT !.hs_m = 801], {"transport"})), "transport")
      [] k.hs_m = 801            -> LoseSession(k, 112)
      [] OTHER                   -> k

TransportTimeout ==
    \E k \in Fired("transport") : \E again \in Again(k) : c' = evtTransportTimeout(k, again)

evtIdleTimeout(k) ==
    CASE k.wp_p \in {610, 611, 613} -> LoseSession(k, 113)
      [] k.hp_m \in {900, 901, 903} -> LoseSession(k, 112)
      [] OTHER -> k

IdleTimeout == \E k \in Fired("idle") : c' = evtIdleTimeout(k)

evtPollingTimeout(k) ==
    CASE k.wp_p = 612 ->
             Schedule(Cancel([k EXCEPT !.wp_p = 613], {"polling"}), "idle")
      [] k.hp_m = 902 ->
             Schedule(Cancel([Open(k, "http") EXCEPT !.hp_m = 903, !.rhbGranted = FALSE],
                             {"polling"}), "idle")
      [] OTHER -> k

PollingTimeout == \E k \in Fired("polling") : c' = evtPollingTimeout(k)

(* The keepalive unit is in the same state s of whichever transport streams. *)
SetKeepalive(k, s) ==
    CASE k.w_k # None  -> [k EXCEPT !.w_k = 310 + s]
      [] k.ws_k # None -> [k EXCEPT !.ws_k = 520 + s]
      [] k.hs_k # None -> [k EXCEPT !.hs_k = 820 + s]
      [] OTHER -> k

KeepaliveIn(k, s) == k.w_k = 310 + s \/ k.ws_k = 520 + s \/ k.hs_k = 820 + s

evtRestartKeepalive(k) ==
    IF \E s \in 0..2 : KeepaliveIn(k, s)
      THEN Schedule(Cancel(SetKeepalive(k, 0), KeepaliveUnit), "keepalive")
      ELSE k

evtKeepaliveTimeout(k) ==
    IF KeepaliveIn(k, 0) THEN Schedule(Cancel(SetKeepalive(k, 1), {"keepalive"}), "stalled")
                         ELSE k

evtStalledTimeout(k) ==
    IF KeepaliveIn(k, 1) THEN Schedule(Cancel(SetKeepalive(k, 2), {"stalled"}), "reconnect")
                         ELSE k

evtReconnectTimeout(k) == IF KeepaliveIn(k, 2) THEN LoseSession(k, 113) ELSE k

KeepaliveTimeout == \E k \in Fired("keepalive") : c' = evtKeepaliveTimeout(k)
StalledTimeout == \E k \in Fired("stalled") : c' = evtStalledTimeout(k)
ReconnectTimeout == \E k \in Fired("reconnect") : c' = evtReconnectTimeout(k)

evtRhbTimeout(k) ==
    IF k.rhb \in {322, 323} THEN evtSendHeartbeat(Cancel([k EXCEPT !.rhb = 324], {"rhb"})) ELSE k

RhbTimeout == \E k \in Fired("rhb") : c' = evtRhbTimeout(k)

evtRecoveryTimeout(k) ==
    IF k.rec = 1000 THEN sendRecovery(Cancel(k, {"recovery"})) ELSE k

RecoveryTimeout == \E k \in Fired("recovery") : c' = evtRecoveryTimeout(k)

evtRetryTimeout(k) ==
    CASE k.m \in {112, 113} -> evtSelectCreate(Cancel(k, {"retry"}))
      [] k.m = 111          -> sendCreateTTL(Cancel(k, {"retry"}))
      [] k.m = 150 /\ k.rec = 1003 -> sendRecovery(Cancel(k, {"retry"}))
      [] OTHER -> k

RetryTimeout == \E k \in Fired("retry") : c' = evtRetryTimeout(k)

CtrlPause(k) == Schedule(Cancel([disposeCtrl(k) EXCEPT !.ctrl = 1103], {"ctrl"}), "ctrl")

evtCtrlTimeout(k) ==
    CASE k.ctrl = 1102 -> CtrlPause(k)
      [] k.ctrl = 1103 -> evtCheckCtrlRequests(Cancel([k EXCEPT !.ctrl = 1100], {"ctrl"}))
      [] OTHER -> k

CtrlTimeout == \E k \in Fired("ctrl") : c' = evtCtrlTimeout(k)

-----------------------------------------------------------------------------
(* Lines of the server. *)

Receiving == c.conns \cap {"ws", "http"} # {}

evtWSOpen(k) ==
    CASE k.m = 120    -> [k EXCEPT !.m = 121, !.rhbGranted = k.rhbOpt, !.bwReq = k.bwOpt]
      [] k.ws_m = 500 -> [k EXCEPT !.ws_m = 501, !.rhbGranted = k.rhbOpt]
      [] k.wp_m = 600 -> [k EXCEPT !.wp_m = 601]

WSOpen == "ws" \in c.conns /\ (c.m = 120 \/ c.ws_m = 500 \/ c.wp_m = 600) /\ c' = evtWSOpen(c)

evtWSOK(k) ==
    CASE k.m = 121    -> [k EXCEPT !.m = 122]
      [] k.ws_m = 501 -> [k EXCEPT !.ws_m = 502]
      [] k.wp_m = 601 -> Schedule(evtSendPendingControls(Cancel(
             [k EXCEPT !.wp_m = 602, !.wp_p = 610], {"transport"})), "idle")

WSOK == "ws" \in c.conns /\ (c.m = 121 \/ c.ws_m = 501 \/ c.wp_m = 601) /\ c' = evtWSOK(c)

(* The first CONOK, of a session just created. *)
CONOK_Create(k) ==
    LET fresh == [Cancel(k, {"transport"}) EXCEPT
                     !.sid = TRUE, !.m = 150, !.swt = 1300, !.bw = 1200]
        ws == [fresh EXCEPT !.status = WS_STREAMING, !.tr = 210, !.w_k = 310,
                            !.rhb = 320, !.slw = 330]
        http == [fresh EXCEPT !.status = STREAM_SENSING, !.tr = IF k.m = 130 THEN 220 ELSE 230]
        started == IF k.m = 122
            THEN evtSelectRhb(Schedule(evtStartSession(evtSendPendingControls(ws)), "keepalive"))
            ELSE Schedule(evtStartSession(http), "transport")
    IN evtCheckBW(evtCheckTransport(started))

(* The CONOK of a connection that the session is bound to. *)
CONOK_Bind(k) ==
    CASE k.ws_m = 502 ->
             evtSelectRhb(Schedule(evtSendPendingControls(Cancel(
                 [k EXCEPT !.status = WS_STREAMING, !.ws_m = 503, !.ws_k = 520,
                           !.rhb = 320, !.slw = 330], {"transport"})), "keepalive"))
      [] k.hs_m \in {800, 801} ->
             evtSelectRhb(Schedule(Cancel(
                 [k EXCEPT !.status = HTTP_STREAMING, !.hs_m = 802, !.hs_p = 810,
                           !.hs_k = 820, !.rhb = 320, !.slw = 330], {"transport"}), "keepalive"))
      [] k.wp_p = 610 -> [k EXCEPT !.status = WS_POLLING, !.wp_p = 611]
      [] k.wp_p = 613 -> [k EXCEPT !.wp_p = 611]
      [] k.hp_m = 900 -> [k EXCEPT !.status = HTTP_POLLING, !.hp_m = 901]
      [] k.hp_m = 903 -> [k EXCEPT !.hp_m = 901]

Creating(k) == k.m \in {122, 130, 140}
Binding(k) == k.ws_m = 502 \/ k.hs_m \in {800, 801} \/ k.wp_p \in {610, 613}
                           \/ k.hp_m \in {900, 903}

(* The server answers a recovery only where one was asked for. *)
Recovering(k) == k.tr = 260 /\ k.rec = 1001

CONOK ==
    /\ Receiving
    /\ \/ Creating(c) /\ c' = CONOK_Create(c)
       \/ Binding(c) /\ c' = CONOK_Bind(c)

(* The request is refused: for now, because the server is busy, or for good. *)
CONERR ==
    /\ Receiving
    /\ \/ Creating(c) /\ c' \in {EnterRetry(TearDown(c), 112), RetryTTL(TearDown(c)), Terminate(c)}
       \/ Binding(c) /\ c' \in {EnterRetry(Leave(c), 112), Terminate(c)}
       \/ Recovering(c) /\ c' \in {EnterRetry(Leave(c), 113), Terminate(c)}

(* s300, s510, s611, s810, s901: the stream connection is bound.           *)
Bound(k) == k.w_k # None \/ k.ws_m = 503 \/ k.wp_p = 611 \/ k.hs_p = 810 \/ k.hp_m = 901

(* The server ends the session, and a new one may or may not be created.   *)
END ==
    /\ Receiving
    /\ \/ Binding(c) /\ c' \in {EnterRetry(Leave(c), 112), Terminate(c)}
       \/ (Bound(c) \/ Recovering(c)) /\ c' \in {EnterRetry(Leave(c), 113), Terminate(c)}

(* Between a poll and the next one of s250, requests can still be refused. *)
CtrlReplies(k) == SendsOnWS(k) \/ k.ctrl = 1102

ERROR == CtrlReplies(c) /\ c' = Terminate(c)

(* PROG says something else than the client knows (Recovery says when).    *)
PROG_mismatch ==
    /\ Receiving
    /\ Bound(c) \/ c.tr \in {220, 230} \/ Recovering(c)
    /\ c' = EnterRetry(Leave(c), 113)

evtLOOP(k) ==
    CASE k.w_k # None \/ k.tr \in {220, 230} \/ k.ws_m = 503 -> Rebind(k)
      [] k.wp_p = 611 /\ isSwitching(k)  -> Rebind(k)
      [] k.wp_p = 611 /\ ~isSwitching(k) ->
             Schedule(Cancel([k EXCEPT !.wp_p = 612], {"idle"}), "polling")
      [] k.hs_p = 810 -> evtSwitchTransport([disposeHTTP(k) EXCEPT !.hs_p = 811])
      [] k.hp_m = 901 /\ isSwitching(k)  ->
             evtSwitchTransport(Cancel([disposeHTTP(k) EXCEPT !.hp_m = 904], {"idle"}))
      [] k.hp_m = 901 /\ ~isSwitching(k) ->
             Schedule(Cancel([disposeHTTP(k) EXCEPT !.hp_m = 902], {"idle"}), "polling")
      [] Recovering(k) -> Rebind([k EXCEPT !.rec = None])

LOOP ==
    /\ Receiving
    /\ Bound(c) \/ c.tr \in {220, 230} \/ Recovering(c)
    /\ c' = evtLOOP(c)

(* Data and the lines that only tell that the connection is alive.         *)
Line == Receiving /\ inStreaming(c) /\ c' = evtRestartKeepalive(c)

evtCLIENTIP(k, changed) ==
    LET k1 == [k EXCEPT !.addressKnown = TRUE]
    IN evtRestartKeepalive(IF changed /\ k.addressKnown
                             THEN [enableAllTransports(k1) EXCEPT !.excused = TRUE] ELSE k1)

CLIENTIP ==
    /\ AddressChanges /\ Receiving /\ inPushing(c)
    /\ \E changed \in BOOLEAN : c' = evtCLIENTIP(c, changed)

(* CONS,unmanaged says that the bandwidth is not the client's to constrain; *)
(* a server that says so does not take it back.                            *)
CONS ==
    /\ Bandwidths # {c.bwOpt} /\ Receiving /\ inPushing(c)
    /\ c' = evtRestartKeepalive([c EXCEPT !.unmanaged = TRUE])

(* SYNC compares the clocks: data comes in time, late, or much too late.   *)
evtSYNC(k, verdict) ==
    evtRestartKeepalive(
        CASE k.slw = 330                             -> [k EXCEPT !.slw = 331]
          [] k.slw \in {331, 333} /\ verdict = "good" -> [k EXCEPT !.slw = 331]
          [] k.slw \in {331, 333} /\ verdict = "not_good" -> [k EXCEPT !.slw = 333]
          [] k.slw \in {331, 333} /\ verdict = "bad" ->
                 RecheckTransport([disableStreaming(k) EXCEPT !.slw = 334])
          [] OTHER -> k)

SYNC ==
    /\ Slowing /\ Receiving /\ inStreaming(c)
    /\ \E verdict \in {"good", "not_good", "bad"} : c' = evtSYNC(c, verdict)

-----------------------------------------------------------------------------
(* Replies to control requests. *)

Reachable(via) == IF via = "ws" THEN SendsOnWS(c) ELSE via = "ctrl" /\ c.ctrl = 1102

(* Over the WebSocket, replies show that the connection is alive.          *)
TransportRegion(k) == IF k.w_k # None \/ k.ws_m = 503 THEN evtRestartKeepalive(k) ELSE k

REQOK_switch ==
    /\ Reachable(c.swtAck)
    /\ c' = TransportRegion([c EXCEPT !.swtAck = "none", !.swt = IF @ = 1302 THEN 1303 ELSE @])

REQERR_switch ==
    /\ Refusals /\ Reachable(c.swtAck)
    /\ c' = TransportRegion(
           IF c.swt = 1302
             THEN [c EXCEPT !.swtAck = "none", !.swt = 1301, !.excused = TRUE]
             ELSE [c EXCEPT !.swtAck = "none"])

(* Fault: a limit set while the request was in flight is not looked at. *)
evtBandwidthReply_NoRecheck(k) ==
    LET k1 == TransportRegion([k EXCEPT !.bwAck = "none"])
    IN IF k.bw = 1202 THEN [k1 EXCEPT !.bw = 1201] ELSE k1

evtBandwidthReply(k) ==
    LET k1 == TransportRegion([k EXCEPT !.bwAck = "none"])
    IN IF k.bw = 1202 THEN evtCheckBW([k1 EXCEPT !.bw = 1200]) ELSE k1

REQOK_bandwidth == Reachable(c.bwAck) /\ c' = evtBandwidthReply(c)

(* Some refusals end the session, whatever was asked: error 20 says that   *)
(* the server does not know it, and 11, 65 and 67 are for good.            *)
REQERR_session ==
    /\ Refusals /\ CtrlReplies(c)
    /\ c' \in {EnterRetry(Leave(c), 113), Terminate(c)}

CtrlDone == c.ctrl = 1102 /\ c' = evtCheckCtrlRequests(Cancel([disposeCtrl(c) EXCEPT !.ctrl = 1100], {"ctrl"}))
CtrlError == c.ctrl = 1102 /\ c' = CtrlPause(c)
CtrlFatalError == c.ctrl = 1102 /\ c' = Terminate(c)

-----------------------------------------------------------------------------
(* Failures of the connection. *)

evtTransportError(k, again) ==
    CASE k.m \in {120, 121}             -> RetryWithoutWS(k)
      [] k.m \in {122, 130}             -> EnterRetry(TearDown(k), 112)
      [] k.m = 140                      -> EnterRetry(TearDown(k), 111)
      [] k.tr = 210 \/ k.ws_m = 503     -> LoseSession(k, 113)
      [] k.tr \in {220, 230} \/ k.ws_m = 502 -> LoseSession(k, 112)
      [] k.ws_m = 500                   -> Rebind(disableWS(k))
      [] k.ws_m = 501                   -> LoseSession(disableWS(k), 112)
      [] k.wp_m \in {600, 601}          -> Rebind(disableWS(k))
      [] k.wp_m = 602 \/ k.hs_m = 802   -> LoseSession(k, 113)
      [] k.hs_m \in {800, 801} \/ k.h = 720 -> LoseSession(k, 112)
      [] Recovering(k)                  -> evtCheckRecoveryTimeout(k, again)
      [] OTHER                          -> k

TransportError == Receiving /\ \E again \in Again(c) : c' = evtTransportError(c, again)

TransportFatalError == Receiving /\ c' = Terminate(c)

-----------------------------------------------------------------------------
(* Calls of the application. *)

evtExtConnect(k) ==
    LET k1 == [k EXCEPT !.installed = PageLifecycle, !.nr = 1410]
    IN IF k.frozen THEN evtRetry([k1 EXCEPT !.m = 117]) ELSE evtSelectCreate(k1)

Connect == c.m = 100 /\ c' = evtExtConnect(c)

Disconnect == c.m # 100 /\ c' = Terminate(c)

SetForcedTransport ==
    \E forced \in Forced \ {c.forced} : c' = RecheckTransport([c EXCEPT !.forced = forced])

SetRequestedMaxBandwidth ==
    \E bandwidth \in Bandwidths \ {c.bwOpt} :
        c' = evtExtSetRequestedMaxBandwidth([c EXCEPT !.bwOpt = bandwidth])

SetReverseHeartbeatInterval ==
    \E heartbeat \in Heartbeats \ {c.rhbOpt} :
        c' = evtExtSetReverseHeartbeatInterval([c EXCEPT !.rhbOpt = heartbeat])

-----------------------------------------------------------------------------
(* Events of the platform. *)

(* Fault: the page is frozen without leaving the transport. *)
evtPageFrozen_NoTearDown(k) ==
    IF k.installed /\ k.m \notin {100, 117}
      THEN evtRetry([goto_m_from_session(k, 117) EXCEPT !.status = WILL_RETRY])
      ELSE k

evtPageFrozen(k) ==
    IF k.installed /\ k.m \notin {100, 117}
      THEN evtRetry([goto_m_from_session(TearDown(k), 117) EXCEPT !.status = WILL_RETRY])
      ELSE k

evtPageResumed(k) == IF k.installed /\ k.m = 117 THEN evtSelectCreate(k) ELSE k

PageFrozen == PageLifecycle /\ ~c.frozen /\ c' = evtPageFrozen([c EXCEPT !.frozen = TRUE])
PageResumed == c.frozen /\ c' = evtPageResumed([c EXCEPT !.frozen = FALSE])

(* When sendRecovery throws, nothing has changed yet.                      *)
evtOnlineAgain(k) ==
    CASE k.m = 112 -> evtSelectCreate(Cancel(k, {"retry"}))
      [] k.m # 112 /\ k.rec = 1003 /\ k.sid -> sendRecovery(Cancel(k, {"retry"}))
      [] k.m # 112 /\ k.rec = 1003 /\ ~k.sid -> [k EXCEPT !.failed = TRUE]
      [] OTHER -> k

NetworkNotReachable ==
    /\ Reachability /\ c.nr \in {1410, 1412}
    /\ c' = [c EXCEPT !.nr = 1411]

NetworkReachable ==
    /\ Reachability /\ c.nr \in {1410, 1411}
    /\ c' = IF c.nr = 1411 THEN evtOnlineAgain([c EXCEPT !.nr = 1412]) ELSE [c EXCEPT !.nr = 1412]

-----------------------------------------------------------------------------
Timeouts ==
    \/ TransportTimeout \/ RetryTimeout \/ RecoveryTimeout
    \/ IdleTimeout \/ PollingTimeout \/ CtrlTimeout \/ RhbTimeout
    \/ KeepaliveTimeout \/ StalledTimeout \/ ReconnectTimeout

Lines ==
    \/ WSOpen \/ WSOK \/ CONOK \/ CONERR \/ END \/ ERROR \/ PROG_mismatch
    \/ LOOP \/ Line \/ CLIENTIP \/ CONS \/ SYNC
    \/ REQOK_switch \/ REQERR_switch \/ REQOK_bandwidth \/ REQERR_session

Failures ==
    \/ TransportError \/ TransportFatalError
    \/ CtrlDone \/ CtrlError \/ CtrlFatalError

Application ==
    \/ Connect \/ Disconnect
    \/ SetForcedTransport \/ SetRequestedMaxBandwidth \/ SetReverseHeartbeatInterval

Platform ==
    \/ PageFrozen \/ PageResumed \/ NetworkNotReachable \/ NetworkReachable

Next == Timeouts \/ Lines \/ Failures \/ Application \/ Platform

Spec == Init /\ [][Next]_c

(* A timer goes off unless it is cancelled.  Nothing cancels and schedules *)
(* again these without end, as lines do with the keepalive timers: each    *)
(* wait arms them once.                                                    *)
Fairness ==
    /\ WF_c(TransportTimeout) /\ WF_c(RetryTimeout) /\ WF_c(RecoveryTimeout)
    /\ WF_c(IdleTimeout) /\ WF_c(PollingTimeout) /\ WF_c(CtrlTimeout)

FairSpec == Spec /\ Fairness

-----------------------------------------------------------------------------
TypeOK ==
    /\ \A region \in DOMAIN Regions : c[region] \in Regions[region]
    /\ c.timers \subseteq TimerNames /\ c.stray \subseteq TimerNames
    /\ c.conns \subseteq Kinds /\ c.orphans \subseteq Kinds
    /\ c.status \in Statuses
    /\ c.disabled \subseteq {"WS_STREAMING", "WS_POLLING", "HTTP_STREAMING"}
    /\ c.forced \in Forced /\ c.bwOpt \in Bandwidths /\ c.rhbOpt \in Heartbeats
    /\ c.bwReq \in Bandwidths \cup {None}
    /\ c.bwAck \in {"none", "ws", "ctrl"} /\ c.swtAck \in {"none", "ws", "ctrl"}
    /\ c.attempts \in 0..MaxRecoveryAttempts
    /\ \A flag \in {"sid", "suspended", "unmanaged", "excused", "rhbGranted",
                     "addressKnown", "installed", "frozen", "failed"} : c[flag] \in BOOLEAN

-----------------------------------------------------------------------------
(* Expected timers, by state. *)
KeepaliveTimer(k, base) == CASE k = base     -> "keepalive"
                             [] k = base + 1 -> "stalled"
                             [] OTHER        -> "reconnect"

WaitTimer(k) ==
    CASE k.m \in {120, 121, 122, 130, 140} -> {"transport"}
      [] k.m \in {111, 112, 113}           -> {"retry"}
      [] k.tr = 210                        -> {KeepaliveTimer(k.w_k, 310)}
      [] k.tr \in {220, 230}               -> {"transport"}
      [] k.tr = 240 /\ k.ws_m = 503        -> {KeepaliveTimer(k.ws_k, 520)}
      [] k.tr = 240 /\ k.ws_m # 503        -> {"transport"}
      [] k.tr = 250 /\ k.wp_m # 602        -> {"transport"}
      [] k.tr = 250 /\ k.wp_m = 602        -> {IF k.wp_p = 612 THEN "polling" ELSE "idle"}
      [] k.tr = 260 -> {CASE k.rec = 1000 -> "recovery" [] k.rec = 1001 -> "transport"
                          [] OTHER -> "retry"}
      [] k.tr = 270 /\ k.hs_m = 802        -> {KeepaliveTimer(k.hs_k, 820)}
      [] k.tr = 270 /\ k.hs_m \in {800, 801} -> {"transport"}
      [] k.tr = 270 /\ k.h = 720           -> {IF k.hp_m = 902 THEN "polling" ELSE "idle"}
      [] OTHER                             -> {}

CtrlTimer(k) == IF k.ctrl \in {1102, 1103} THEN {"ctrl"} ELSE {}
RhbTimer(k) == IF k.rhb \in {322, 323} THEN {"rhb"} ELSE {}

(* Each wait has exactly its own timer armed: none that was forgotten when *)
(* its state was left, and none missing, so that no state waits for an     *)
(* event that may never come.  The exception is the timer of the reverse   *)
(* heartbeats while an HTTP stream is bound again: it is cancelled but its *)
(* region goes on, so it may be armed again early, or twice (stray).       *)
TimersMatchState ==
    /\ c.timers \ {"rhb"} = WaitTimer(c) \cup CtrlTimer(c)
    /\ c.stray \subseteq {"rhb"}
    /\ c.hs_m \notin {800, 801} => RhbTimer(c) \subseteq c.timers
    /\ "rhb" \in c.timers /\ RhbTimer(c) = {} => c.hs_m # None

ExpectedConns(k) ==
    (IF k.m \in {120, 121, 122} \/ k.tr \in {210, 240, 250} THEN {"ws"} ELSE {})
    \cup (IF \/ k.m \in {130, 140} \/ k.tr \in {220, 230}
             \/ k.tr = 260 /\ k.rec = 1001
             \/ k.tr = 270 /\ k.hp_m # 902
          THEN {"http"} ELSE {})
    \cup (IF k.ctrl = 1102 THEN {"ctrl"} ELSE {})

(* Exactly the connections that the state uses are open, and none is ever  *)
(* opened over another that was not closed: a session never has two stream *)
(* connections, and what is sent always finds its connection.              *)
ConnsMatchState == c.conns = ExpectedConns(c) /\ c.orphans = {}

-----------------------------------------------------------------------------
(* A region is there exactly while the transport it belongs to is, and     *)
(* goes with it.  Handlers tell where the client is by which regions are   *)
(* not null, so one that is left behind would have a later event handled   *)
(* in a transport that is gone.  The region of recovery is the exception:  *)
(* State.goto_m_from_rec leaves it (see NoFailedAssertion).                *)
RegionsMatchTransport ==
    /\ c.tr # None <=> c.m = 150
    /\ c.swt # None <=> c.m = 150
    /\ c.bw # None <=> c.m = 150
    /\ c.w_k # None <=> c.tr = 210
    /\ c.ws_m # None <=> c.tr = 240
    /\ c.ws_k # None <=> c.ws_m = 503
    /\ c.wp_m # None <=> c.tr = 250
    /\ c.wp_p # None <=> c.wp_m = 602
    /\ c.h # None <=> c.tr = 270
    /\ c.ctrl # None <=> c.tr = 270
    /\ c.hs_m # None <=> c.h = 710
    /\ c.hs_p # None <=> c.hs_m = 802
    /\ c.hs_k # None <=> c.hs_m = 802
    /\ c.hp_m # None <=> c.h = 720
    /\ c.tr = 260 => c.rec # None
    /\ c.tr = 210 \/ c.ws_m = 503 \/ c.hs_m = 802 \/ c.h = 720 => c.rhb # None
    /\ c.rhb # None => c.tr = 210 \/ c.ws_m = 503 \/ c.tr = 270
    /\ c.slw # None => c.tr = 210 \/ c.ws_m = 503 \/ c.h = 710
    /\ c.du = 22 <=> c.m = 150
    /\ c.du = 21 <=> c.m \in {120, 121, 122, 130, 140}
    /\ c.m = 100 => c.du = 20 /\ ~c.sid /\ c.disabled = {} /\ c.nr = 1400
    /\ c.m = 150 => c.sid

(* Whatever state the client leaves, and for whatever reason, it leaves    *)
(* nothing of it behind: no timer, connection or region of it goes on, and *)
(* none that the new state needs is missing.                               *)
LeavesNothingBehind == TypeOK /\ TimersMatchState /\ ConnsMatchState /\ RegionsMatchTransport

(* The session is on the transport that the options prefer among those     *)
(* that work, unless a switch is under way: a change of forcedTransport,   *)
(* or the discovery that a transport does not work, is never lost, whatever *)
(* it comes in the middle of.  (Not where the server refused the switch,   *)
(* nor where a new address enabled the transports again: that waits for    *)
(* the next occasion.)                                                     *)
SettledTransportIsBest ==
    c.swt = 1301 /\ c.tr \in {210, 240, 250, 270} /\ ~c.excused
        => getBestForBinding(c) = Transport(c)

(* A control request never waits while its channel is free: where requests *)
(* go over the WebSocket it is in flight, and the HTTP channel is idle     *)
(* (s1101) only if there is nothing to send, not even a heartbeat.         *)
PendingIsSent ==
    /\ SendsOnWS(c) /\ c.swt = 1302 => c.swtAck = "ws"
    /\ SendsOnWS(c) /\ c.bw = 1202 => c.bwAck = "ws"
    /\ c.ctrl = 1101 => ~Pending(c) /\ c.rhb # 324

(* Once the server has answered, the limit that it was asked for is the    *)
(* one that the application wants now, also when setRequestedMaxBandwidth  *)
(* was called while a request was in flight or a session was being created. *)
BandwidthConverges == c.bw = 1201 => c.bwReq = c.bwOpt \/ c.unmanaged

Connected == {STREAM_SENSING, WS_STREAMING, HTTP_STREAMING, WS_POLLING, HTTP_POLLING}

(* What a ClientListener sees: a client connects only after CONNECTING or  *)
(* out of a recovery, a recovery begins only from a connection, and a new  *)
(* session is created only after the loss of the old one was reported.     *)
StatusTransitions ==
    [][ /\ c'.status \in Connected =>
              \/ c.status \in Connected \cup {TRYING_RECOVERY}
              \/ c.status = CONNECTING /\ c'.status \in {WS_STREAMING, STREAM_SENSING}
        /\ c'.status = TRYING_RECOVERY => c.status \in Connected \cup {TRYING_RECOVERY}
        /\ c'.status = CONNECTING =>
              c.status \in {DISCONNECTED, WILL_RETRY, CONNECTING} ]_c

(* sendRecovery asserts that there is a session to recover.                *)
NoFailedAssertion == ~c.failed

Waits == {"create", "bind", "sense", "poll", "retry", "recover", "heartbeat"}

Waiting(wait) ==
    CASE wait = "create"    -> c.m \in {120, 121, 122, 130, 140}
      [] wait = "bind"      -> \/ c.ws_m \in {500, 501, 502} \/ c.hs_m \in {800, 801}
                               \/ c.wp_m \in {600, 601} \/ c.wp_p \in {610, 613}
                               \/ c.hp_m \in {900, 903}
      [] wait = "sense"     -> c.tr \in {220, 230}
      [] wait = "poll"      -> c.wp_p \in {611, 612} \/ c.hp_m \in {901, 902}
      [] wait = "retry"     -> c.m \in {111, 112, 113}
      [] wait = "recover"   -> c.tr = 260
      [] wait = "heartbeat" -> c.rhb = 324

(* No wait lasts for ever, even if the server never says anything again:   *)
(* neither an attempt, nor the pause between two, nor a recovery, nor a    *)
(* heartbeat that must be sent over the HTTP channel.                      *)
EveryWaitEnds == \A wait \in Waits : Waiting(wait) ~> ~Waiting(wait)
=============================================================================
