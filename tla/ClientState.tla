----------------------------- MODULE ClientState -----------------------------
(***************************************************************************)
(* What the handlers of ClientMachine work on: the regions of the state,   *)
(* timers and connections, the choice of the transport, the requests that  *)
(* share the control channel, the reverse heartbeats, and the way a        *)
(* transport, a session and a client are left.                             *)
(*                                                                         *)
(* A state of the client is one record k; a method of the code is an       *)
(* operator from such a record to the next one.  Regions keep the numbers  *)
(* they have in the code, without the s; None stands for null.             *)
(***************************************************************************)
EXTENDS Naturals

CONSTANTS
    Forced,                \* values the application gives to forcedTransport
    Bandwidths,            \* values it gives to requestedMaxBandwidth
    Heartbeats,            \* whether reverseHeartbeatInterval > 0: values given
    SessionRecovery,       \* options.sessionRecoveryTimeout # 0
    MaxRecoveryAttempts,   \* bound: attempts that fit in sessionRecoveryTimeout
    Slowing,               \* options.slowingEnabled
    Reachability,          \* the platform reports when the host is reachable
    PageLifecycle,         \* the platform freezes and resumes the page
    Refusals,              \* the server may refuse control requests (REQERR)
    AddressChanges         \* the address of the client may change (CLIENTIP)

Transports == {"AUTO", "WS", "WS_STREAMING", "WS_POLLING",
               "HTTP", "HTTP_STREAMING", "HTTP_POLLING"}

ASSUME OptionsAssumption ==
    /\ Forced \subseteq Transports /\ Forced # {}
    /\ Bandwidths \subseteq Nat \ {0} /\ Bandwidths # {}
    /\ Heartbeats \subseteq BOOLEAN /\ Heartbeats # {}
    /\ SessionRecovery \in BOOLEAN /\ Slowing \in BOOLEAN
    /\ Reachability \in BOOLEAN /\ PageLifecycle \in BOOLEAN
    /\ Refusals \in BOOLEAN /\ AddressChanges \in BOOLEAN
    /\ MaxRecoveryAttempts \in Nat \ {0}

None == 0

(* The regions of State (m, du, tr, ... nr, and the parts of w, ws, wp, hs *)
(* and hp), with the values each can have when no handler is running.      *)
Regions ==
    [ m    |-> {100, 111, 112, 113, 117, 120, 121, 122, 130, 140, 150},
      du   |-> {20, 21, 22, 23},
      tr   |-> {None, 210, 220, 230, 240, 250, 260, 270},
      w_k  |-> {None, 310, 311, 312},
      ws_m |-> {None, 500, 501, 502, 503},
      ws_k |-> {None, 520, 521, 522},
      wp_m |-> {None, 600, 601, 602},
      wp_p |-> {None, 610, 611, 612, 613},
      h    |-> {None, 710, 720},
      hs_m |-> {None, 800, 801, 802},
      hs_p |-> {None, 810},
      hs_k |-> {None, 820, 821, 822},
      hp_m |-> {None, 900, 901, 902, 903},
      rec  |-> {None, 1000, 1001, 1003},
      ctrl |-> {None, 1101, 1102, 1103},
      swt  |-> {None, 1301, 1302, 1303},
      bw   |-> {None, 1201, 1202},
      rhb  |-> {None, 321, 322, 323, 324},
      slw  |-> {None, 330, 331, 333, 334},
      nr   |-> {1400, 1410, 1411, 1412} ]

(* Statuses given to ClientListener.onStatusChange. *)
DISCONNECTED == "DISCONNECTED"
WILL_RETRY == "DISCONNECTED:WILL-RETRY"
TRYING_RECOVERY == "DISCONNECTED:TRYING-RECOVERY"
CONNECTING == "CONNECTING"
STREAM_SENSING == "CONNECTED:STREAM-SENSING"
WS_STREAMING == "CONNECTED:WS-STREAMING"
HTTP_STREAMING == "CONNECTED:HTTP-STREAMING"
WS_POLLING == "CONNECTED:WS-POLLING"
HTTP_POLLING == "CONNECTED:HTTP-POLLING"

Statuses == {DISCONNECTED, WILL_RETRY, TRYING_RECOVERY, CONNECTING, STREAM_SENSING,
             WS_STREAMING, HTTP_STREAMING, WS_POLLING, HTTP_POLLING}

TimerNames == {"transport", "retry", "keepalive", "stalled", "reconnect",
               "rhb", "recovery", "idle", "polling", "ctrl"}

Kinds == {"ws", "http", "ctrl"}   \* of connections

-----------------------------------------------------------------------------
(* Timers and connections. *)

(* A timer that is scheduled while an older one of the same name is still  *)
(* armed hides it: nobody can cancel the older one any more.               *)
Schedule(k, t) ==
    IF t \in k.timers THEN [k EXCEPT !.stray = @ \cup {t}]
                      ELSE [k EXCEPT !.timers = @ \cup {t}]

Cancel(k, ts) == [k EXCEPT !.timers = @ \ ts]

(* Replies that were to come over a connection that is gone never come.    *)
Forget(k, via) == [k EXCEPT !.swtAck = IF @ = via THEN "none" ELSE @,
                            !.bwAck = IF @ = via THEN "none" ELSE @]

(* A connection that is opened over another one, not disposed, leaves it   *)
(* open with nobody to close it.                                           *)
Open(k, kind) ==
    [k EXCEPT !.conns = @ \cup {kind},
              !.orphans = IF kind \in k.conns THEN @ \cup {kind} ELSE @]

Dispose(k, kind) == [Forget(k, kind) EXCEPT !.conns = @ \ {kind}]

disposeWS(k) == Dispose(k, "ws")
disposeHTTP(k) == Dispose(k, "http")
disposeCtrl(k) == Dispose(k, "ctrl")

-----------------------------------------------------------------------------
(* Choice of the transport. *)

(* In order of preference, what each value of forcedTransport admits. *)
Candidates(forced) ==
    CASE forced = "AUTO" -> <<"WS_STREAMING", "HTTP_STREAMING", "WS_POLLING", "HTTP_POLLING">>
      [] forced = "WS"   -> <<"WS_STREAMING", "WS_POLLING">>
      [] forced = "HTTP" -> <<"HTTP_STREAMING", "HTTP_POLLING">>
      [] OTHER           -> <<forced>>

getBestForBinding(k) ==
    LET cs == Candidates(k.forced)
        enabled == {i \in DOMAIN cs : cs[i] \notin k.disabled}
    IN IF enabled = {} THEN "none"
       ELSE cs[CHOOSE i \in enabled : \A j \in enabled : i <= j]

getBestForCreating(k) ==
    CASE getBestForBinding(k) = "none" -> "none"
      [] /\ k.forced \in {"AUTO", "WS", "WS_STREAMING"}
         /\ ~k.suspended /\ "WS_STREAMING" \notin k.disabled -> "ws"
      [] OTHER -> "http"

disableWS(k) == [k EXCEPT !.disabled = @ \cup {"WS_STREAMING", "WS_POLLING"}]
disableHTTP_Streaming(k) == [k EXCEPT !.disabled = @ \cup {"HTTP_STREAMING"}]
disableStreaming(k) == [k EXCEPT !.disabled = @ \cup {"WS_STREAMING", "HTTP_STREAMING"}]
suspendWS_Streaming(k) == [k EXCEPT !.suspended = TRUE]
enableAllTransports(k) == [k EXCEPT !.disabled = {}, !.suspended = FALSE]

isSwitching(k) == k.swt \in {1302, 1303}

(* The transport that the session is using or setting up. *)
Transport(k) ==
    CASE k.tr \in {210, 240}          -> "WS_STREAMING"
      [] k.tr = 250                   -> "WS_POLLING"
      [] k.tr = 270 /\ k.h = 710      -> "HTTP_STREAMING"
      [] k.tr = 270 /\ k.h = 720      -> "HTTP_POLLING"
      [] OTHER                        -> "none"

inStreaming(k) == k.w_k # None \/ k.ws_k # None \/ k.hs_p = 810
inPolling(k) ==
    k.tr \in {220, 230} \/ k.wp_p = 611 \/ k.hp_m = 901 \/ k.rec = 1001
inPushing(k) == inStreaming(k) \/ inPolling(k)

(* Where control requests go over the WebSocket (s340, s550, s630).        *)
SendsOnWS(k) == k.w_k # None \/ k.ws_k # None \/ k.wp_m = 602

-----------------------------------------------------------------------------
(* Reverse heartbeats. *)

(* s321 none, s322 at the interval of the client, s323 at the granted one. *)
EnterRhb(k) ==
    CASE k.rhbGranted -> Schedule([k EXCEPT !.rhb = 323], "rhb")
      [] ~k.rhbGranted /\ k.rhbOpt -> Schedule([k EXCEPT !.rhb = 322], "rhb")
      [] OTHER -> [k EXCEPT !.rhb = 321]

evtSelectRhb(k) == IF k.rhb = 320 THEN EnterRhb(k) ELSE k

evtRestartHeartbeat(k) ==
    CASE k.rhb \in {322, 323} -> Schedule(Cancel(k, {"rhb"}), "rhb")
      [] k.rhb = 324 -> EnterRhb(k)
      [] OTHER -> k

evtExtSetReverseHeartbeatInterval(k) ==
    CASE k.rhb = 321 /\ k.rhbOpt -> Schedule([k EXCEPT !.rhb = 322], "rhb")
      [] k.rhb = 322 /\ ~k.rhbOpt -> Cancel([k EXCEPT !.rhb = 321], {"rhb"})
      [] OTHER -> k

-----------------------------------------------------------------------------
(* Control requests: the switch of transport (force_rebind), the bandwidth *)
(* (constrain), and the heartbeats when there is no WebSocket.  Encoding a *)
(* request gives it a fresh reqId, so from then on only the reply to this  *)
(* one counts.                                                             *)

Pending(k) == k.swt = 1302 \/ k.bw = 1202

SendPending(k, via) ==
    [k EXCEPT !.swtAck = IF k.swt = 1302 THEN via ELSE @,
              !.bwAck = IF k.bw = 1202 THEN via ELSE @]

sendBatchHTTP(k) == Open(k, "ctrl")

evtCheckCtrlRequests(k) ==
    LET sent(k1) == Schedule(evtRestartHeartbeat([sendBatchHTTP(k1) EXCEPT !.ctrl = 1102]), "ctrl")
    IN CASE k.ctrl # 1100 -> k
         [] k.ctrl = 1100 /\ Pending(k) -> sent(SendPending(k, "ctrl"))
         [] k.ctrl = 1100 /\ ~Pending(k) /\ k.rhb = 324 -> sent(k)
         [] OTHER -> [k EXCEPT !.ctrl = 1101]

evtSendControl(k, req) ==
    LET k1 == IF req = "swt" THEN [k EXCEPT !.swtAck = "ws"]
                             ELSE [k EXCEPT !.bwAck = "ws"]
    IN CASE k.w_k # None \/ k.ws_k # None -> evtRestartHeartbeat(k1)
         [] k.wp_m = 602 -> k1
         [] k.ctrl = 1101 -> evtCheckCtrlRequests([k EXCEPT !.ctrl = 1100])
         [] OTHER -> k

(* Fault: what was asked while there was no WebSocket is not sent. *)
evtSendPendingControls_Never(k) == k

evtSendPendingControls(k) ==
    IF SendsOnWS(k) /\ Pending(k)
      THEN IF k.wp_m = 602 THEN SendPending(k, "ws")
                           ELSE evtRestartHeartbeat(SendPending(k, "ws"))
      ELSE k

evtSendHeartbeat(k) ==
    CASE k.w_k # None \/ k.ws_k # None -> evtRestartHeartbeat(k)
      [] k.ctrl = 1101 -> evtCheckCtrlRequests([k EXCEPT !.ctrl = 1100])
      [] OTHER -> k

(* Is the session on the transport that the options prefer?  If not, the   *)
(* server is asked to end the connection, so that the client binds anew.   *)
evtCheckTransport(k) ==
    LET fine == k.tr \in {220, 230, 260} \/ getBestForBinding(k) = Transport(k)
        k1 == [k EXCEPT !.excused = FALSE]
    IN CASE k.swt # 1300 -> k
         [] k.swt = 1300 /\ fine -> [k1 EXCEPT !.swt = 1301]
         [] OTHER -> evtSendControl([k1 EXCEPT !.swt = 1302], "swt")

(* Fault: nobody checks the transport again. *)
RecheckTransport_Ignored(k) == k

(* setForcedTransport, slowing and a stuck HTTP stream ask for that check. *)
RecheckTransport(k) ==
    IF k.swt = 1301 THEN evtCheckTransport([k EXCEPT !.swt = 1300]) ELSE k

evtCheckBW(k) ==
    CASE k.bw # 1200 -> k
      [] k.bw = 1200 /\ (k.bwReq = k.bwOpt \/ k.unmanaged) -> [k EXCEPT !.bw = 1201]
      [] OTHER -> evtSendControl([k EXCEPT !.bwReq = k.bwOpt, !.bw = 1202], "bw")

evtExtSetRequestedMaxBandwidth(k) ==
    IF k.bw = 1201 THEN evtCheckBW([k EXCEPT !.bw = 1200]) ELSE k

-----------------------------------------------------------------------------
(* Leaving a transport: its region is cleared, its timers are cancelled    *)
(* and its connections are closed.                                         *)

clear_w(k) == [k EXCEPT !.w_k = None, !.rhb = None, !.slw = None]
clear_ws(k) == [k EXCEPT !.ws_m = None, !.ws_k = None, !.rhb = None, !.slw = None]
clear_wp(k) == [k EXCEPT !.wp_m = None, !.wp_p = None]
clear_hs(k) == [k EXCEPT !.hs_m = None, !.hs_p = None, !.hs_k = None,
                         !.rhb = None, !.slw = None]
clear_hp(k) == [k EXCEPT !.hp_m = None, !.rhb = None]

KeepaliveUnit == {"keepalive", "stalled", "reconnect"}

exit_w(k) == Cancel(k, KeepaliveUnit \cup {"rhb"})
exit_ws(k) == Cancel(k, KeepaliveUnit \cup {"rhb", "transport"})
(* Fault: the timer of the pause between two polls is forgotten. *)
exit_wp_KeepsPolling(k) == Cancel(k, {"transport", "idle"})

exit_wp(k) == Cancel(k, {"transport", "idle", "polling"})
exit_hs(k) == Cancel(k, KeepaliveUnit \cup {"rhb", "transport"})
exit_hp(k) == Cancel(k, {"idle", "polling", "rhb"})
exit_ctrl(k) == disposeCtrl(Cancel(k, {"ctrl"}))
exit_rec(k) == Cancel(k, {"recovery", "transport", "retry"})

clear_ctrl(k) == [k EXCEPT !.h = None, !.ctrl = None]

Leave(k) ==
    CASE k.tr = 210            -> exit_w(clear_w(disposeWS(k)))
      [] k.tr = 240            -> exit_ws(clear_ws(disposeWS(k)))
      [] k.tr = 250            -> exit_wp(clear_wp(disposeWS(k)))
      [] k.tr \in {220, 230}   -> Cancel(disposeHTTP(k), {"transport"})
      [] k.tr = 260            -> exit_rec(disposeHTTP(k))
      [] k.tr = 270 /\ k.h = 710 ->
             exit_hs(exit_ctrl(clear_ctrl(clear_hs(disposeHTTP(k)))))
      [] k.tr = 270 /\ k.h = 720 ->
             exit_hp(exit_ctrl(clear_ctrl(clear_hp(disposeHTTP(k)))))
      [] OTHER                 -> k

(* Whatever the client is doing, connected or not, it stops doing it.      *)
TearDown(k) ==
    CASE k.m \in {120, 121, 122} -> Cancel(disposeWS(k), {"transport"})
      [] k.m \in {130, 140}      -> Cancel(disposeHTTP(k), {"transport"})
      [] k.m = 150               -> Leave(k)
      [] OTHER                   -> Cancel(k, {"retry"})

goto_m_from_session(k, m) ==
    [k EXCEPT !.m = m, !.tr = None, !.swt = None, !.bw = None]

-----------------------------------------------------------------------------
(* The life of a session (region du). *)

disposeSession(k) ==
    [disposeCtrl(disposeHTTP(disposeWS(k))) EXCEPT
        !.bwReq = None, !.unmanaged = FALSE, !.addressKnown = FALSE,
        !.bwAck = "none", !.swtAck = "none"]

evtCreate(k) == [k EXCEPT !.du = IF @ \in {20, 23} THEN 21 ELSE @]

evtStartSession(k) == [k EXCEPT !.du = IF @ = 21 THEN 22 ELSE @]

evtRetry(k) ==
    CASE k.du = 21 -> [k EXCEPT !.du = 23]
      [] k.du = 22 -> [disposeSession(k) EXCEPT !.du = 23]
      [] OTHER -> k

evtTerminate(k) ==
    LET k1 == IF k.du = 22 THEN disposeSession(k) ELSE k
    IN [enableAllTransports(k1) EXCEPT
          !.sid = FALSE, !.installed = FALSE, !.du = 20, !.nr = 1400]

(* The session, if there is one, is over, and so is the client's work.     *)
Terminate(k) ==
    evtTerminate([goto_m_from_session(TearDown(k), 100) EXCEPT !.status = DISCONNECTED])
=============================================================================
