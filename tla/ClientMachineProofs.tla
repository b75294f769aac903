------------------------- MODULE ClientMachineProofs -------------------------
EXTENDS ClientMachine, TLAPS

(* What a record contains while a handler runs.                            *)
Fields ==
    { "m", "du", "tr", "w_k", "ws_m", "ws_k", "wp_m", "wp_p", "h", "hs_m", "hs_p", "hs_k",
      "hp_m", "rec", "ctrl", "swt", "bw", "rhb", "slw", "nr", "timers", "stray", "conns",
      "orphans", "status", "sid", "suspended", "disabled", "forced", "bwOpt", "rhbOpt",
      "bwReq", "unmanaged", "bwAck", "swtAck", "excused", "rhbGranted", "attempts",
      "addressKnown", "installed", "frozen", "failed" }

IsRecord(k) ==
    /\ DOMAIN k = Fields
    /\ k.timers \subseteq TimerNames /\ k.stray \subseteq TimerNames
    /\ k.conns \subseteq Kinds /\ k.orphans \subseteq Kinds
    /\ k.status \in Statuses /\ k.attempts \in Nat
    /\ k.disabled \subseteq {"WS_STREAMING", "WS_POLLING", "HTTP_STREAMING"}
    /\ k.forced \in Forced /\ k.bwOpt \in Bandwidths /\ k.rhbOpt \in Heartbeats
    /\ k.bwReq \in Bandwidths \cup {None}
    /\ k.bwAck \in {"none", "ws", "ctrl"} /\ k.swtAck \in {"none", "ws", "ctrl"}
    /\ k.sid \in BOOLEAN /\ k.suspended \in BOOLEAN /\ k.unmanaged \in BOOLEAN
    /\ k.excused \in BOOLEAN /\ k.rhbGranted \in BOOLEAN /\ k.addressKnown \in BOOLEAN
    /\ k.installed \in BOOLEAN /\ k.frozen \in BOOLEAN /\ k.failed \in BOOLEAN

-----------------------------------------------------------------------------
(* The regions of the transport, with the timer and the connection of each *)
(* state.                                                                  *)
InRegions(k) ==
    /\ k.m \in {100, 111, 112, 113, 117, 120, 121, 122, 130, 140, 150}
    /\ k.du \in {20, 21, 22, 23}
    /\ k.tr \in {0, 210, 220, 230, 240, 250, 260, 270}
    /\ k.w_k \in {0, 310, 311, 312}
    /\ k.ws_m \in {0, 500, 501, 502, 503} /\ k.ws_k \in {0, 520, 521, 522}
    /\ k.wp_m \in {0, 600, 601, 602} /\ k.wp_p \in {0, 610, 611, 612, 613}
    /\ k.h \in {0, 710, 720} /\ k.hs_m \in {0, 800, 801, 802} /\ k.hs_p \in {0, 810}
    /\ k.hs_k \in {0, 820, 821, 822} /\ k.hp_m \in {0, 900, 901, 902, 903}
    /\ k.rec \in {0, 1000, 1001, 1003} /\ k.slw \in {0, 330, 331, 333, 334}
    /\ k.nr \in {1400, 1410, 1411, 1412}

Timers(k) ==
    /\ "transport" \in k.timers <=>
          \/ k.m \in {120, 121, 122, 130, 140} \/ k.tr \in {220, 230}
          \/ k.ws_m \in {500, 501, 502} \/ k.wp_m \in {600, 601} \/ k.hs_m \in {800, 801}
          \/ k.tr = 260 /\ k.rec = 1001
    /\ "retry" \in k.timers <=> k.m \in {111, 112, 113} \/ (k.tr = 260 /\ k.rec = 1003)
    /\ "recovery" \in k.timers <=> k.tr = 260 /\ k.rec = 1000
    /\ "keepalive" \in k.timers <=> k.w_k = 310 \/ k.ws_k = 520 \/ k.hs_k = 820
    /\ "stalled" \in k.timers <=> k.w_k = 311 \/ k.ws_k = 521 \/ k.hs_k = 821
    /\ "reconnect" \in k.timers <=> k.w_k = 312 \/ k.ws_k = 522 \/ k.hs_k = 822
    /\ "idle" \in k.timers <=> k.wp_p \in {610, 611, 613} \/ k.hp_m \in {900, 901, 903}
    /\ "polling" \in k.timers <=> k.wp_p = 612 \/ k.hp_m = 902

Conns(k) ==
    /\ "ws" \in k.conns <=> k.m \in {120, 121, 122} \/ k.tr \in {210, 240, 250}
    /\ "http" \in k.conns <=>
          \/ k.m \in {130, 140} \/ k.tr \in {220, 230} \/ (k.tr = 260 /\ k.rec = 1001)
          \/ k.tr = 270 /\ k.hp_m # 902

Parts(k) ==
    /\ k.tr # 0 <=> k.m = 150
    /\ k.swt # 0 <=> k.m = 150
    /\ k.bw # 0 <=> k.m = 150
    /\ k.w_k # 0 <=> k.tr = 210
    /\ k.ws_m # 0 <=> k.tr = 240
    /\ k.ws_k # 0 <=> k.ws_m = 503
    /\ k.wp_m # 0 <=> k.tr = 250
    /\ k.wp_p # 0 <=> k.wp_m = 602
    /\ k.h # 0 <=> k.tr = 270
    /\ k.ctrl # 0 <=> k.tr = 270
    /\ k.hs_m # 0 <=> k.h = 710
    /\ k.hs_p # 0 <=> k.hs_m = 802
    /\ k.hs_k # 0 <=> k.hs_m = 802
    /\ k.hp_m # 0 <=> k.h = 720
    /\ k.tr = 260 => k.rec # 0
    /\ k.tr = 210 \/ k.ws_m = 503 \/ k.hs_m = 802 \/ k.h = 720 => k.rhb # 0
    /\ k.rhb # 0 => k.tr = 210 \/ k.ws_m = 503 \/ k.tr = 270
    /\ k.slw # 0 => k.tr = 210 \/ k.ws_m = 503 \/ k.h = 710
    /\ k.du = 22 <=> k.m = 150
    /\ k.du = 21 <=> k.m \in {120, 121, 122, 130, 140}
    /\ k.m = 100 => k.du = 20 /\ ~k.sid /\ k.disabled = {} /\ k.nr = 1400
    /\ k.m = 150 => k.sid

(* What recovery may still do; it is only there where it is enabled.       *)
Attempts(k) ==
    /\ SessionRecovery \/ k.rec = 0
    /\ k.attempts <= MaxRecoveryAttempts
    /\ k.tr = 260 /\ k.rec = 1000 => k.attempts = 0
    /\ k.tr = 260 /\ k.rec = 1003 => k.attempts < MaxRecoveryAttempts

Status(k) ==
    /\ k.m = 100 => k.status = DISCONNECTED
    /\ k.m \in {111, 112, 113} => k.status = WILL_RETRY
    /\ k.m = 117 => k.status \in {DISCONNECTED, WILL_RETRY}
    /\ k.m \in {120, 121, 122, 130, 140} => k.status = CONNECTING
    /\ k.tr = 260 => k.status = TRYING_RECOVERY
    /\ k.m = 150 => k.status \in Connected \cup {TRYING_RECOVERY}

Base(k) == InRegions(k) /\ Timers(k) /\ Conns(k) /\ Parts(k) /\ Attempts(k) /\ Status(k)

-----------------------------------------------------------------------------
(* The control channel and the heartbeats, also while a handler runs.      *)
Hearts(k) ==
    /\ k.rhb \in {0, 320, 321, 322, 323, 324}
    /\ k.rhb \in {322, 323} /\ k.hs_m \notin {800, 801} => "rhb" \in k.timers
    /\ "rhb" \in k.timers /\ k.rhb \notin {322, 323} => k.hs_m # 0
    /\ k.stray \subseteq {"rhb"}

Control(k) ==
    /\ k.ctrl \in {0, 1100, 1101, 1102, 1103}
    /\ "ctrl" \in k.timers <=> k.ctrl \in {1102, 1103}
    /\ "ctrl" \in k.conns <=> k.ctrl = 1102
    /\ k.orphans = {}

Channel(k) == Hearts(k) /\ Control(k)

(* No handler runs.                                                        *)
Quiet(k) ==
    /\ k.ctrl # 1100 /\ k.rhb # 320
    /\ k.swt \in {0, 1301, 1302, 1303} /\ k.bw \in {0, 1201, 1202}

SwitchSent(k) == SendsOnWS(k) /\ k.swt = 1302 => k.swtAck = "ws"
LimitSent(k) == SendsOnWS(k) /\ k.bw = 1202 => k.bwAck = "ws"
IdleIsDone(k) == k.ctrl = 1101 => ~Pending(k) /\ k.rhb # 324

Switched(k) ==
    k.swt = 1301 /\ k.tr \in {210, 240, 250, 270} /\ ~k.excused
        => getBestForBinding(k) = Transport(k)
Limited(k) == k.bw = 1201 => k.bwReq = k.bwOpt \/ k.unmanaged

Inv(k) ==
    /\ IsRecord(k) /\ Base(k) /\ Channel(k) /\ Quiet(k)
    /\ SwitchSent(k) /\ LimitSent(k) /\ IdleIsDone(k)
    /\ Switched(k) /\ Limited(k)

-----------------------------------------------------------------------------
(* What the control channel leaves as it is.                               *)
Core(j, k) ==
    /\ IsRecord(j)
    /\ j.m = k.m /\ j.du = k.du /\ j.tr = k.tr /\ j.w_k = k.w_k
    /\ j.ws_m = k.ws_m /\ j.ws_k = k.ws_k /\ j.wp_m = k.wp_m /\ j.wp_p = k.wp_p
    /\ j.h = k.h /\ j.hs_m = k.hs_m /\ j.hs_p = k.hs_p /\ j.hs_k = k.hs_k
    /\ j.hp_m = k.hp_m /\ j.rec = k.rec /\ j.slw = k.slw /\ j.nr = k.nr
    /\ j.status = k.status /\ j.sid = k.sid /\ j.disabled = k.disabled /\ j.forced = k.forced
    /\ j.bwOpt = k.bwOpt /\ j.unmanaged = k.unmanaged /\ j.attempts = k.attempts
    /\ \A t \in TimerNames \ {"rhb", "ctrl"} : t \in j.timers <=> t \in k.timers
    /\ \A kind \in {"ws", "http"} : kind \in j.conns <=> kind \in k.conns
    /\ j.rhb # 0 <=> k.rhb # 0
    /\ j.ctrl # 0 <=> k.ctrl # 0

SameRequests(j, k) ==
    j.swt = k.swt /\ j.bw = k.bw /\ j.bwReq = k.bwReq /\ j.excused = k.excused

(* Only the heartbeats changed.                                            *)
OnlyHearts(j, k) ==
    /\ Core(j, k) /\ SameRequests(j, k)
    /\ j.ctrl = k.ctrl /\ j.conns = k.conns /\ j.orphans = k.orphans
    /\ "ctrl" \in j.timers <=> "ctrl" \in k.timers
    /\ j.swtAck = k.swtAck /\ j.bwAck = k.bwAck

LEMMA CoreBase ==
    ASSUME NEW j, NEW k, Core(j, k), Base(k), j.swt # 0 <=> k.swt # 0, j.bw # 0 <=> k.bw # 0
    PROVE  Base(j)
<1>1. InRegions(j)
  BY DEF Base, Core, InRegions
<1>2. Timers(j)
  BY DEF Base, Core, Timers, TimerNames
<1>3. Conns(j)
  BY DEF Base, Core, Conns
<1>4. Parts(j)
  BY DEF Base, Core, Parts
<1>5. Attempts(j) /\ Status(j)
  BY DEF Base, Core, Attempts, Status
<1> QED
  BY <1>1, <1>2, <1>3, <1>4, <1>5 DEF Base

LEMMA CoreTrans ==
    ASSUME NEW i, NEW j, NEW k, Core(i, j), Core(j, k)
    PROVE  Core(i, k)
  BY DEF Core

LEMMA CoreWays ==
    ASSUME NEW j, NEW k, Core(j, k)
    PROVE  /\ SendsOnWS(j) <=> SendsOnWS(k)
           /\ getBestForBinding(j) = getBestForBinding(k) /\ Transport(j) = Transport(k)
  BY DEF Core, SendsOnWS, getBestForBinding, Transport, None

-----------------------------------------------------------------------------
(* Every operator of a handler makes a record of a record.                 *)
LEMMA Scheduled ==
    ASSUME NEW k, IsRecord(k), NEW t \in TimerNames
    PROVE  IsRecord(Schedule(k, t))
  BY DEF IsRecord, Fields, Schedule

LEMMA Cancelled ==
    ASSUME NEW k, IsRecord(k), NEW ts
    PROVE  IsRecord(Cancel(k, ts))
  BY DEF IsRecord, Fields, Cancel

LEMMA Opened ==
    ASSUME NEW k, IsRecord(k), NEW kind \in Kinds
    PROVE  IsRecord(Open(k, kind))
  BY DEF IsRecord, Fields, Open

LEMMA Disposed ==
    ASSUME NEW k, IsRecord(k), NEW kind
    PROVE  IsRecord(Dispose(k, kind))
<1>1. IsRecord(Forget(k, kind))
  BY DEF IsRecord, Fields, Forget
<1> QED
  BY <1>1 DEF IsRecord, Fields, Dispose

LEMMA RhbSet ==
    ASSUME NEW k, IsRecord(k), NEW s \in Nat
    PROVE  IsRecord([k EXCEPT !.rhb = s])
  BY DEF IsRecord, Fields

LEMMA CtrlSet ==
    ASSUME NEW k, IsRecord(k), NEW s \in Nat
    PROVE  IsRecord([k EXCEPT !.ctrl = s])
  BY DEF IsRecord, Fields

-----------------------------------------------------------------------------
LEMMA EnterRhbKeeps ==
    ASSUME NEW k, IsRecord(k), Hearts(k), k.rhb \in {320, 324}, NEW j, j = EnterRhb(k)
    PROVE  OnlyHearts(j, k) /\ Hearts(j) /\ j.rhb \in {321, 322, 323}
<1>1. IsRecord(j)
  BY DEF EnterRhb, Schedule, IsRecord, Fields, TimerNames
<1> QED
  BY <1>1 DEF OnlyHearts, Core, SameRequests, Hearts, EnterRhb, Schedule, IsRecord, Fields

LEMMA RestartKeeps ==
    ASSUME NEW k, IsRecord(k), Hearts(k), NEW j, j = evtRestartHeartbeat(k)
    PROVE  OnlyHearts(j, k) /\ Hearts(j) /\ j.rhb # 324 /\ (k.rhb # 320 => j.rhb # 320)
<1>1. CASE k.rhb \in {322, 323}
  <2>1. j = Schedule(Cancel(k, {"rhb"}), "rhb")
    BY <1>1 DEF evtRestartHeartbeat
  <2>2. IsRecord(j)
    BY <2>1, Scheduled, Cancelled DEF TimerNames
  <2> QED
    BY <1>1, <2>1, <2>2
       DEF OnlyHearts, Core, SameRequests, Hearts, Schedule, Cancel, IsRecord, Fields
<1>2. CASE k.rhb = 324
  <2>1. j = EnterRhb(k)
    BY <1>2 DEF evtRestartHeartbeat
  <2> QED
    BY <1>2, <2>1, EnterRhbKeeps
<1>3. CASE k.rhb \notin {322, 323, 324}
  <2>1. j = k
    BY <1>3 DEF evtRestartHeartbeat
  <2> QED
    BY <1>3, <2>1 DEF OnlyHearts, Core, SameRequests
<1> QED
  BY <1>1, <1>2, <1>3

-----------------------------------------------------------------------------
(* The control channel.                                                    *)

(* A batch is sent, and the heartbeat with it.                             *)
LEMMA BatchSent ==
    ASSUME NEW k, IsRecord(k), Channel(k), k.ctrl = 1100,
           NEW j, j = Schedule(evtRestartHeartbeat([sendBatchHTTP(k) EXCEPT !.ctrl = 1102]), "ctrl")
    PROVE  /\ Core(j, k) /\ SameRequests(j, k) /\ Channel(j)
           /\ j.ctrl = 1102 /\ (k.rhb # 320 => j.rhb # 320)
<1>1. PICK i : i = [sendBatchHTTP(k) EXCEPT !.ctrl = 1102]
  OBVIOUS
<1>2. PICK r : r = evtRestartHeartbeat(i)
  OBVIOUS
<1>3. IsRecord(i)
  <2>1. IsRecord(sendBatchHTTP(k))
    BY Opened DEF sendBatchHTTP, Kinds
  <2> QED
    BY <1>1, <2>1, CtrlSet
<1>4. /\ Core(i, k) /\ SameRequests(i, k) /\ Hearts(i)
      /\ i.ctrl = 1102 /\ i.conns = k.conns \cup {"ctrl"} /\ i.orphans = {} /\ i.rhb = k.rhb
  BY <1>1, <1>3 DEF sendBatchHTTP, Open, Channel, Hearts, Control, Core, SameRequests,
                    IsRecord, Fields
<1>5. /\ OnlyHearts(r, i) /\ Hearts(r) /\ (i.rhb # 320 => r.rhb # 320)
  BY <1>2, <1>3, <1>4, RestartKeeps
<1>6. j = Schedule(r, "ctrl") /\ IsRecord(r)
  BY <1>1, <1>2, <1>5 DEF OnlyHearts, Core
<1>7. IsRecord(j)
  BY <1>6, Scheduled DEF TimerNames
<1>8. /\ Core(j, r) /\ SameRequests(j, r) /\ j.rhb = r.rhb /\ j.ctrl = r.ctrl
      /\ j.conns = r.conns /\ j.orphans = r.orphans /\ "ctrl" \in j.timers /\ Hearts(j)
  <2>1. "ctrl" \notin r.timers
    BY <1>1, <1>4, <1>5 DEF OnlyHearts, Channel, Control, Open, sendBatchHTTP, IsRecord, Fields
  <2>2. j = [r EXCEPT !.timers = @ \cup {"ctrl"}]
    BY <1>6, <2>1 DEF Schedule
  <2>3. Core(j, r) /\ SameRequests(j, r)
    BY <1>6, <1>7, <2>2 DEF Core, SameRequests, IsRecord, Fields
  <2> QED
    BY <1>5, <1>6, <2>2, <2>3 DEF Hearts, IsRecord, Fields
<1>9. Core(j, k) /\ SameRequests(j, k)
  BY <1>4, <1>5, <1>8, CoreTrans DEF OnlyHearts, SameRequests
<1>10. Control(j)
  BY <1>4, <1>5, <1>8 DEF Control, OnlyHearts
<1> QED
  BY <1>4, <1>5, <1>8, <1>9, <1>10 DEF Channel, OnlyHearts

LEMMA CheckKeeps ==
    ASSUME NEW k, IsRecord(k), Channel(k), k.ctrl = 1100, NEW j, j = evtCheckCtrlRequests(k)
    PROVE  /\ Core(j, k) /\ SameRequests(j, k) /\ Channel(j) /\ IdleIsDone(j)
           /\ j.ctrl \in {1101, 1102} /\ (k.rhb # 320 => j.rhb # 320)
<1>1. CASE Pending(k)
  <2>1. PICK i : i = SendPending(k, "ctrl")
    OBVIOUS
  <2>2. IsRecord(i) /\ Core(i, k) /\ SameRequests(i, k) /\ Channel(i) /\ i.ctrl = 1100 /\ i.rhb = k.rhb
    <3>1. IsRecord(i)
      BY <2>1 DEF SendPending, IsRecord, Fields
    <3> QED
      BY <2>1, <3>1 DEF SendPending, Core, SameRequests, Channel, Hearts, Control, IsRecord, Fields
  <2>3. j = Schedule(evtRestartHeartbeat([sendBatchHTTP(i) EXCEPT !.ctrl = 1102]), "ctrl")
    BY <1>1, <2>1 DEF evtCheckCtrlRequests
  <2>4. Core(j, i) /\ SameRequests(j, i) /\ Channel(j) /\ j.ctrl = 1102 /\ (i.rhb # 320 => j.rhb # 320)
    BY <2>2, <2>3, BatchSent
  <2> QED
    BY <2>2, <2>4, CoreTrans DEF SameRequests, IdleIsDone
<1>2. CASE ~Pending(k) /\ k.rhb = 324
  <2>1. j = Schedule(evtRestartHeartbeat([sendBatchHTTP(k) EXCEPT !.ctrl = 1102]), "ctrl")
    BY <1>2 DEF evtCheckCtrlRequests
  <2> QED
    BY <2>1, BatchSent DEF IdleIsDone
<1>3. CASE ~Pending(k) /\ k.rhb # 324
  <2>1. j = [k EXCEPT !.ctrl = 1101]
    BY <1>3 DEF evtCheckCtrlRequests
  <2>2. IsRecord(j)
    BY <2>1, CtrlSet
  <2> QED
    BY <1>3, <2>1, <2>2 DEF Core, SameRequests, Channel, Hearts, Control, IdleIsDone, Pending,
                            IsRecord, Fields
<1> QED
  BY <1>1, <1>2, <1>3

(* The channel after a request was made, or found not to be needed.        *)
Steered(j, k) ==
    /\ Core(j, k) /\ Channel(j) /\ IdleIsDone(j) /\ j.ctrl # 1100
    /\ k.rhb # 320 => j.rhb # 320

(* Requests go one way.                                                    *)
OneWay(k) ==
    /\ SendsOnWS(k) => k.ctrl = 0
    /\ k.wp_m = 602 => k.w_k = 0 /\ k.ws_k = 0

LEMMA OneWayKept ==
    ASSUME NEW j, NEW k, Core(j, k), OneWay(k)
    PROVE  OneWay(j)
  BY DEF Core, OneWay, SendsOnWS, None

LEMMA BaseOneWay ==
    ASSUME NEW k, Base(k)
    PROVE  OneWay(k)
  BY DEF Base, Parts, InRegions, OneWay, SendsOnWS, None

LEMMA SendKeeps ==
    ASSUME NEW k, IsRecord(k), Channel(k), k.ctrl # 1100, OneWay(k),
           NEW req \in {"swt", "bw"}, NEW j, j = evtSendControl(k, req)
    PROVE  /\ Steered(j, k) /\ SameRequests(j, k)
           /\ req = "swt" => SwitchSent(j) /\ (LimitSent(k) => LimitSent(j))
           /\ req = "bw" => LimitSent(j) /\ (SwitchSent(k) => SwitchSent(j))
<1> DEFINE i == IF req = "swt" THEN [k EXCEPT !.swtAck = "ws"] ELSE [k EXCEPT !.bwAck = "ws"]
<1>1. /\ k.w_k # 0 \/ k.ws_k # 0 => j = evtRestartHeartbeat(i)
      /\ ~(k.w_k # 0 \/ k.ws_k # 0) /\ k.wp_m = 602 => j = i
  BY DEF evtSendControl, OneWay, SendsOnWS, None
<1>2. IsRecord(i)
  BY DEF IsRecord, Fields
<1>3. Core(i, k) /\ SameRequests(i, k) /\ Channel(i) /\ i.ctrl = k.ctrl /\ i.rhb = k.rhb
  BY <1>2 DEF Core, SameRequests, Channel, Hearts, Control, IsRecord, Fields
<1>4. /\ req = "swt" => i.swtAck = "ws" /\ i.bwAck = k.bwAck
      /\ req = "bw" => i.bwAck = "ws" /\ i.swtAck = k.swtAck
  BY DEF IsRecord, Fields
<1> HIDE DEF i
<1>5. CASE SendsOnWS(k)
  <2>1. OnlyHearts(j, i) /\ Hearts(j) /\ (i.rhb # 320 => j.rhb # 320)
    <3>1. CASE k.w_k # 0 \/ k.ws_k # 0
      <4>1. j = evtRestartHeartbeat(i)
        BY <1>1, <3>1
      <4> QED
        BY <1>2, <1>3, <4>1, RestartKeeps DEF Channel
    <3>2. CASE ~(k.w_k # 0 \/ k.ws_k # 0)
      <4>1. j = i
        BY <1>1, <1>5, <3>2 DEF SendsOnWS, None
      <4> QED
        BY <1>2, <1>3, <4>1 DEF OnlyHearts, Core, SameRequests, Channel
    <3> QED
      BY <3>1, <3>2
  <2>2. Core(j, k) /\ SameRequests(j, k) /\ Channel(j) /\ j.ctrl = 0
    BY <1>3, <1>5, <2>1, CoreTrans DEF OnlyHearts, SameRequests, Channel, Control, OneWay
  <2>3. SendsOnWS(j)
    BY <1>5, <2>2, CoreWays
  <2> QED
    BY <1>3, <1>4, <1>5, <2>1, <2>2, <2>3
       DEF Steered, SwitchSent, LimitSent, IdleIsDone, OnlyHearts, SameRequests
<1>6. CASE ~SendsOnWS(k) /\ k.ctrl = 1101
  <2> DEFINE x == [k EXCEPT !.ctrl = 1100]
  <2>2. j = evtCheckCtrlRequests(x)
    BY <1>6 DEF evtSendControl, SendsOnWS
  <2>3. IsRecord(x)
    BY CtrlSet
  <2>4. Core(x, k) /\ SameRequests(x, k) /\ Channel(x) /\ x.ctrl = 1100 /\ x.rhb = k.rhb
    BY <1>6, <2>3 DEF Core, SameRequests, Channel, Hearts, Control, IsRecord, Fields
  <2> HIDE DEF x
  <2>5. /\ Core(j, x) /\ SameRequests(j, x) /\ Channel(j) /\ IdleIsDone(j)
        /\ j.ctrl \in {1101, 1102} /\ (x.rhb # 320 => j.rhb # 320)
    BY <2>2, <2>3, <2>4, CheckKeeps
  <2>6. Core(j, k) /\ SameRequests(j, k)
    BY <2>4, <2>5, CoreTrans DEF SameRequests
  <2>7. ~SendsOnWS(j)
    BY <1>6, <2>6, CoreWays
  <2> QED
    BY <2>4, <2>5, <2>6, <2>7 DEF Steered, SwitchSent, LimitSent
<1>7. CASE ~SendsOnWS(k) /\ k.ctrl # 1101
  <2>1. j = k
    BY <1>7 DEF evtSendControl, SendsOnWS
  <2> QED
    BY <1>7, <2>1 DEF Steered, Core, SameRequests, SwitchSent, LimitSent, IdleIsDone
<1> QED
  BY <1>5, <1>6, <1>7

(* Is the session on the best transport?                                   *)
LEMMA CheckTransportKeeps ==
    ASSUME NEW k, IsRecord(k), Channel(k), k.ctrl # 1100, OneWay(k),
           k.swt = 1300, LimitSent(k), k.ctrl = 1101 => k.bw # 1202 /\ k.rhb # 324,
           NEW j, j = evtCheckTransport(k)
    PROVE  /\ Steered(j, k) /\ j.swt \in {1301, 1302} /\ j.bw = k.bw /\ j.bwReq = k.bwReq
           /\ SwitchSent(j) /\ LimitSent(j) /\ Switched(j)
<1> DEFINE fine == k.tr \in {220, 230, 260} \/ getBestForBinding(k) = Transport(k)
<1>1. CASE fine
  <2>1. j = [[k EXCEPT !.excused = FALSE] EXCEPT !.swt = 1301]
    BY <1>1 DEF evtCheckTransport
  <2>2. IsRecord(j)
    BY <2>1 DEF IsRecord, Fields
  <2>3. /\ Core(j, k) /\ Channel(j) /\ j.ctrl = k.ctrl /\ j.rhb = k.rhb /\ j.bw = k.bw
        /\ j.bwReq = k.bwReq /\ j.bwAck = k.bwAck /\ j.swt = 1301 /\ j.tr = k.tr
    BY <2>1, <2>2 DEF Core, Channel, Hearts, Control, IsRecord, Fields
  <2>4. Switched(j)
    BY <1>1, <2>3, CoreWays DEF Switched
  <2>5. LimitSent(j) /\ SwitchSent(j)
    BY <2>3, CoreWays DEF LimitSent, SwitchSent
  <2> QED
    BY <2>3, <2>4, <2>5 DEF Steered, IdleIsDone, Pending
<1>2. CASE ~fine
  <2>1. PICK i : i = [[k EXCEPT !.excused = FALSE] EXCEPT !.swt = 1302]
    OBVIOUS
  <2>2. j = evtSendControl(i, "swt")
    BY <1>2, <2>1 DEF evtCheckTransport
  <2>3. IsRecord(i)
    BY <2>1 DEF IsRecord, Fields
  <2>4. /\ Core(i, k) /\ Channel(i) /\ i.ctrl = k.ctrl /\ i.rhb = k.rhb /\ i.bw = k.bw
        /\ i.bwReq = k.bwReq /\ i.bwAck = k.bwAck /\ i.swt = 1302
    BY <2>1, <2>3 DEF Core, Channel, Hearts, Control, IsRecord, Fields
  <2>5. LimitSent(i) /\ OneWay(i)
    BY <2>4, CoreWays, OneWayKept DEF LimitSent
  <2>6. Steered(j, i) /\ SameRequests(j, i) /\ SwitchSent(j) /\ LimitSent(j)
    BY <2>2, <2>3, <2>4, <2>5, SendKeeps
  <2>7. Core(j, k)
    BY <2>4, <2>6, CoreTrans DEF Steered
  <2> QED
    BY <2>4, <2>6, <2>7 DEF Steered, SameRequests, Switched
<1> QED
  BY <1>1, <1>2

(* Is the bandwidth limited as the application wants?                      *)
LEMMA CheckBWKeeps ==
    ASSUME NEW k, IsRecord(k), Channel(k), k.ctrl # 1100, OneWay(k),
           k.bw = 1200, SwitchSent(k), k.ctrl = 1101 => k.swt # 1302 /\ k.rhb # 324,
           NEW j, j = evtCheckBW(k)
    PROVE  /\ Steered(j, k) /\ j.bw \in {1201, 1202} /\ j.swt = k.swt /\ j.excused = k.excused
           /\ SwitchSent(j) /\ LimitSent(j) /\ Limited(j)
<1> DEFINE fine == k.bwReq = k.bwOpt \/ k.unmanaged
<1>1. CASE fine
  <2>1. j = [k EXCEPT !.bw = 1201]
    BY <1>1 DEF evtCheckBW
  <2>2. IsRecord(j)
    BY <2>1 DEF IsRecord, Fields
  <2>3. /\ Core(j, k) /\ Channel(j) /\ j.ctrl = k.ctrl /\ j.rhb = k.rhb /\ j.swt = k.swt
        /\ j.bwReq = k.bwReq /\ j.swtAck = k.swtAck /\ j.bw = 1201 /\ j.excused = k.excused
    BY <2>1, <2>2 DEF Core, Channel, Hearts, Control, IsRecord, Fields
  <2>4. Limited(j)
    BY <1>1, <2>3 DEF Limited, Core
  <2>5. LimitSent(j) /\ SwitchSent(j)
    BY <2>3, CoreWays DEF LimitSent, SwitchSent
  <2> QED
    BY <2>3, <2>4, <2>5 DEF Steered, IdleIsDone, Pending
<1>2. CASE ~fine
  <2>1. PICK i : i = [k EXCEPT !.bwReq = k.bwOpt, !.bw = 1202]
    OBVIOUS
  <2>2. j = evtSendControl(i, "bw")
    BY <1>2, <2>1 DEF evtCheckBW
  <2>3. IsRecord(i)
    BY <2>1 DEF IsRecord, Fields
  <2>4. /\ Core(i, k) /\ Channel(i) /\ i.ctrl = k.ctrl /\ i.rhb = k.rhb /\ i.swt = k.swt
        /\ i.swtAck = k.swtAck /\ i.bw = 1202 /\ i.excused = k.excused
    BY <2>1, <2>3 DEF Core, Channel, Hearts, Control, IsRecord, Fields
  <2>5. SwitchSent(i) /\ OneWay(i)
    BY <2>4, CoreWays, OneWayKept DEF SwitchSent
  <2>6. Steered(j, i) /\ SameRequests(j, i) /\ SwitchSent(j) /\ LimitSent(j)
    BY <2>2, <2>3, <2>4, <2>5, SendKeeps
  <2>7. Core(j, k)
    BY <2>4, <2>6, CoreTrans DEF Steered
  <2> QED
    BY <2>4, <2>6, <2>7 DEF Steered, SameRequests, Limited
<1> QED
  BY <1>1, <1>2

(* RecheckTransport and evtExtSetRequestedMaxBandwidth settle what was     *)
(* unsettled by a change of the options.                                   *)
LEMMA RecheckKeeps ==
    ASSUME NEW k, IsRecord(k), OneWay(k), Channel(k), Quiet(k), SwitchSent(k), LimitSent(k),
           IdleIsDone(k), Limited(k), NEW j, j = RecheckTransport(k)
    PROVE  /\ Core(j, k) /\ Channel(j) /\ Quiet(j) /\ SwitchSent(j) /\ LimitSent(j)
           /\ IdleIsDone(j) /\ Switched(j) /\ Limited(j)
           /\ (j.swt # 0 <=> k.swt # 0) /\ j.bw = k.bw
<1>1. CASE k.swt = 1301
  <2> DEFINE i == [k EXCEPT !.swt = 1300]
  <2>1. j = evtCheckTransport(i) /\ IsRecord(i)
    BY <1>1 DEF RecheckTransport, IsRecord, Fields
  <2>2. /\ Core(i, k) /\ Channel(i) /\ i.ctrl = k.ctrl /\ i.rhb = k.rhb /\ i.swt = 1300
        /\ i.bw = k.bw /\ i.bwReq = k.bwReq /\ i.bwAck = k.bwAck
    BY <2>1 DEF Core, Channel, Hearts, Control, IsRecord, Fields
  <2> HIDE DEF i
  <2>3. OneWay(i) /\ LimitSent(i) /\ (i.ctrl = 1101 => i.bw # 1202 /\ i.rhb # 324)
    BY <2>2, CoreWays, OneWayKept DEF LimitSent, IdleIsDone, Pending
  <2>4. /\ Steered(j, i) /\ j.swt \in {1301, 1302} /\ j.bw = i.bw /\ j.bwReq = i.bwReq
        /\ SwitchSent(j) /\ LimitSent(j) /\ Switched(j)
    BY <2>1, <2>2, <2>3, CheckTransportKeeps DEF Quiet
  <2>5. Core(j, k)
    BY <2>2, <2>4, CoreTrans DEF Steered
  <2>6. Quiet(j) /\ Limited(j)
    BY <2>2, <2>4, <2>5 DEF Quiet, Limited, Core, Steered
  <2> QED
    BY <1>1, <2>2, <2>4, <2>5, <2>6 DEF Steered
<1>2. CASE k.swt # 1301
  <2>1. j = k
    BY <1>2 DEF RecheckTransport
  <2>2. Core(k, k) /\ Switched(k)
    BY <1>2 DEF Core, Switched
  <2> QED
    BY <2>1, <2>2
<1> QED
  BY <1>1, <1>2

LEMMA RecheckInv ==
    ASSUME NEW k, IsRecord(k), Base(k), Channel(k), Quiet(k), SwitchSent(k), LimitSent(k),
           IdleIsDone(k), Limited(k), NEW j, j = RecheckTransport(k)
    PROVE  Inv(j) /\ j.m = k.m
<1>1. /\ Core(j, k) /\ Channel(j) /\ Quiet(j) /\ SwitchSent(j) /\ LimitSent(j)
      /\ IdleIsDone(j) /\ Switched(j) /\ Limited(j)
      /\ (j.swt # 0 <=> k.swt # 0) /\ j.bw = k.bw
  BY BaseOneWay, RecheckKeeps
<1>2. Base(j)
  BY <1>1, CoreBase
<1>3. IsRecord(j) /\ j.m = k.m
  BY <1>1 DEF Core
<1> QED
  BY <1>1, <1>2, <1>3 DEF Inv

LEMMA RelimitInv ==
    ASSUME NEW k, IsRecord(k), Base(k), Channel(k), Quiet(k), SwitchSent(k), LimitSent(k),
           IdleIsDone(k), Switched(k), NEW j, j = evtExtSetRequestedMaxBandwidth(k)
    PROVE  Inv(j) /\ j.m = k.m
<1>1. CASE k.bw = 1201
  <2> DEFINE i == [k EXCEPT !.bw = 1200]
  <2>1. j = evtCheckBW(i) /\ IsRecord(i)
    BY <1>1 DEF evtExtSetRequestedMaxBandwidth, IsRecord, Fields
  <2>2. /\ Core(i, k) /\ Channel(i) /\ i.ctrl = k.ctrl /\ i.rhb = k.rhb /\ i.bw = 1200
        /\ i.swt = k.swt /\ i.excused = k.excused /\ i.swtAck = k.swtAck
    BY <2>1 DEF Core, Channel, Hearts, Control, IsRecord, Fields
  <2> HIDE DEF i
  <2>3. OneWay(i) /\ SwitchSent(i) /\ (i.ctrl = 1101 => i.swt # 1302 /\ i.rhb # 324)
    BY <2>2, CoreWays, BaseOneWay, OneWayKept DEF SwitchSent, IdleIsDone, Pending
  <2>4. /\ Steered(j, i) /\ j.bw \in {1201, 1202} /\ j.swt = i.swt /\ j.excused = i.excused
        /\ SwitchSent(j) /\ LimitSent(j) /\ Limited(j)
    BY <2>1, <2>2, <2>3, CheckBWKeeps DEF Quiet
  <2>5. Core(j, k)
    BY <2>2, <2>4, CoreTrans DEF Steered
  <2>6. Base(j)
    BY <1>1, <2>2, <2>4, <2>5, CoreBase
  <2>7. Quiet(j) /\ Switched(j)
    BY <2>2, <2>4, <2>5, CoreWays DEF Quiet, Switched, Core, Steered
  <2> QED
    BY <2>4, <2>5, <2>6, <2>7 DEF Inv, Steered, Core
<1>2. CASE k.bw # 1201
  BY <1>2 DEF evtExtSetRequestedMaxBandwidth, Inv, Limited
<1> QED
  BY <1>1, <1>2

-----------------------------------------------------------------------------
(* Leaving: what a state may have armed and opened, and the state in which *)
(* none of it is left.                                                     *)
Leavable(k) ==
    /\ IsRecord(k)
    /\ k.m \in {100, 111, 112, 113, 117, 120, 121, 122, 130, 140, 150}
    /\ k.tr \in {0, 200, 210, 220, 230, 240, 250, 260, 270} /\ k.h \in {0, 710, 720}
    /\ k.tr # 0 <=> k.m = 150
    /\ k.w_k # 0 => k.tr = 210
    /\ k.ws_m # 0 \/ k.ws_k # 0 => k.tr = 240
    /\ k.wp_m # 0 \/ k.wp_p # 0 => k.tr = 250
    /\ k.h # 0 <=> k.tr = 270
    /\ k.ctrl # 0 => k.tr = 270
    /\ k.hs_m # 0 \/ k.hs_p # 0 \/ k.hs_k # 0 => k.h = 710
    /\ k.hp_m # 0 => k.h = 720
    /\ k.rhb # 0 => k.tr \in {210, 240, 270}
    /\ k.slw # 0 => k.tr \in {210, 240} \/ k.h = 710
    /\ "transport" \in k.timers =>
          k.m \in {120, 121, 122, 130, 140} \/ k.tr \in {220, 230, 240, 250, 260} \/ k.h = 710
    /\ "retry" \in k.timers => k.m \in {111, 112, 113} \/ k.tr = 260
    /\ "recovery" \in k.timers => k.tr = 260
    /\ {"keepalive", "stalled", "reconnect"} \cap k.timers # {} => k.tr \in {210, 240} \/ k.h = 710
    /\ {"idle", "polling"} \cap k.timers # {} => k.tr = 250 \/ k.h = 720
    /\ "ctrl" \in k.timers => k.tr = 270
    /\ "rhb" \in k.timers => k.tr \in {210, 240, 270}
    /\ k.stray \subseteq {"rhb"}
    /\ "ws" \in k.conns => k.m \in {120, 121, 122} \/ k.tr \in {210, 240, 250}
    /\ "http" \in k.conns => k.m \in {130, 140} \/ k.tr \in {220, 230, 260, 270}
    /\ "ctrl" \in k.conns => k.tr = 270
    /\ k.orphans = {}

Out(k) ==
    /\ k.w_k = 0 /\ k.ws_m = 0 /\ k.ws_k = 0 /\ k.wp_m = 0 /\ k.wp_p = 0 /\ k.h = 0
    /\ k.hs_m = 0 /\ k.hs_p = 0 /\ k.hs_k = 0 /\ k.hp_m = 0 /\ k.ctrl = 0
    /\ k.rhb = 0 /\ k.slw = 0
    /\ k.timers = {} /\ k.stray \subseteq {"rhb"} /\ k.conns = {} /\ k.orphans = {}

(* What is left as it is.                                                  *)
Kept(j, k) ==
    /\ j.m = k.m /\ j.du = k.du /\ j.tr = k.tr /\ j.rec = k.rec /\ j.swt = k.swt /\ j.bw = k.bw
    /\ j.nr = k.nr /\ j.status = k.status /\ j.sid = k.sid /\ j.disabled = k.disabled
    /\ j.forced = k.forced /\ j.bwOpt = k.bwOpt /\ j.bwReq = k.bwReq
    /\ j.unmanaged = k.unmanaged /\ j.excused = k.excused /\ j.attempts = k.attempts

LEMMA ClearedRecord ==
    ASSUME NEW k, IsRecord(k)
    PROVE  IsRecord(clear_hs(k)) /\ IsRecord(clear_hp(k)) /\ IsRecord(clear_ctrl(k))
  BY DEF IsRecord, Fields, clear_hs, clear_hp, clear_ctrl, None

LEMMA LeaveOut ==
    ASSUME NEW k, Leavable(k), k.m = 150, NEW j, j = Leave(k)
    PROVE  IsRecord(j) /\ Out(j) /\ Kept(j, k)
<1>0. IsRecord(k) /\ k.tr # 0
  BY DEF Leavable
<1>1. CASE k.tr = 210
  <2>1. j = exit_w(clear_w(disposeWS(k)))
    BY <1>1 DEF Leave
  <2>2. IsRecord(j)
    BY <1>0, <2>1 DEF exit_w, clear_w, disposeWS, Dispose, Forget, Cancel, IsRecord, Fields
  <2>3. Kept(j, k)
    BY <1>0, <2>1 DEF Kept, exit_w, clear_w, disposeWS, Dispose, Forget, Cancel, IsRecord, Fields
  <2>4. /\ j.w_k = 0 /\ j.ws_m = k.ws_m /\ j.ws_k = k.ws_k /\ j.wp_m = k.wp_m /\ j.wp_p = k.wp_p
        /\ j.h = k.h /\ j.hs_m = k.hs_m /\ j.hs_p = k.hs_p /\ j.hs_k = k.hs_k /\ j.hp_m = k.hp_m
        /\ j.ctrl = k.ctrl /\ j.rhb = 0 /\ j.slw = 0
        /\ j.timers = k.timers \ (KeepaliveUnit \cup {"rhb"}) /\ j.stray = k.stray
        /\ j.conns = k.conns \ {"ws"} /\ j.orphans = k.orphans
    BY <1>0, <2>1 DEF exit_w, clear_w, disposeWS, Dispose, Forget, Cancel, IsRecord, Fields, None
  <2>5. Out(j)
    BY <1>1, <2>4 DEF Out, Leavable, IsRecord, TimerNames, Kinds, KeepaliveUnit
  <2> QED
    BY <2>2, <2>3, <2>5
<1>2. CASE k.tr = 240
  <2>1. j = exit_ws(clear_ws(disposeWS(k)))
    BY <1>2 DEF Leave
  <2>2. IsRecord(j)
    BY <1>0, <2>1 DEF exit_ws, clear_ws, disposeWS, Dispose, Forget, Cancel, IsRecord, Fields
  <2>3. Kept(j, k)
    BY <1>0, <2>1 DEF Kept, exit_ws, clear_ws, disposeWS, Dispose, Forget, Cancel, IsRecord, Fields
  <2>4. /\ j.w_k = k.w_k /\ j.wp_m = k.wp_m /\ j.wp_p = k.wp_p /\ j.h = k.h /\ j.hs_m = k.hs_m /\ j.hs_p = k.hs_p /\ j.hs_k = k.hs_k /\ j.hp_m = k.hp_m /\ j.ctrl = k.ctrl
        /\ j.ws_m = 0 /\ j.ws_k = 0 /\ j.rhb = 0 /\ j.slw = 0
        /\ j.timers = k.timers \ (KeepaliveUnit \cup {"rhb", "transport"}) /\ j.stray = k.stray
        /\ j.conns = k.conns \ {"ws"} /\ j.orphans = k.orphans
    BY <1>0, <2>1 DEF exit_ws, clear_ws, disposeWS, Dispose, Forget, Cancel, IsRecord, Fields, None
  <2>5. Out(j)
    BY <1>2, <2>4 DEF Out, Leavable, IsRecord, TimerNames, Kinds, KeepaliveUnit
  <2> QED
    BY <2>2, <2>3, <2>5
<1>3. CASE k.tr = 250
  <2>1. j = exit_wp(clear_wp(disposeWS(k)))
    BY <1>3 DEF Leave
  <2>2. IsRecord(j)
    BY <1>0, <2>1 DEF exit_wp, clear_wp, disposeWS, Dispose, Forget, Cancel, IsRecord, Fields
  <2>3. Kept(j, k)
    BY <1>0, <2>1 DEF Kept, exit_wp, clear_wp, disposeWS, Dispose, Forget, Cancel, IsRecord, Fields
  <2>4. /\ j.w_k = k.w_k /\ j.ws_m = k.ws_m /\ j.ws_k = k.ws_k /\ j.h = k.h /\ j.hs_m = k.hs_m /\ j.hs_p = k.hs_p /\ j.hs_k = k.hs_k /\ j.hp_m = k.hp_m /\ j.ctrl = k.ctrl /\ j.rhb = k.rhb /\ j.slw = k.slw
        /\ j.wp_m = 0 /\ j.wp_p = 0
        /\ j.timers = k.timers \ {"transport", "idle", "polling"} /\ j.stray = k.stray
        /\ j.conns = k.conns \ {"ws"} /\ j.orphans = k.orphans
    BY <1>0, <2>1 DEF exit_wp, clear_wp, disposeWS, Dispose, Forget, Cancel, IsRecord, Fields, None
  <2>5. Out(j)
    BY <1>3, <2>4 DEF Out, Leavable, IsRecord, TimerNames, Kinds, KeepaliveUnit
  <2> QED
    BY <2>2, <2>3, <2>5
<1>4. CASE k.tr \in {220, 230}
  <2>1. j = Cancel(disposeHTTP(k), {"transport"})
    BY <1>4 DEF Leave
  <2>2. IsRecord(j)
    BY <1>0, <2>1 DEF disposeHTTP, Dispose, Forget, Cancel, IsRecord, Fields
  <2>3. Kept(j, k)
    BY <1>0, <2>1 DEF Kept, disposeHTTP, Dispose, Forget, Cancel, IsRecord, Fields
  <2>4. /\ j.w_k = k.w_k /\ j.ws_m = k.ws_m /\ j.ws_k = k.ws_k /\ j.wp_m = k.wp_m /\ j.wp_p = k.wp_p /\ j.h = k.h /\ j.hs_m = k.hs_m /\ j.hs_p = k.hs_p /\ j.hs_k = k.hs_k /\ j.hp_m = k.hp_m /\ j.ctrl = k.ctrl /\ j.rhb = k.rhb /\ j.slw = k.slw
        /\ j.timers = k.timers \ {"transport"} /\ j.stray = k.stray
        /\ j.conns = k.conns \ {"http"} /\ j.orphans = k.orphans
    BY <1>0, <2>1 DEF disposeHTTP, Dispose, Forget, Cancel, IsRecord, Fields, None
  <2>5. Out(j)
    BY <1>4, <2>4 DEF Out, Leavable, IsRecord, TimerNames, Kinds, KeepaliveUnit
  <2> QED
    BY <2>2, <2>3, <2>5
<1>5. CASE k.tr = 260
  <2>1. j = exit_rec(disposeHTTP(k))
    BY <1>5 DEF Leave
  <2>2. IsRecord(j)
    BY <1>0, <2>1 DEF exit_rec, disposeHTTP, Dispose, Forget, Cancel, IsRecord, Fields
  <2>3. Kept(j, k)
    BY <1>0, <2>1 DEF Kept, exit_rec, disposeHTTP, Dispose, Forget, Cancel, IsRecord, Fields
  <2>4. /\ j.w_k = k.w_k /\ j.ws_m = k.ws_m /\ j.ws_k = k.ws_k /\ j.wp_m = k.wp_m /\ j.wp_p = k.wp_p /\ j.h = k.h /\ j.hs_m = k.hs_m /\ j.hs_p = k.hs_p /\ j.hs_k = k.hs_k /\ j.hp_m = k.hp_m /\ j.ctrl = k.ctrl /\ j.rhb = k.rhb /\ j.slw = k.slw
        /\ j.timers = k.timers \ {"recovery", "transport", "retry"} /\ j.stray = k.stray
        /\ j.conns = k.conns \ {"http"} /\ j.orphans = k.orphans
    BY <1>0, <2>1 DEF exit_rec, disposeHTTP, Dispose, Forget, Cancel, IsRecord, Fields, None
  <2>5. Out(j)
    BY <1>5, <2>4 DEF Out, Leavable, IsRecord, TimerNames, Kinds, KeepaliveUnit
  <2> QED
    BY <2>2, <2>3, <2>5
<1>6. CASE k.tr = 270 /\ k.h = 710
  <2>1. j = exit_hs(exit_ctrl(clear_ctrl(clear_hs(disposeHTTP(k)))))
    BY <1>6 DEF Leave
  <2>2. IsRecord(j)
    BY <1>0, <2>1, Disposed, Cancelled, ClearedRecord DEF exit_hs, exit_ctrl, disposeHTTP, disposeCtrl
  <2>3. Kept(j, k)
    BY <1>0, <2>1 DEF Kept, exit_hs, exit_ctrl, clear_ctrl, clear_hs, disposeHTTP, disposeCtrl, Dispose, Forget, Cancel, IsRecord, Fields
  <2>4. /\ j.w_k = k.w_k /\ j.ws_m = k.ws_m /\ j.ws_k = k.ws_k /\ j.wp_m = k.wp_m /\ j.wp_p = k.wp_p /\ j.hp_m = k.hp_m
        /\ j.h = 0 /\ j.ctrl = 0 /\ j.hs_m = 0 /\ j.hs_p = 0 /\ j.hs_k = 0 /\ j.rhb = 0 /\ j.slw = 0
        /\ j.timers = k.timers \ (KeepaliveUnit \cup {"rhb", "transport", "ctrl"}) /\ j.stray = k.stray
        /\ j.conns = k.conns \ {"http", "ctrl"} /\ j.orphans = k.orphans
    BY <1>0, <2>1 DEF exit_hs, exit_ctrl, clear_ctrl, clear_hs, disposeHTTP, disposeCtrl, Dispose, Forget, Cancel, IsRecord, Fields, None
  <2>5. Out(j)
    BY <1>6, <2>4 DEF Out, Leavable, IsRecord, TimerNames, Kinds, KeepaliveUnit
  <2> QED
    BY <2>2, <2>3, <2>5
<1>7. CASE k.tr = 270 /\ k.h = 720
  <2>1. j = exit_hp(exit_ctrl(clear_ctrl(clear_hp(disposeHTTP(k)))))
    BY <1>7 DEF Leave
  <2>2. IsRecord(j)
    BY <1>0, <2>1, Disposed, Cancelled, ClearedRecord DEF exit_hp, exit_ctrl, disposeHTTP, disposeCtrl
  <2>3. Kept(j, k)
    BY <1>0, <2>1 DEF Kept, exit_hp, exit_ctrl, clear_ctrl, clear_hp, disposeHTTP, disposeCtrl, Dispose, Forget, Cancel, IsRecord, Fields
  <2>4. /\ j.w_k = k.w_k /\ j.ws_m = k.ws_m /\ j.ws_k = k.ws_k /\ j.wp_m = k.wp_m /\ j.wp_p = k.wp_p /\ j.hs_m = k.hs_m /\ j.hs_p = k.hs_p /\ j.hs_k = k.hs_k /\ j.slw = k.slw
        /\ j.h = 0 /\ j.ctrl = 0 /\ j.hp_m = 0 /\ j.rhb = 0
        /\ j.timers = k.timers \ {"idle", "polling", "rhb", "ctrl"} /\ j.stray = k.stray
        /\ j.conns = k.conns \ {"http", "ctrl"} /\ j.orphans = k.orphans
    BY <1>0, <2>1 DEF exit_hp, exit_ctrl, clear_ctrl, clear_hp, disposeHTTP, disposeCtrl, Dispose, Forget, Cancel, IsRecord, Fields, None
  <2>5. Out(j)
    BY <1>7, <2>4 DEF Out, Leavable, IsRecord, TimerNames, Kinds, KeepaliveUnit
  <2> QED
    BY <2>2, <2>3, <2>5
<1>8. CASE k.tr = 200
  <2>1. j = k
    BY <1>8 DEF Leave
  <2>2. Out(j)
    BY <1>8, <2>1 DEF Out, Leavable, IsRecord, TimerNames, Kinds
  <2> QED
    BY <1>0, <2>1, <2>2 DEF Kept
<1> QED
  BY <1>0, <1>1, <1>2, <1>3, <1>4, <1>5, <1>6, <1>7, <1>8 DEF Leavable

LEMMA TearDownOut ==
    ASSUME NEW k, Leavable(k), NEW j, j = TearDown(k)
    PROVE  IsRecord(j) /\ Out(j) /\ Kept(j, k)
<1>0. IsRecord(k)
  BY DEF Leavable
<1>1. CASE k.m = 150
  <2>1. j = Leave(k)
    BY <1>1 DEF TearDown
  <2> QED
    BY <1>1, <2>1, LeaveOut
<1>2. CASE k.m # 150
  <2> DEFINE Same(i) == /\ i.w_k = k.w_k /\ i.ws_m = k.ws_m /\ i.ws_k = k.ws_k /\ i.wp_m = k.wp_m
                        /\ i.wp_p = k.wp_p /\ i.h = k.h /\ i.hs_m = k.hs_m /\ i.hs_p = k.hs_p
                        /\ i.hs_k = k.hs_k /\ i.hp_m = k.hp_m /\ i.ctrl = k.ctrl /\ i.rhb = k.rhb
                        /\ i.slw = k.slw /\ i.stray = k.stray /\ i.orphans = k.orphans
  <2>1. IsRecord(j)
    BY <1>0, <1>2, Disposed, Cancelled DEF TearDown, disposeWS, disposeHTTP, Kinds
  <2>2. CASE k.m \in {120, 121, 122}
    <3>1. Same(j) /\ Kept(j, k) /\ j.timers = k.timers \ {"transport"} /\ j.conns = k.conns \ {"ws"}
      BY <1>0, <2>2 DEF TearDown, disposeWS, Dispose, Forget, Cancel, Kept, IsRecord, Fields
    <3> QED
      BY <2>1, <2>2, <3>1 DEF Out, Leavable, IsRecord, TimerNames, Kinds
  <2>3. CASE k.m \in {130, 140}
    <3>1. Same(j) /\ Kept(j, k) /\ j.timers = k.timers \ {"transport"} /\ j.conns = k.conns \ {"http"}
      BY <1>0, <2>3 DEF TearDown, disposeHTTP, Dispose, Forget, Cancel, Kept, IsRecord, Fields
    <3> QED
      BY <2>1, <2>3, <3>1 DEF Out, Leavable, IsRecord, TimerNames, Kinds
  <2>4. CASE k.m \notin {120, 121, 122, 130, 140}
    <3>1. Same(j) /\ Kept(j, k) /\ j.timers = k.timers \ {"retry"} /\ j.conns = k.conns
      BY <1>0, <1>2, <2>4 DEF TearDown, Cancel, Kept, IsRecord, Fields
    <3> QED
      BY <1>2, <2>1, <2>4, <3>1 DEF Out, Leavable, IsRecord, TimerNames, Kinds
  <2> QED
    BY <2>2, <2>3, <2>4
<1> QED
  BY <1>1, <1>2

(* What outlives the session.                                              *)
Lasting(k) ==
    /\ k.du \in {20, 21, 22, 23} /\ k.rec \in {0, 1000, 1001, 1003}
    /\ k.nr \in {1400, 1410, 1411, 1412}
    /\ SessionRecovery \/ k.rec = 0
    /\ k.attempts <= MaxRecoveryAttempts

(* Between a session and the next one, or before the first.                *)
Between(k) ==
    /\ IsRecord(k) /\ Out(k) /\ Lasting(k)
    /\ k.tr = 0 /\ k.swt = 0 /\ k.bw = 0 /\ k.du \in {20, 23}

LEMMA DisposedKeeps ==
    ASSUME NEW k, IsRecord(k), Out(k), NEW kind \in Kinds, NEW j, j = Dispose(k, kind)
    PROVE  /\ IsRecord(j) /\ Out(j)
           /\ j.m = k.m /\ j.du = k.du /\ j.tr = k.tr /\ j.rec = k.rec /\ j.swt = k.swt
           /\ j.bw = k.bw /\ j.nr = k.nr /\ j.status = k.status /\ j.sid = k.sid
           /\ j.disabled = k.disabled /\ j.attempts = k.attempts
<1>1. IsRecord(j)
  BY Disposed
<1> QED
  BY <1>1 DEF Dispose, Forget, Out, IsRecord, Fields

LEMMA DisposedSession ==
    ASSUME NEW k, IsRecord(k), Out(k), NEW j, j = disposeSession(k)
    PROVE  /\ IsRecord(j) /\ Out(j)
           /\ j.m = k.m /\ j.du = k.du /\ j.tr = k.tr /\ j.rec = k.rec /\ j.swt = k.swt
           /\ j.bw = k.bw /\ j.nr = k.nr /\ j.status = k.status /\ j.sid = k.sid
           /\ j.disabled = k.disabled /\ j.attempts = k.attempts
<1> DEFINE w == Dispose(k, "ws")
           h == Dispose(w, "http")
           i == Dispose(h, "ctrl")
<1>1. /\ IsRecord(w) /\ Out(w)
      /\ w.m = k.m /\ w.du = k.du /\ w.tr = k.tr /\ w.rec = k.rec /\ w.swt = k.swt
      /\ w.bw = k.bw /\ w.nr = k.nr /\ w.status = k.status /\ w.sid = k.sid
      /\ w.disabled = k.disabled /\ w.attempts = k.attempts
  BY DisposedKeeps DEF Kinds
<1> HIDE DEF w
<1>2. /\ IsRecord(h) /\ Out(h)
      /\ h.m = w.m /\ h.du = w.du /\ h.tr = w.tr /\ h.rec = w.rec /\ h.swt = w.swt
      /\ h.bw = w.bw /\ h.nr = w.nr /\ h.status = w.status /\ h.sid = w.sid
      /\ h.disabled = w.disabled /\ h.attempts = w.attempts
  BY <1>1, DisposedKeeps DEF Kinds
<1> HIDE DEF h
<1>4. /\ IsRecord(i) /\ Out(i)
      /\ i.m = h.m /\ i.du = h.du /\ i.tr = h.tr /\ i.rec = h.rec /\ i.swt = h.swt
      /\ i.bw = h.bw /\ i.nr = h.nr /\ i.status = h.status /\ i.sid = h.sid
      /\ i.disabled = h.disabled /\ i.attempts = h.attempts
  BY <1>2, DisposedKeeps DEF Kinds
<1>3. j = [i EXCEPT !.bwReq = None, !.unmanaged = FALSE, !.addressKnown = FALSE,
                    !.bwAck = "none", !.swtAck = "none"]
  BY DEF disposeSession, disposeWS, disposeHTTP, disposeCtrl, w, h
<1> HIDE DEF i
<1> QED
  BY <1>1, <1>2, <1>3, <1>4 DEF Out, IsRecord, Fields

LEMMA RetryBetween ==
    ASSUME NEW k, IsRecord(k), Out(k), Lasting(k), k.tr = 0, k.swt = 0, k.bw = 0,
           NEW j, j = evtRetry(k)
    PROVE  Between(j) /\ j.m = k.m /\ j.status = k.status
<1>1. CASE k.du = 22
  <2> DEFINE i == disposeSession(k)
  <2>1. j = [i EXCEPT !.du = 23]
    BY <1>1 DEF evtRetry
  <2>2. /\ IsRecord(i) /\ Out(i)
        /\ i.m = k.m /\ i.du = k.du /\ i.tr = k.tr /\ i.rec = k.rec /\ i.swt = k.swt
        /\ i.bw = k.bw /\ i.nr = k.nr /\ i.status = k.status /\ i.attempts = k.attempts
    BY DisposedSession
  <2> HIDE DEF i
  <2> QED
    BY <2>1, <2>2 DEF Between, Out, Lasting, IsRecord, Fields
<1>2. CASE k.du = 21
  BY <1>2 DEF evtRetry, Between, Out, Lasting, IsRecord, Fields
<1>3. CASE k.du \in {20, 23}
  BY <1>3 DEF evtRetry, Between, Lasting
<1> QED
  BY <1>1, <1>2, <1>3 DEF Lasting

LEMMA SessionOver ==
    ASSUME NEW k, IsRecord(k), Out(k), Lasting(k), NEW s \in Nat,
           NEW j, j = evtRetry([goto_m_from_session(k, s) EXCEPT !.status = WILL_RETRY])
    PROVE  Between(j) /\ j.m = s /\ j.status = WILL_RETRY
<1> DEFINE i == [goto_m_from_session(k, s) EXCEPT !.status = WILL_RETRY]
<1>1. IsRecord(i)
  BY DEF goto_m_from_session, IsRecord, Fields, Statuses, None
<1>2. Out(i) /\ Lasting(i) /\ i.tr = 0 /\ i.swt = 0 /\ i.bw = 0 /\ i.m = s /\ i.status = WILL_RETRY
  BY DEF goto_m_from_session, Out, Lasting, IsRecord, Fields, None
<1> HIDE DEF i
<1>3. j = evtRetry(i)
  BY DEF i
<1> QED
  BY <1>1, <1>2, <1>3, RetryBetween

LEMMA BetweenInv ==
    ASSUME NEW k, Between(k),
           \/ k.m = 117 /\ k.status \in {DISCONNECTED, WILL_RETRY}
           \/ k.m = 100 /\ k.status = DISCONNECTED /\ k.du = 20 /\ ~k.sid /\ k.disabled = {}
              /\ k.nr = 1400
    PROVE  Inv(k)
<1>1. InRegions(k) /\ Timers(k)
  BY DEF Between, Out, Lasting, InRegions, Timers
<1>2. Conns(k) /\ Parts(k)
  BY DEF Between, Out, Conns, Parts
<1>3. Attempts(k) /\ Status(k)
  BY DEF Between, Lasting, Attempts, Status
<1>4. Channel(k) /\ Quiet(k) /\ SwitchSent(k) /\ LimitSent(k) /\ IdleIsDone(k)
  BY DEF Between, Out, Channel, Hearts, Control, Quiet, SwitchSent, LimitSent, IdleIsDone
<1>5. Switched(k) /\ Limited(k)
  BY DEF Between, Switched, Limited
<1> QED
  BY <1>1, <1>2, <1>3, <1>4, <1>5 DEF Inv, Base, Between

LEMMA EnterRetryInv ==
    ASSUME NEW k, IsRecord(k), Out(k), Lasting(k), NEW s \in {111, 112, 113},
           NEW j, j = EnterRetry(k, s)
    PROVE  Inv(j) /\ j.m = s
<1> DEFINE i == evtRetry([goto_m_from_session(k, s) EXCEPT !.status = WILL_RETRY])
<1>1. Between(i) /\ i.m = s /\ i.status = WILL_RETRY
  BY SessionOver
<1>2. j = Schedule(i, "retry")
  BY DEF EnterRetry
<1> HIDE DEF i
<1>3. IsRecord(j)
  BY <1>1, <1>2, Scheduled DEF Between, TimerNames
<1>4. /\ j.timers = {"retry"} /\ j.stray = i.stray /\ j.conns = {} /\ j.orphans = {}
      /\ j.w_k = 0 /\ j.ws_m = 0 /\ j.ws_k = 0 /\ j.wp_m = 0 /\ j.wp_p = 0 /\ j.h = 0
      /\ j.hs_m = 0 /\ j.hs_p = 0 /\ j.hs_k = 0 /\ j.hp_m = 0 /\ j.ctrl = 0
      /\ j.rhb = 0 /\ j.slw = 0 /\ j.tr = 0 /\ j.swt = 0 /\ j.bw = 0
      /\ j.m = s /\ j.status = WILL_RETRY /\ j.du = i.du /\ j.rec = i.rec /\ j.nr = i.nr
      /\ j.attempts = i.attempts
  BY <1>1, <1>2 DEF Between, Out, Schedule, IsRecord, Fields
<1>5. InRegions(j) /\ Timers(j)
  BY <1>1, <1>4 DEF Between, Lasting, InRegions, Timers
<1>6. Conns(j) /\ Parts(j)
  BY <1>1, <1>4 DEF Between, Conns, Parts
<1>7. Attempts(j) /\ Status(j)
  BY <1>1, <1>4 DEF Between, Lasting, Attempts, Status
<1>8. Channel(j) /\ Quiet(j) /\ SwitchSent(j) /\ LimitSent(j) /\ IdleIsDone(j)
  BY <1>1, <1>4 DEF Between, Out, Channel, Hearts, Control, Quiet, SwitchSent, LimitSent, IdleIsDone
<1>9. Switched(j) /\ Limited(j)
  BY <1>4 DEF Switched, Limited
<1> QED
  BY <1>3, <1>4, <1>5, <1>6, <1>7, <1>8, <1>9 DEF Inv, Base

LEMMA TerminateInv ==
    ASSUME NEW k, Leavable(k), Lasting(k), NEW j, j = Terminate(k)
    PROVE  Inv(j) /\ j.m = 100
<1> DEFINE d == TearDown(k)
           g == [goto_m_from_session(d, 100) EXCEPT !.status = DISCONNECTED]
           e == IF g.du = 22 THEN disposeSession(g) ELSE g
<1>1. IsRecord(d) /\ Out(d) /\ Kept(d, k)
  BY TearDownOut
<1>2. j = evtTerminate(g)
  BY DEF Terminate
<1> HIDE DEF d
<1>3. IsRecord(g)
  BY <1>1 DEF goto_m_from_session, IsRecord, Fields, Statuses, None
<1>4. Out(g) /\ Lasting(g) /\ g.tr = 0 /\ g.swt = 0 /\ g.bw = 0 /\ g.m = 100 /\ g.status = DISCONNECTED
  BY <1>1 DEF goto_m_from_session, Out, Lasting, Kept, IsRecord, Fields, None
<1> HIDE DEF g
<1>5. /\ IsRecord(e) /\ Out(e)
      /\ e.m = 100 /\ e.tr = 0 /\ e.rec = g.rec /\ e.swt = 0 /\ e.bw = 0
      /\ e.status = DISCONNECTED /\ e.attempts = g.attempts
  BY <1>3, <1>4, DisposedSession
<1>6. j = [enableAllTransports(e) EXCEPT
             !.sid = FALSE, !.installed = FALSE, !.du = 20, !.nr = 1400]
  BY <1>2 DEF evtTerminate
<1> HIDE DEF e
<1>7. IsRecord(j)
  BY <1>5, <1>6 DEF enableAllTransports, IsRecord, Fields
<1>8. /\ Out(j) /\ j.m = 100 /\ j.tr = 0 /\ j.rec = g.rec /\ j.swt = 0 /\ j.bw = 0
      /\ j.status = DISCONNECTED /\ j.attempts = g.attempts /\ j.du = 20 /\ ~j.sid
      /\ j.disabled = {} /\ j.nr = 1400
  BY <1>5, <1>6 DEF enableAllTransports, Out, IsRecord, Fields
<1>9. Between(j)
  BY <1>4, <1>7, <1>8 DEF Between, Lasting
<1> QED
  BY <1>8, <1>9, BetweenInv

LEMMA LoseSessionInv ==
    ASSUME NEW k, Leavable(k), Lasting(k), k.m = 150, k.du = 22, k.sid, Limited(k),
           k.swt \in {1301, 1302, 1303}, k.bw \in {1201, 1202},
           NEW s \in {112, 113}, NEW j, j = LoseSession(k, s)
    PROVE  Inv(j) /\ j.m \in {s, 150}
<1> DEFINE d == Leave(k)
<1>1. IsRecord(d) /\ Out(d) /\ Kept(d, k)
  BY LeaveOut
<1>2. j = IF SessionRecovery THEN entry_rec(d) ELSE EnterRetry(d, s)
  BY DEF LoseSession
<1> HIDE DEF d
<1>3. CASE SessionRecovery
  <2> DEFINE e == [d EXCEPT !.status = TRYING_RECOVERY, !.tr = 260, !.rec = 1000, !.attempts = 0]
  <2>1. j = Schedule(e, "recovery")
    BY <1>2, <1>3 DEF entry_rec
  <2>2. IsRecord(e)
    BY <1>1 DEF IsRecord, Fields, Statuses
  <2>3. Out(e) /\ e.m = 150 /\ e.tr = 260 /\ e.rec = 1000 /\ e.attempts = 0 /\ e.du = 22 /\ e.sid
        /\ e.swt = k.swt /\ e.bw = k.bw /\ e.bwReq = k.bwReq /\ e.bwOpt = k.bwOpt
        /\ e.unmanaged = k.unmanaged /\ e.nr = k.nr /\ e.status = TRYING_RECOVERY
    <3>1. e.sid
      <4>1. e.sid = d.sid
        BY <1>1 DEF IsRecord, Fields
      <4>2. d.sid = k.sid
        BY <1>1 DEF Kept
      <4> HIDE DEF e
      <4> QED
        BY <4>1, <4>2
    <3>2. Out(e)
      BY <1>1 DEF Out, IsRecord, Fields
    <3> QED
      BY <1>1, <3>1, <3>2 DEF Kept, IsRecord, Fields
  <2> HIDE DEF e
  <2>4. IsRecord(j)
    BY <2>1, <2>2, Scheduled DEF TimerNames
  <2>5. /\ j.timers = {"recovery"} /\ j.stray = e.stray /\ j.conns = {} /\ j.orphans = {}
        /\ j.w_k = 0 /\ j.ws_m = 0 /\ j.ws_k = 0 /\ j.wp_m = 0 /\ j.wp_p = 0 /\ j.h = 0
        /\ j.hs_m = 0 /\ j.hs_p = 0 /\ j.hs_k = 0 /\ j.hp_m = 0 /\ j.ctrl = 0
        /\ j.rhb = 0 /\ j.slw = 0 /\ j.m = 150 /\ j.tr = 260 /\ j.rec = 1000 /\ j.attempts = 0
        /\ j.du = 22 /\ j.sid /\ j.swt = k.swt /\ j.bw = k.bw /\ j.bwReq = k.bwReq
        /\ j.bwOpt = k.bwOpt /\ j.unmanaged = k.unmanaged /\ j.nr = k.nr
        /\ j.status = TRYING_RECOVERY
    BY <2>1, <2>2, <2>3 DEF Out, Schedule, IsRecord, Fields
  <2>6. InRegions(j) /\ Timers(j)
    BY <2>5 DEF Lasting, InRegions, Timers
  <2>7. Conns(j) /\ Parts(j)
    BY <2>5 DEF Conns, Parts
  <2>8. Attempts(j) /\ Status(j)
    BY <1>3, <2>5, OptionsAssumption DEF Lasting, Attempts, Status
  <2>9. Channel(j) /\ Quiet(j) /\ SwitchSent(j) /\ LimitSent(j) /\ IdleIsDone(j)
    BY <2>3, <2>5 DEF Out, Channel, Hearts, Control, Quiet, SwitchSent, LimitSent, IdleIsDone,
                      SendsOnWS, None
  <2>10. Switched(j) /\ Limited(j)
    BY <2>5 DEF Switched, Limited
  <2> QED
    BY <2>4, <2>5, <2>6, <2>7, <2>8, <2>9, <2>10 DEF Inv, Base
<1>4. CASE ~SessionRecovery
  <2>1. j = EnterRetry(d, s) /\ Lasting(d)
    BY <1>1, <1>2, <1>4 DEF Lasting, Kept
  <2> QED
    BY <1>1, <2>1, EnterRetryInv
<1> QED
  BY <1>3, <1>4

-----------------------------------------------------------------------------
(* As Inv, but for timers that went off and transports that are disabled.  *)
Near(j, k) ==
    /\ IsRecord(j)
    /\ j.m = k.m /\ j.du = k.du /\ j.tr = k.tr /\ j.w_k = k.w_k
    /\ j.ws_m = k.ws_m /\ j.ws_k = k.ws_k /\ j.wp_m = k.wp_m /\ j.wp_p = k.wp_p
    /\ j.h = k.h /\ j.hs_m = k.hs_m /\ j.hs_p = k.hs_p /\ j.hs_k = k.hs_k
    /\ j.hp_m = k.hp_m /\ j.rec = k.rec /\ j.slw = k.slw /\ j.nr = k.nr
    /\ j.ctrl = k.ctrl /\ j.rhb = k.rhb /\ j.swt = k.swt /\ j.bw = k.bw
    /\ j.status = k.status /\ j.sid = k.sid /\ j.forced = k.forced
    /\ j.bwOpt = k.bwOpt /\ j.bwReq = k.bwReq /\ j.unmanaged = k.unmanaged
    /\ j.attempts = k.attempts /\ j.bwAck = k.bwAck /\ j.swtAck = k.swtAck
    /\ j.excused = k.excused
    /\ j.timers \subseteq k.timers /\ j.stray \subseteq k.stray
    /\ j.conns = k.conns /\ j.orphans = k.orphans

LEMMA NearLeavable ==
    ASSUME NEW k, Inv(k), NEW j, Near(j, k)
    PROVE  Leavable(j) /\ Lasting(j)
<1>0. IsRecord(j) /\ Base(k) /\ Channel(k)
  BY DEF Near, Inv
<1>1. Leavable(k)
  <2>0. IsRecord(k)
    BY DEF Inv
  <2>1. k.timers \subseteq TimerNames /\ k.conns \subseteq Kinds
    BY <2>0 DEF IsRecord
  <2> QED
    BY <1>0, <2>0 DEF Leavable, Base, Channel, InRegions, Timers, Conns, Parts, Hearts, Control
<1>2. Leavable(j)
  BY <1>0, <1>1 DEF Near, Leavable
<1>3. Lasting(j)
  BY <1>0 DEF Near, Base, InRegions, Attempts, Lasting
<1> QED
  BY <1>2, <1>3

LEMMA NearItself ==
    ASSUME NEW k, Inv(k)
    PROVE  Near(k, k)
  BY DEF Inv, Near

LEMMA Fires ==
    ASSUME Inv(c), NEW t \in TimerNames, t # "rhb", NEW k \in Fired(t)
    PROVE  k = [c EXCEPT !.timers = @ \ {t}] /\ t \in c.timers /\ Near(k, c)
<1>1. k = [c EXCEPT !.timers = @ \ {t}] /\ t \in c.timers
  BY DEF Fired, Inv, Channel, Hearts
<1>2. IsRecord(c)
  BY DEF Inv
<1> QED
  BY <1>1, <1>2 DEF Near, IsRecord, Fields

-----------------------------------------------------------------------------
(* Creating a session.                                                     *)
(* A request to create the session of kind s is on its way.                *)
Requested(i, k, kind, s) ==
    /\ i.w_k = 0 /\ i.ws_m = 0 /\ i.ws_k = 0 /\ i.wp_m = 0 /\ i.wp_p = 0 /\ i.h = 0
    /\ i.hs_m = 0 /\ i.hs_p = 0 /\ i.hs_k = 0 /\ i.hp_m = 0 /\ i.ctrl = 0
    /\ i.rhb = 0 /\ i.slw = 0 /\ i.tr = 0 /\ i.swt = 0 /\ i.bw = 0
    /\ i.m = s /\ i.status = CONNECTING /\ i.rec = k.rec /\ i.nr = k.nr
    /\ i.attempts = k.attempts /\ i.stray = k.stray /\ i.conns = {kind} /\ i.orphans = {}

LEMMA CreateInv ==
    ASSUME NEW k, Between(k), NEW kind \in {"ws", "http"}, NEW s \in {120, 130, 140},
           kind = "ws" <=> s = 120,
           NEW i, IsRecord(i), Requested(i, k, kind, s), i.timers = {}, i.du \in {20, 23},
           NEW j, j = Schedule(evtCreate(i), "transport")
    PROVE  Inv(j) /\ j.m = s
<1> DEFINE e == evtCreate(i)
<1>0. IsRecord(k) /\ Out(k) /\ Lasting(k)
  BY DEF Between
<1>1. IsRecord(e)
  BY DEF evtCreate, IsRecord, Fields
<1>2. Requested(e, k, kind, s) /\ e.timers = {} /\ e.du = 21
  <2>1. \A f \in Fields \ {"du"} : e[f] = i[f]
    BY DEF evtCreate, IsRecord
  <2>2. e.du = 21
    BY DEF evtCreate, IsRecord, Fields
  <2> HIDE DEF e
  <2> QED
    BY <2>1, <2>2 DEF Requested, Fields
<1> HIDE DEF e
<1>3. j = Schedule(e, "transport")
  BY DEF e
<1>4. IsRecord(j)
  BY <1>1, <1>3, Scheduled DEF TimerNames
<1>5. Requested(j, k, kind, s) /\ j.timers = {"transport"} /\ j.du = 21
  <2>1. \A f \in Fields \ {"timers", "stray"} : j[f] = e[f]
    BY <1>1, <1>3 DEF Schedule, IsRecord
  <2>2. j.timers = {"transport"} /\ j.stray = e.stray
    BY <1>1, <1>2, <1>3 DEF Schedule, IsRecord, Fields
  <2> QED
    BY <1>2, <2>1, <2>2 DEF Requested, Fields
<1>6. InRegions(j) /\ Timers(j)
  BY <1>0, <1>5 DEF Requested, Lasting, InRegions, Timers
<1>7. Conns(j) /\ Parts(j)
  BY <1>5 DEF Requested, Conns, Parts
<1>8. Attempts(j) /\ Status(j)
  BY <1>0, <1>5 DEF Requested, Lasting, Attempts, Status
<1>9. Channel(j) /\ Quiet(j) /\ SwitchSent(j) /\ LimitSent(j) /\ IdleIsDone(j)
  BY <1>0, <1>5 DEF Requested, Out, Channel, Hearts, Control, Quiet, SwitchSent, LimitSent,
                    IdleIsDone
<1>10. Switched(j) /\ Limited(j)
  BY <1>5 DEF Requested, Switched, Limited
<1> QED
  BY <1>4, <1>5, <1>6, <1>7, <1>8, <1>9, <1>10 DEF Inv, Base, Requested

AsCreating(o, s) == [o EXCEPT !.status = CONNECTING, !.m = s]
AsCreatingHTTP(o, s, limit) == [o EXCEPT !.status = CONNECTING, !.m = s, !.bwReq = limit]

LEMMA CreateRequested ==
    ASSUME NEW k, Between(k), NEW kind \in {"ws", "http"}, NEW s \in {120, 130, 140},
           NEW o, o = Open(k, kind),
           NEW i, i = AsCreating(o, s)
    PROVE  IsRecord(i) /\ Requested(i, k, kind, s) /\ i.timers = {} /\ i.du \in {20, 23}
<1> DEFINE Same(x) ==
             /\ x.w_k = 0 /\ x.ws_m = 0 /\ x.ws_k = 0 /\ x.wp_m = 0 /\ x.wp_p = 0 /\ x.h = 0
             /\ x.hs_m = 0 /\ x.hs_p = 0 /\ x.hs_k = 0 /\ x.hp_m = 0 /\ x.ctrl = 0
             /\ x.rhb = 0 /\ x.slw = 0 /\ x.tr = 0 /\ x.swt = 0 /\ x.bw = 0
             /\ x.rec = k.rec /\ x.nr = k.nr /\ x.timers = {} /\ x.du \in {20, 23}
             /\ x.attempts = k.attempts /\ x.stray = k.stray /\ x.conns = {kind}
             /\ x.orphans = {}
<1>1. IsRecord(k) /\ IsRecord(o) /\ k.bwOpt \in Bandwidths
  BY Opened DEF Between, Kinds, IsRecord
<1>2. Same(o)
  BY <1>1 DEF Between, Out, Open, IsRecord, Fields
<1>4. IsRecord(i)
  BY <1>1 DEF IsRecord, Fields, Statuses, AsCreating, AsCreatingHTTP
<1>5. Same(i) /\ i.m = s /\ i.status = CONNECTING
  BY <1>1, <1>2 DEF IsRecord, Fields, AsCreating, AsCreatingHTTP
<1> QED
  BY <1>4, <1>5 DEF Requested

LEMMA CreateRequestedHTTP ==
    ASSUME NEW k, Between(k), NEW kind \in {"ws", "http"}, NEW s \in {120, 130, 140},
           NEW o, o = Open(k, kind),
           NEW i, i = AsCreatingHTTP(o, s, k.bwOpt)
    PROVE  IsRecord(i) /\ Requested(i, k, kind, s) /\ i.timers = {} /\ i.du \in {20, 23}
<1> DEFINE Same(x) ==
             /\ x.w_k = 0 /\ x.ws_m = 0 /\ x.ws_k = 0 /\ x.wp_m = 0 /\ x.wp_p = 0 /\ x.h = 0
             /\ x.hs_m = 0 /\ x.hs_p = 0 /\ x.hs_k = 0 /\ x.hp_m = 0 /\ x.ctrl = 0
             /\ x.rhb = 0 /\ x.slw = 0 /\ x.tr = 0 /\ x.swt = 0 /\ x.bw = 0
             /\ x.rec = k.rec /\ x.nr = k.nr /\ x.timers = {} /\ x.du \in {20, 23}
             /\ x.attempts = k.attempts /\ x.stray = k.stray /\ x.conns = {kind}
             /\ x.orphans = {}
<1>1. IsRecord(k) /\ IsRecord(o) /\ k.bwOpt \in Bandwidths
  BY Opened DEF Between, Kinds, IsRecord
<1>2. Same(o)
  BY <1>1 DEF Between, Out, Open, IsRecord, Fields
<1>4. IsRecord(i)
  BY <1>1 DEF IsRecord, Fields, Statuses, AsCreating, AsCreatingHTTP
<1>5. Same(i) /\ i.m = s /\ i.status = CONNECTING
  BY <1>1, <1>2 DEF IsRecord, Fields, AsCreating, AsCreatingHTTP
<1> QED
  BY <1>4, <1>5 DEF Requested

LEMMA SelectCreateInv ==
    ASSUME NEW k, Between(k), k.m \in {100, 112, 113, 117, 120, 121},
           NEW j, j = evtSelectCreate(k)
    PROVE  Inv(j) /\ j.m \in {100, 120, 130}
<1>1. CASE getBestForCreating(k) = "ws"
  <2> DEFINE kind == "ws"
             s == 120
             o == Open(k, kind)
             i == AsCreating(o, s)
  <2>1. j = Schedule(evtCreate(i), "transport")
    BY <1>1 DEF evtSelectCreate, AsCreating
  <2>2. kind = "ws" /\ s = 120
    OBVIOUS
  <2> HIDE DEF kind, s
  <2>3. IsRecord(i) /\ Requested(i, k, kind, s) /\ i.timers = {} /\ i.du \in {20, 23}
    BY <2>2, CreateRequested
  <2> HIDE DEF i, o
  <2> QED
    BY <2>1, <2>2, <2>3, CreateInv
<1>2. CASE getBestForCreating(k) = "http"
  <2> DEFINE kind == "http"
             s == 130
             o == Open(k, kind)
             i == AsCreatingHTTP(o, s, k.bwOpt)
  <2>1. j = Schedule(evtCreate(i), "transport")
    BY <1>2 DEF evtSelectCreate, AsCreatingHTTP
  <2>2. kind = "http" /\ s = 130
    OBVIOUS
  <2> HIDE DEF kind, s
  <2>3. IsRecord(i) /\ Requested(i, k, kind, s) /\ i.timers = {} /\ i.du \in {20, 23}
    BY <2>2, CreateRequestedHTTP
  <2> HIDE DEF i, o
  <2> QED
    BY <2>1, <2>2, <2>3, CreateInv
<1>3. CASE getBestForCreating(k) \notin {"ws", "http"}
  <2>1. j = Terminate(k)
    BY <1>3 DEF evtSelectCreate
  <2>2. Leavable(k) /\ Lasting(k)
    BY DEF Between, Leavable, Out
  <2> QED
    BY <2>1, <2>2, TerminateInv
<1> QED
  BY <1>1, <1>2, <1>3

LEMMA CreateTTLInv ==
    ASSUME NEW k, Between(k), NEW j, j = sendCreateTTL(k)
    PROVE  Inv(j) /\ j.m = 140
<1> DEFINE kind == "http"
           s == 140
           o == Open(k, kind)
           i == AsCreatingHTTP(o, s, k.bwOpt)
<1>1. j = Schedule(evtCreate(i), "transport")
  BY DEF sendCreateTTL, AsCreatingHTTP
<1>2. kind = "http" /\ s = 140
  OBVIOUS
<1> HIDE DEF kind, s
<1>3. IsRecord(i) /\ Requested(i, k, kind, s) /\ i.timers = {} /\ i.du \in {20, 23}
  BY <1>2, CreateRequestedHTTP
<1> HIDE DEF i, o
<1> QED
  BY <1>1, <1>2, <1>3, CreateInv

LEMMA RetryTTLInv ==
    ASSUME NEW k, IsRecord(k), Out(k), Lasting(k), NEW j, j = RetryTTL(k)
    PROVE  Inv(j) /\ j.m = 140
<1> DEFINE i == evtRetry([goto_m_from_session(k, 110) EXCEPT !.status = WILL_RETRY])
<1>1. Between(i)
  BY SessionOver
<1>2. j = sendCreateTTL(i)
  BY DEF RetryTTL
<1> QED
  BY <1>1, <1>2, CreateTTLInv

LEMMA RetryWithoutWSInv ==
    ASSUME NEW k, Leavable(k), Lasting(k), k.m \in {120, 121}, k.tr = 0, k.swt = 0, k.bw = 0,
           NEW j, j = RetryWithoutWS(k)
    PROVE  Inv(j) /\ j.m \in {100, 120, 130}
<1> DEFINE s == suspendWS_Streaming(k)
           d == TearDown(s)
           i == evtRetry(d)
<1>1. Leavable(s) /\ Lasting(s) /\ s.m = k.m /\ s.tr = 0 /\ s.swt = 0 /\ s.bw = 0
  <2>1. IsRecord(k)
    BY DEF Leavable
  <2>2. IsRecord(s)
    BY <2>1 DEF suspendWS_Streaming, IsRecord, Fields
  <2> QED
    BY <2>1, <2>2 DEF suspendWS_Streaming, Leavable, Lasting, IsRecord, Fields
<1> HIDE DEF s
<1>2. IsRecord(d) /\ Out(d) /\ Kept(d, s)
  BY <1>1, TearDownOut
<1> HIDE DEF d
<1>3. Between(i) /\ i.m = d.m
  BY <1>1, <1>2, RetryBetween DEF Kept, Lasting
<1>4. j = evtSelectCreate(i)
  BY DEF RetryWithoutWS, i, d, s
<1> QED
  BY <1>1, <1>2, <1>3, <1>4, SelectCreateInv DEF Kept

-----------------------------------------------------------------------------
(* Recovering a session: the session is kept, and nothing else.            *)
Lost(k) ==
    /\ IsRecord(k) /\ Out(k) /\ Lasting(k)
    /\ k.m = 150 /\ k.tr = 260 /\ k.du = 22 /\ k.sid /\ k.status = TRYING_RECOVERY
    /\ k.swt \in {1301, 1302, 1303} /\ k.bw \in {1201, 1202} /\ Limited(k)

LEMMA RecoveringInv ==
    ASSUME NEW k, IsRecord(k), Lasting(k),
           k.m = 150, k.tr = 260, k.du = 22, k.sid, k.status = TRYING_RECOVERY,
           k.swt \in {1301, 1302, 1303}, k.bw \in {1201, 1202}, Limited(k),
           k.w_k = 0, k.ws_m = 0, k.ws_k = 0, k.wp_m = 0, k.wp_p = 0, k.h = 0,
           k.hs_m = 0, k.hs_p = 0, k.hs_k = 0, k.hp_m = 0, k.ctrl = 0, k.rhb = 0, k.slw = 0,
           k.stray \subseteq {"rhb"}, k.orphans = {},
           \/ k.rec = 1001 /\ k.timers = {"transport"} /\ k.conns = {"http"}
           \/ k.rec = 1003 /\ k.timers = {"retry"} /\ k.conns = {}
              /\ k.attempts < MaxRecoveryAttempts
    PROVE  Inv(k)
<1>1. InRegions(k) /\ Timers(k)
  BY DEF Lasting, InRegions, Timers
<1>2. Conns(k) /\ Parts(k)
  BY DEF Conns, Parts
<1>3. Attempts(k) /\ Status(k)
  BY DEF Lasting, Attempts, Status
<1>4. Channel(k) /\ Quiet(k) /\ SwitchSent(k) /\ LimitSent(k) /\ IdleIsDone(k)
  BY DEF Channel, Hearts, Control, Quiet, SwitchSent, LimitSent, IdleIsDone, SendsOnWS, None
<1>5. Switched(k)
  BY DEF Switched
<1> QED
  BY <1>1, <1>2, <1>3, <1>4, <1>5 DEF Inv, Base

LEMMA SendRecoveryInv ==
    ASSUME NEW k, Lost(k), SessionRecovery, k.attempts < MaxRecoveryAttempts,
           NEW j, j = sendRecovery(k)
    PROVE  Inv(j) /\ j.m = 150
<1> DEFINE o == Open(k, "http")
           i == [o EXCEPT !.rec = 1001, !.attempts = @ + 1]
<1>0. IsRecord(k) /\ Out(k)
  BY DEF Lost
<1>1. j = Schedule(i, "transport")
  BY DEF sendRecovery
<1>2. IsRecord(o)
  BY <1>0, Opened DEF Kinds
<1>3. /\ o.m = k.m /\ o.tr = k.tr /\ o.du = k.du /\ o.sid = k.sid /\ o.status = k.status
      /\ o.swt = k.swt /\ o.bw = k.bw /\ o.bwReq = k.bwReq /\ o.bwOpt = k.bwOpt
      /\ o.unmanaged = k.unmanaged /\ o.w_k = 0 /\ o.ws_m = 0 /\ o.ws_k = 0
      /\ o.wp_m = 0 /\ o.wp_p = 0 /\ o.h = 0 /\ o.hs_m = 0
      /\ o.hs_p = 0 /\ o.hs_k = 0 /\ o.hp_m = 0 /\ o.ctrl = 0
      /\ o.rhb = 0 /\ o.slw = 0 /\ o.stray = k.stray /\ o.nr = k.nr
      /\ o.rec = k.rec /\ o.attempts = k.attempts /\ o.timers = {}
      /\ o.conns = {"http"} /\ o.orphans = {}
  BY <1>0 DEF Out, Open, IsRecord, Fields
<1> HIDE DEF o
<1>11. IsRecord(i)
  BY <1>2 DEF IsRecord, Fields
<1>4. /\ i.m = k.m /\ i.tr = k.tr /\ i.du = k.du /\ i.sid = k.sid /\ i.status = k.status
      /\ i.swt = k.swt /\ i.bw = k.bw /\ i.bwReq = k.bwReq /\ i.bwOpt = k.bwOpt
      /\ i.unmanaged = k.unmanaged /\ i.w_k = 0 /\ i.ws_m = 0 /\ i.ws_k = 0
      /\ i.wp_m = 0 /\ i.wp_p = 0 /\ i.h = 0 /\ i.hs_m = 0
      /\ i.hs_p = 0 /\ i.hs_k = 0 /\ i.hp_m = 0 /\ i.ctrl = 0
      /\ i.rhb = 0 /\ i.slw = 0 /\ i.stray = k.stray /\ i.nr = k.nr
      /\ i.rec = 1001 /\ i.attempts = k.attempts + 1 /\ i.timers = {}
      /\ i.conns = {"http"} /\ i.orphans = {}
  BY <1>2, <1>3 DEF IsRecord, Fields
<1> HIDE DEF i
<1>5. IsRecord(j)
  BY <1>1, <1>11, Scheduled DEF TimerNames
<1>6. /\ j.m = k.m /\ j.tr = k.tr /\ j.du = k.du /\ j.sid = k.sid /\ j.status = k.status
      /\ j.swt = k.swt /\ j.bw = k.bw /\ j.bwReq = k.bwReq /\ j.bwOpt = k.bwOpt
      /\ j.unmanaged = k.unmanaged /\ j.w_k = 0 /\ j.ws_m = 0 /\ j.ws_k = 0
      /\ j.wp_m = 0 /\ j.wp_p = 0 /\ j.h = 0 /\ j.hs_m = 0
      /\ j.hs_p = 0 /\ j.hs_k = 0 /\ j.hp_m = 0 /\ j.ctrl = 0
      /\ j.rhb = 0 /\ j.slw = 0 /\ j.stray = k.stray /\ j.nr = k.nr
      /\ j.rec = 1001 /\ j.attempts = k.attempts + 1 /\ j.timers = {"transport"}
      /\ j.conns = {"http"} /\ j.orphans = {}
  BY <1>1, <1>11, <1>4 DEF Schedule, IsRecord, Fields
<1>8. k.attempts \in Nat
  BY <1>0 DEF IsRecord
<1>9. Lasting(j) /\ Limited(j)
  BY <1>6, <1>8, OptionsAssumption DEF Lost, Lasting, Limited
<1>10. /\ j.m = 150 /\ j.tr = 260 /\ j.du = 22 /\ j.sid /\ j.status = TRYING_RECOVERY
       /\ j.swt \in {1301, 1302, 1303} /\ j.bw \in {1201, 1202} /\ j.stray \subseteq {"rhb"}
  BY <1>6 DEF Lost, Out
<1> QED
  BY <1>5, <1>6, <1>9, <1>10, RecoveringInv

-----------------------------------------------------------------------------
(* Binding the session to the best transport.                              *)
Bindings == {"none", "WS_STREAMING", "WS_POLLING", "HTTP_STREAMING", "HTTP_POLLING"}

LEMMA BestIsTransport ==
    ASSUME NEW k, IsRecord(k)
    PROVE  getBestForBinding(k) \in Bindings
<1> DEFINE cs == Candidates(k.forced)
           enabled == {i \in DOMAIN cs : cs[i] \notin k.disabled}
<1>1. k.forced \in Transports
  BY OptionsAssumption DEF IsRecord
<1>2. /\ DOMAIN cs \subseteq {1, 2, 3, 4}
      /\ \A i \in DOMAIN cs : cs[i] \in Bindings
  BY <1>1 DEF Candidates, Transports, Bindings
<1> HIDE DEF cs
<1>3. CASE enabled = {}
  BY <1>3 DEF getBestForBinding, Bindings, cs
<1>4. CASE enabled # {}
  <2>1. enabled \subseteq {1, 2, 3, 4}
    BY <1>2
  <2>2. \A i \in enabled : cs[i] \in Bindings
    BY <1>2
  <2> HIDE DEF enabled
  <2>3. \E i \in enabled : \A j \in enabled : i <= j
    <3>1. CASE 1 \in enabled
      BY <2>1, <3>1
    <3>2. CASE 1 \notin enabled /\ 2 \in enabled
      BY <2>1, <3>2
    <3>3. CASE 1 \notin enabled /\ 2 \notin enabled /\ 3 \in enabled
      BY <2>1, <3>3
    <3>4. CASE 1 \notin enabled /\ 2 \notin enabled /\ 3 \notin enabled
      <4>1. enabled = {4}
        BY <1>4, <2>1, <3>4
      <4> QED
        BY <4>1
    <3> QED
      BY <3>1, <3>2, <3>3, <3>4
  <2>4. (CHOOSE i \in enabled : \A j \in enabled : i <= j) \in enabled
    BY <2>3
  <2>5. getBestForBinding(k) = cs[CHOOSE i \in enabled : \A j \in enabled : i <= j]
    BY <1>4 DEF getBestForBinding, cs, enabled
  <2> QED
    BY <2>2, <2>4, <2>5
<1> QED
  BY <1>3, <1>4

(* The session is between two connections; only the control channel goes   *)
(* on, from one HTTP connection to the next.                               *)
Unbound(k) ==
    /\ IsRecord(k) /\ Lasting(k) /\ Limited(k)
    /\ k.m = 150 /\ k.du = 22 /\ k.sid /\ k.status \in Connected \cup {TRYING_RECOVERY}
    /\ k.swt \in {1300, 1301, 1302, 1303} /\ k.bw \in {1201, 1202}
    /\ k.w_k = 0 /\ k.ws_m = 0 /\ k.ws_k = 0 /\ k.wp_m = 0 /\ k.wp_p = 0
    /\ k.timers \subseteq {"ctrl"} /\ k.conns \subseteq {"ctrl"}
    /\ k.stray \subseteq {"rhb"} /\ k.orphans = {}

(* What a binding takes over.                                              *)
Carried(j, k) ==
    /\ j.m = k.m /\ j.du = k.du /\ j.sid = k.sid /\ j.status = k.status
    /\ j.swt = k.swt /\ j.bw = k.bw /\ j.bwReq = k.bwReq /\ j.bwOpt = k.bwOpt
    /\ j.unmanaged = k.unmanaged /\ j.rec = k.rec /\ j.nr = k.nr /\ j.attempts = k.attempts
    /\ j.forced = k.forced /\ j.disabled = k.disabled /\ j.excused = k.excused

Joined(j, k) ==
    /\ IsRecord(j) /\ Base(j) /\ Channel(j) /\ IdleIsDone(j) /\ Carried(j, k)
    /\ j.rhb # 320 /\ j.ctrl # 1100 /\ ~SendsOnWS(j)
    /\ Transport(j) = getBestForBinding(j)

LEMMA CarriedTrans ==
    ASSUME NEW i, NEW j, NEW k, Carried(i, j), Carried(j, k)
    PROVE  Carried(i, k)
  BY DEF Carried

LEMMA CarriedBest ==
    ASSUME NEW j, NEW k, Carried(j, k)
    PROVE  getBestForBinding(j) = getBestForBinding(k)
  BY DEF Carried, getBestForBinding

LEMMA JoinWS ==
    ASSUME NEW k, Unbound(k), Out(k), NEW best \in {"WS_STREAMING", "WS_POLLING"},
           best = getBestForBinding(k), NEW j, j = openWS_Bind(k, best)
    PROVE  Joined(j, k)
<1> DEFINE o == Open(k, "ws")
           i == IF best = "WS_STREAMING" THEN [o EXCEPT !.tr = 240, !.ws_m = 500]
                                         ELSE [o EXCEPT !.tr = 250, !.wp_m = 600]
           Same(x) ==
             /\ x.w_k = 0 /\ x.ws_k = 0 /\ x.wp_p = 0 /\ x.h = 0
             /\ x.hs_m = 0 /\ x.hs_p = 0 /\ x.hs_k = 0 /\ x.hp_m = 0 /\ x.ctrl = 0
             /\ x.rhb = 0 /\ x.slw = 0 /\ x.stray = k.stray /\ x.conns = {"ws"} /\ x.orphans = {}
<1>1. j = Schedule(i, "transport")
  BY DEF openWS_Bind
<1>2. IsRecord(k)
  BY DEF Unbound
<1>3. IsRecord(o)
  BY <1>2, Opened DEF Kinds
<1>4. Same(o) /\ Carried(o, k) /\ o.timers = {} /\ o.ws_m = 0 /\ o.wp_m = 0
  BY <1>2 DEF Out, Carried, Open, IsRecord, Fields
<1> HIDE DEF o
<1>5. IsRecord(i)
  BY <1>3 DEF IsRecord, Fields
<1>6. /\ Same(i) /\ i.timers = {}
      /\ best = "WS_STREAMING" => i.tr = 240 /\ i.ws_m = 500 /\ i.wp_m = 0
      /\ best = "WS_POLLING" => i.tr = 250 /\ i.ws_m = 0 /\ i.wp_m = 600
  BY <1>3, <1>4 DEF IsRecord, Fields
<1>7. Carried(i, k)
  BY <1>3, <1>4 DEF Carried, IsRecord, Fields
<1> HIDE DEF i
<1>8. IsRecord(j)
  BY <1>1, <1>5, Scheduled DEF TimerNames
<1>9. /\ Same(j) /\ j.timers = {"transport"}
      /\ best = "WS_STREAMING" => j.tr = 240 /\ j.ws_m = 500 /\ j.wp_m = 0
      /\ best = "WS_POLLING" => j.tr = 250 /\ j.ws_m = 0 /\ j.wp_m = 600
  BY <1>1, <1>5, <1>6 DEF Schedule, IsRecord, Fields
<1>10. Carried(j, k)
  <2>1. Carried(j, i)
    BY <1>1, <1>5, <1>6 DEF Schedule, Carried, IsRecord, Fields
  <2> QED
    BY <1>7, <2>1, CarriedTrans
<1>11. InRegions(j) /\ Timers(j)
  BY <1>9, <1>10 DEF Unbound, Lasting, Carried, InRegions, Timers
<1>12. Conns(j) /\ Parts(j)
  BY <1>9, <1>10 DEF Unbound, Carried, Conns, Parts
<1>13. Attempts(j) /\ Status(j)
  BY <1>9, <1>10 DEF Unbound, Lasting, Carried, Attempts, Status
<1>14. Channel(j) /\ IdleIsDone(j)
  BY <1>9 DEF Unbound, Channel, Hearts, Control, IdleIsDone
<1>15. ~SendsOnWS(j)
  BY <1>9 DEF SendsOnWS, None
<1>16. Transport(j) = getBestForBinding(j)
  BY <1>9, <1>10, CarriedBest DEF Transport
<1> QED
  BY <1>8, <1>9, <1>10, <1>11, <1>12, <1>13, <1>14, <1>15, <1>16 DEF Joined, Base

(* The control channel is started, unless it goes on.                      *)
LEMMA StartCtrlKeeps ==
    ASSUME NEW k, IsRecord(k), Channel(k), NEW from \in {200, 270},
           from = 200 => k.ctrl = 0 /\ k.tr = 270,
           from = 270 => k.ctrl \in {1101, 1102, 1103} /\ IdleIsDone(k),
           NEW j, j = StartCtrl(k, from)
    PROVE  /\ IsRecord(j) /\ Channel(j) /\ IdleIsDone(j) /\ Carried(j, k)
           /\ j.ctrl \in {1101, 1102, 1103} /\ j.tr = k.tr /\ j.slw = k.slw
           /\ j.w_k = k.w_k /\ j.ws_m = k.ws_m /\ j.ws_k = k.ws_k /\ j.wp_m = k.wp_m
           /\ j.wp_p = k.wp_p /\ j.h = k.h /\ j.hs_m = k.hs_m /\ j.hs_p = k.hs_p
           /\ j.hs_k = k.hs_k /\ j.hp_m = k.hp_m
           /\ \A t \in TimerNames \ {"rhb", "ctrl"} : t \in j.timers <=> t \in k.timers
           /\ \A kind \in {"ws", "http"} : kind \in j.conns <=> kind \in k.conns
           /\ j.rhb # 0 <=> k.rhb # 0
           /\ k.rhb # 320 => j.rhb # 320
<1>1. CASE from = 270
  BY <1>1 DEF StartCtrl, Carried
<1>2. CASE from = 200
  <2> DEFINE i == [k EXCEPT !.ctrl = 1100]
  <2>1. j = evtCheckCtrlRequests(i)
    BY <1>2 DEF StartCtrl
  <2>2. IsRecord(i)
    BY CtrlSet
  <2>3. Channel(i) /\ i.ctrl = 1100 /\ i.rhb = k.rhb
    BY <1>2, <2>2 DEF Channel, Hearts, Control, IsRecord, Fields
  <2>4. /\ Carried(i, k) /\ i.tr = k.tr /\ i.slw = k.slw
        /\ i.w_k = k.w_k /\ i.ws_m = k.ws_m /\ i.ws_k = k.ws_k /\ i.wp_m = k.wp_m
        /\ i.wp_p = k.wp_p /\ i.h = k.h /\ i.hs_m = k.hs_m /\ i.hs_p = k.hs_p
        /\ i.hs_k = k.hs_k /\ i.hp_m = k.hp_m /\ i.timers = k.timers /\ i.conns = k.conns
    BY <2>2 DEF Carried, IsRecord, Fields
  <2> HIDE DEF i
  <2>5. /\ Core(j, i) /\ SameRequests(j, i) /\ Channel(j) /\ IdleIsDone(j)
        /\ j.ctrl \in {1101, 1102} /\ (i.rhb # 320 => j.rhb # 320)
    BY <2>1, <2>2, <2>3, CheckKeeps
  <2>6. Carried(j, i)
    BY <2>5 DEF Core, SameRequests, Carried
  <2>7. Carried(j, k)
    BY <2>4, <2>6, CarriedTrans
  <2> QED
    BY <2>3, <2>4, <2>5, <2>7 DEF Core
<1> QED
  BY <1>1, <1>2

LEMMA SelectKeeps ==
    ASSUME NEW k, IsRecord(k), Hearts(k), NEW j, j = evtSelectRhb(k)
    PROVE  OnlyHearts(j, k) /\ Hearts(j) /\ j.rhb # 320 /\ (k.rhb # 324 => j.rhb # 324)
<1>1. CASE k.rhb = 320
  <2>1. j = EnterRhb(k)
    BY <1>1 DEF evtSelectRhb
  <2> QED
    BY <1>1, <2>1, EnterRhbKeeps
<1>2. CASE k.rhb # 320
  BY <1>2 DEF evtSelectRhb, OnlyHearts, Core, SameRequests
<1> QED
  BY <1>1, <1>2

Sourced(k) ==
    /\ k.rhb \in {0, 321, 322, 323, 324} /\ k.slw \in {0, 330, 331, 333, 334}
    /\ \/ k.tr = 200 /\ k.ctrl = 0 /\ k.timers = {} /\ k.conns = {}
       \/ k.tr = 270 /\ Control(k) /\ k.ctrl \in {1101, 1102, 1103} /\ IdleIsDone(k)

LEMMA JoinHTTP_Streaming ==
    ASSUME NEW k, Unbound(k), Sourced(k), k.hp_m = 0,
           getBestForBinding(k) = "HTTP_STREAMING", NEW j, j = sendBindHTTP_Streaming(k)
    PROVE  Joined(j, k)
<1> DEFINE o == Open(k, "http")
           i == [o EXCEPT !.tr = 270, !.h = 710, !.hs_m = 800, !.hs_p = None, !.hs_k = None,
                          !.rhbGranted = k.rhbOpt]
           s == StartCtrl(i, k.tr)
           Same(x) ==
             /\ x.w_k = 0 /\ x.ws_m = 0 /\ x.ws_k = 0 /\ x.wp_m = 0 /\ x.wp_p = 0 /\ x.hp_m = 0
             /\ x.slw = k.slw
           Now(x) == Same(x) /\ x.tr = 270 /\ x.h = 710 /\ x.hs_m = 800 /\ x.hs_p = 0 /\ x.hs_k = 0
<1>1. j = Schedule(s, "transport")
  BY DEF sendBindHTTP_Streaming
<1>2. IsRecord(k) /\ k.rhbOpt \in BOOLEAN
  BY OptionsAssumption DEF Unbound, IsRecord
<1>3. IsRecord(o)
  BY <1>2, Opened DEF Kinds
<1>4. /\ Same(o) /\ Carried(o, k) /\ o.timers = k.timers /\ o.rhb = k.rhb /\ o.ctrl = k.ctrl
      /\ o.conns = k.conns \cup {"http"} /\ o.stray = k.stray /\ o.orphans = {}
  <2>1. Carried(o, k)
    BY <1>2 DEF Carried, Open, IsRecord, Fields
  <2>2. /\ k.w_k = 0 /\ k.ws_m = 0 /\ k.ws_k = 0 /\ k.wp_m = 0 /\ k.wp_p = 0
        /\ "http" \notin k.conns /\ k.orphans = {}
    BY DEF Unbound
  <2> QED
    BY <1>2, <2>1, <2>2 DEF Open, IsRecord, Fields
<1> HIDE DEF o
<1>5. IsRecord(i)
  BY <1>2, <1>3 DEF IsRecord, Fields, None
<1>6. /\ Now(i) /\ i.timers = k.timers /\ i.rhb = k.rhb /\ i.ctrl = k.ctrl
      /\ i.conns = k.conns \cup {"http"} /\ i.stray = k.stray /\ i.orphans = {}
  BY <1>3, <1>4 DEF IsRecord, Fields, None
<1>7. Carried(i, k)
  <2>1. Carried(i, o)
    BY <1>3 DEF Carried, IsRecord, Fields
  <2> QED
    BY <1>4, <2>1, CarriedTrans
<1> HIDE DEF i
<1>8. Channel(i)
  BY <1>6 DEF Unbound, Sourced, Channel, Hearts, Control
<1>9. k.tr = 270 => i.ctrl \in {1101, 1102, 1103} /\ IdleIsDone(i)
  BY <1>6, <1>7 DEF Sourced, IdleIsDone, Pending, Carried
<1>10. /\ k.tr \in {200, 270} /\ (k.tr = 200 => i.ctrl = 0 /\ i.tr = 270) /\ i.rhb # 320
  BY <1>6 DEF Sourced
<1>11. /\ IsRecord(s) /\ Channel(s) /\ IdleIsDone(s) /\ Carried(s, i)
       /\ s.ctrl \in {1101, 1102, 1103} /\ Now(s)
       /\ \A t \in TimerNames \ {"rhb", "ctrl"} : t \in s.timers <=> t \in i.timers
       /\ \A kind \in {"ws", "http"} : kind \in s.conns <=> kind \in i.conns
       /\ s.rhb # 320
  BY <1>5, <1>6, <1>8, <1>9, <1>10, StartCtrlKeeps
<1> HIDE DEF s
<1>12. Carried(s, k)
  BY <1>7, <1>11, CarriedTrans
<1>13. IsRecord(j)
  BY <1>1, <1>11, Scheduled DEF TimerNames
<1>14. "transport" \notin s.timers
  BY <1>6, <1>11 DEF TimerNames, Unbound
<1>15. /\ Now(j) /\ j.timers = s.timers \cup {"transport"} /\ j.conns = s.conns /\ j.rhb = s.rhb
       /\ j.ctrl = s.ctrl /\ j.stray = s.stray /\ j.orphans = s.orphans
  BY <1>1, <1>11, <1>14 DEF Schedule, IsRecord, Fields
<1>16. Carried(j, k)
  <2>1. Carried(j, s)
    BY <1>1, <1>11, <1>14 DEF Schedule, Carried, IsRecord, Fields
  <2> QED
    BY <1>12, <2>1, CarriedTrans
<1>17. InRegions(j)
  BY <1>15, <1>16 DEF Unbound, Lasting, Sourced, Carried, InRegions
<1>18. Timers(j)
  BY <1>6, <1>11, <1>15, <1>16 DEF Unbound, Carried, Timers, TimerNames
<1>19. Conns(j) /\ Parts(j)
  BY <1>6, <1>11, <1>15, <1>16 DEF Unbound, Carried, Conns, Parts
<1>20. Attempts(j) /\ Status(j)
  BY <1>15, <1>16 DEF Unbound, Lasting, Carried, Attempts, Status
<1>21. Channel(j) /\ IdleIsDone(j)
  <2>1. IdleIsDone(j)
    <3>1. j.swt = s.swt /\ j.bw = s.bw
      BY <1>12, <1>16 DEF Carried
    <3> QED
      BY <1>11, <1>15, <3>1 DEF IdleIsDone, Pending
  <2>2. Channel(j)
    BY <1>11, <1>15 DEF Channel, Hearts, Control
  <2> QED
    BY <2>1, <2>2
<1>22. ~SendsOnWS(j)
  BY <1>15 DEF SendsOnWS, None
<1>23. Transport(j) = getBestForBinding(j)
  BY <1>15, <1>16, CarriedBest DEF Transport
<1> QED
  BY <1>11, <1>13, <1>15, <1>16, <1>17, <1>18, <1>19, <1>20, <1>21, <1>22, <1>23 DEF Joined, Base

LEMMA JoinHTTP_Polling ==
    ASSUME NEW k, Unbound(k), Sourced(k), k.hs_m = 0, k.hs_p = 0, k.hs_k = 0, k.slw = 0,
           getBestForBinding(k) = "HTTP_POLLING", NEW j, j = sendBindHTTP_Polling(k)
    PROVE  Joined(j, k)
<1> DEFINE o == Open(k, "http")
           i == [o EXCEPT !.tr = 270, !.h = 720, !.hp_m = 900, !.rhb = 320, !.rhbGranted = FALSE]
           s == StartCtrl(i, k.tr)
           d == Schedule(s, "idle")
           Same(x) ==
             /\ x.w_k = 0 /\ x.ws_m = 0 /\ x.ws_k = 0 /\ x.wp_m = 0 /\ x.wp_p = 0
             /\ x.hs_m = 0 /\ x.hs_p = 0 /\ x.hs_k = 0 /\ x.slw = 0
           Now(x) == Same(x) /\ x.tr = 270 /\ x.h = 720 /\ x.hp_m = 900
<1>1. j = evtSelectRhb(d)
  BY DEF sendBindHTTP_Polling
<1>2. IsRecord(k) /\ k.rhbOpt \in BOOLEAN
  BY OptionsAssumption DEF Unbound, IsRecord
<1>3. IsRecord(o)
  BY <1>2, Opened DEF Kinds
<1>4. /\ Same(o) /\ Carried(o, k) /\ o.timers = k.timers /\ o.rhb = k.rhb /\ o.ctrl = k.ctrl
      /\ o.conns = k.conns \cup {"http"} /\ o.stray = k.stray /\ o.orphans = {}
  <2>1. Carried(o, k)
    BY <1>2 DEF Carried, Open, IsRecord, Fields
  <2>2. /\ k.w_k = 0 /\ k.ws_m = 0 /\ k.ws_k = 0 /\ k.wp_m = 0 /\ k.wp_p = 0
        /\ "http" \notin k.conns /\ k.orphans = {}
    BY DEF Unbound
  <2> QED
    BY <1>2, <2>1, <2>2 DEF Open, IsRecord, Fields
<1> HIDE DEF o
<1>5. IsRecord(i)
  BY <1>2, <1>3 DEF IsRecord, Fields, None
<1>6. /\ Now(i) /\ i.timers = k.timers /\ i.rhb = 320 /\ i.ctrl = k.ctrl
      /\ i.conns = k.conns \cup {"http"} /\ i.stray = k.stray /\ i.orphans = {}
  BY <1>3, <1>4 DEF IsRecord, Fields, None
<1>7. Carried(i, k)
  <2>1. Carried(i, o)
    BY <1>3 DEF Carried, IsRecord, Fields
  <2> QED
    BY <1>4, <2>1, CarriedTrans
<1> HIDE DEF i
<1>8. Channel(i)
  BY <1>6 DEF Unbound, Sourced, Channel, Hearts, Control
<1>9. k.tr = 270 => i.ctrl \in {1101, 1102, 1103} /\ IdleIsDone(i)
  BY <1>6, <1>7 DEF Sourced, IdleIsDone, Pending, Carried
<1>10. /\ k.tr \in {200, 270} /\ (k.tr = 200 => i.ctrl = 0 /\ i.tr = 270)
  BY <1>6 DEF Sourced
<1>11. /\ IsRecord(s) /\ Channel(s) /\ IdleIsDone(s) /\ Carried(s, i)
       /\ s.ctrl \in {1101, 1102, 1103} /\ Now(s)
       /\ \A t \in TimerNames \ {"rhb", "ctrl"} : t \in s.timers <=> t \in i.timers
       /\ \A kind \in {"ws", "http"} : kind \in s.conns <=> kind \in i.conns
       /\ s.rhb # 0
  BY <1>5, <1>6, <1>8, <1>9, <1>10, StartCtrlKeeps
<1> HIDE DEF s
<1>12. Carried(s, k)
  BY <1>7, <1>11, CarriedTrans
<1>13. IsRecord(d)
  BY <1>11, Scheduled DEF TimerNames
<1>14. "idle" \notin s.timers
  BY <1>6, <1>11 DEF TimerNames, Unbound
<1>15. /\ Now(d) /\ d.timers = s.timers \cup {"idle"} /\ d.conns = s.conns /\ d.rhb = s.rhb
       /\ d.ctrl = s.ctrl /\ d.stray = s.stray /\ d.orphans = s.orphans
  BY <1>11, <1>14 DEF Schedule, IsRecord, Fields
<1>16. Carried(d, k)
  <2>1. Carried(d, s)
    BY <1>11, <1>14 DEF Schedule, Carried, IsRecord, Fields
  <2> QED
    BY <1>12, <2>1, CarriedTrans
<1> HIDE DEF d
<1>17. Channel(d) /\ IdleIsDone(d)
  <2>1. IdleIsDone(d)
    <3>1. d.swt = s.swt /\ d.bw = s.bw
      BY <1>12, <1>16 DEF Carried
    <3> QED
      BY <1>11, <1>15, <3>1 DEF IdleIsDone, Pending
  <2>2. Channel(d)
    BY <1>11, <1>15 DEF Channel, Hearts, Control
  <2> QED
    BY <2>1, <2>2
<1>18. OnlyHearts(j, d) /\ Hearts(j) /\ j.rhb # 320 /\ (d.rhb # 324 => j.rhb # 324)
  BY <1>1, <1>13, <1>17, SelectKeeps DEF Channel
<1>19. Carried(j, k)
  <2>1. Carried(j, d)
    BY <1>18 DEF OnlyHearts, Core, SameRequests, Carried
  <2> QED
    BY <1>16, <2>1, CarriedTrans
<1>20. InRegions(d) /\ d.rhb # 0
  BY <1>6, <1>11, <1>15, <1>16 DEF Unbound, Lasting, Carried, InRegions
<1>21. Timers(d)
  BY <1>6, <1>11, <1>15, <1>16 DEF Unbound, Carried, Timers, TimerNames
<1>22. Conns(d) /\ Parts(d)
  BY <1>6, <1>11, <1>15, <1>16, <1>20 DEF Unbound, Carried, Conns, Parts
<1>23. Attempts(d) /\ Status(d)
  BY <1>15, <1>16 DEF Unbound, Lasting, Carried, Attempts, Status
<1>24. Base(j)
  <2>1. Base(d)
    BY <1>20, <1>21, <1>22, <1>23 DEF Base
  <2> QED
    BY <1>18, <2>1, CoreBase DEF OnlyHearts, SameRequests
<1>25. Channel(j) /\ IdleIsDone(j)
  <2>1. IdleIsDone(j)
    BY <1>11, <1>15, <1>17, <1>18 DEF IdleIsDone, Pending, OnlyHearts, SameRequests, Hearts
  <2>2. Channel(j)
    BY <1>17, <1>18 DEF Channel, Control, OnlyHearts
  <2> QED
    BY <2>1, <2>2
<1>26. ~SendsOnWS(j)
  BY <1>15, <1>18 DEF SendsOnWS, OnlyHearts, Core, None
<1>27. Transport(j) = getBestForBinding(j)
  BY <1>15, <1>18, <1>19, CarriedBest DEF Transport, OnlyHearts, Core
<1> QED
  BY <1>11, <1>15, <1>18, <1>19, <1>24, <1>25, <1>26, <1>27 DEF Joined, OnlyHearts, Core

(* Where evtSwitchTransport starts from: outside of every transport, or at *)
(* the end of an HTTP connection (s811, s904).                             *)
Rebinding(k) ==
    /\ IsRecord(k) /\ Lasting(k) /\ Limited(k) /\ Leavable(k)
    /\ k.m = 150 /\ k.du = 22 /\ k.sid /\ k.status \in Connected \cup {TRYING_RECOVERY}
    /\ k.swt \in {1300, 1301, 1302, 1303} /\ k.bw \in {1201, 1202}
    /\ \/ k.tr = 200 /\ Out(k)
       \/ /\ k.tr = 270 /\ Control(k) /\ k.ctrl \in {1101, 1102, 1103} /\ IdleIsDone(k)
          /\ k.rhb \in {321, 322, 323, 324} /\ k.slw \in {0, 330, 331, 333, 334}
          /\ k.conns \subseteq {"ctrl"}
          /\ \/ k.h = 710 /\ k.hs_p = 811
             \/ k.h = 720 /\ k.hp_m = 904

(* The region of the old connection is left, and the control channel goes  *)
(* on, or it ends too where the session goes to a WebSocket.               *)
LEMMA LeftHS ==
    ASSUME NEW k, Rebinding(k), k.tr = 270, k.h = 710, NEW j, j = exit_hs(k)
    PROVE  Unbound(j) /\ Sourced(j) /\ j.hp_m = 0 /\ Carried(j, k)
<1>0. IsRecord(k)
  BY DEF Rebinding
<1>1. IsRecord(j)
  BY <1>0, Cancelled DEF exit_hs
<1>2. /\ Carried(j, k) /\ j.w_k = k.w_k /\ j.ws_m = k.ws_m /\ j.ws_k = k.ws_k /\ j.wp_m = k.wp_m
      /\ j.wp_p = k.wp_p /\ j.hp_m = k.hp_m /\ j.rhb = k.rhb /\ j.slw = k.slw /\ j.tr = k.tr
      /\ j.ctrl = k.ctrl /\ j.timers = k.timers \ (KeepaliveUnit \cup {"rhb", "transport"})
      /\ j.stray = k.stray /\ j.conns = k.conns /\ j.orphans = k.orphans
  BY <1>0 DEF exit_hs, Cancel, Carried, IsRecord, Fields
<1>3. /\ j.w_k = 0 /\ j.ws_m = 0 /\ j.ws_k = 0 /\ j.wp_m = 0 /\ j.wp_p = 0 /\ j.hp_m = 0
      /\ j.timers \subseteq {"ctrl"} /\ j.stray \subseteq {"rhb"} /\ j.orphans = {}
  BY <1>0, <1>2 DEF Rebinding, Leavable, KeepaliveUnit, IsRecord, TimerNames
<1>4. Unbound(j)
  BY <1>1, <1>2, <1>3 DEF Rebinding, Unbound, Carried, Lasting, Limited
<1>5. Sourced(j)
  BY <1>2 DEF Rebinding, Sourced, Control, IdleIsDone, Pending, Carried, KeepaliveUnit
<1> QED
  BY <1>2, <1>3, <1>4, <1>5

LEMMA ClearedHS ==
    ASSUME NEW k, Rebinding(k), k.tr = 270, k.h = 710, NEW j, j = exit_hs(clear_hs(k))
    PROVE  /\ Unbound(j) /\ Sourced(j) /\ Carried(j, k)
           /\ j.tr = 270 /\ j.hs_m = 0 /\ j.hs_p = 0 /\ j.hs_k = 0 /\ j.hp_m = 0
           /\ j.slw = 0 /\ j.rhb = 0
<1>0. IsRecord(k)
  BY DEF Rebinding
<1>1. IsRecord(j)
  BY <1>0, Cancelled, ClearedRecord DEF exit_hs
<1>2. /\ Carried(j, k) /\ j.w_k = k.w_k /\ j.ws_m = k.ws_m /\ j.ws_k = k.ws_k /\ j.wp_m = k.wp_m
      /\ j.wp_p = k.wp_p /\ j.hp_m = k.hp_m /\ j.rhb = 0 /\ j.slw = 0 /\ j.tr = k.tr
      /\ j.hs_m = 0 /\ j.hs_p = 0 /\ j.hs_k = 0
      /\ j.ctrl = k.ctrl /\ j.timers = k.timers \ (KeepaliveUnit \cup {"rhb", "transport"})
      /\ j.stray = k.stray /\ j.conns = k.conns /\ j.orphans = k.orphans
  BY <1>0 DEF exit_hs, clear_hs, Cancel, Carried, IsRecord, Fields, None
<1>3. /\ j.w_k = 0 /\ j.ws_m = 0 /\ j.ws_k = 0 /\ j.wp_m = 0 /\ j.wp_p = 0 /\ j.hp_m = 0
      /\ j.timers \subseteq {"ctrl"} /\ j.stray \subseteq {"rhb"} /\ j.orphans = {}
  BY <1>0, <1>2 DEF Rebinding, Leavable, KeepaliveUnit, IsRecord, TimerNames
<1>4. Unbound(j)
  BY <1>1, <1>2, <1>3 DEF Rebinding, Unbound, Carried, Lasting, Limited
<1>5. Sourced(j)
  BY <1>2 DEF Rebinding, Sourced, Control, IdleIsDone, Pending, Carried, KeepaliveUnit
<1> QED
  BY <1>2, <1>3, <1>4, <1>5

LEMMA LeavingHP ==
    ASSUME NEW k, Rebinding(k), k.tr = 270, k.h = 720, NEW i, IsRecord(i), Carried(i, k),
           i.w_k = k.w_k, i.ws_m = k.ws_m, i.ws_k = k.ws_k, i.wp_m = k.wp_m, i.wp_p = k.wp_p,
           i.slw = k.slw, i.tr = k.tr, i.hs_m = k.hs_m, i.hs_p = k.hs_p, i.hs_k = k.hs_k,
           i.ctrl = k.ctrl, i.timers = k.timers, i.stray = k.stray, i.conns = k.conns,
           i.orphans = k.orphans, i.rhb \in {0, k.rhb}, NEW j, j = exit_hp(i)
    PROVE  /\ Unbound(j) /\ Sourced(j) /\ Carried(j, k)
           /\ j.tr = 270 /\ j.hs_m = 0 /\ j.hs_p = 0 /\ j.hs_k = 0 /\ j.slw = 0
           /\ j.hp_m = i.hp_m /\ j.rhb = i.rhb
<1>0. IsRecord(k)
  BY DEF Rebinding
<1>1. IsRecord(j)
  BY Cancelled DEF exit_hp
<1>3. /\ Carried(j, i) /\ j.w_k = i.w_k /\ j.ws_m = i.ws_m /\ j.ws_k = i.ws_k /\ j.wp_m = i.wp_m
      /\ j.wp_p = i.wp_p /\ j.slw = i.slw /\ j.tr = i.tr
      /\ j.hs_m = i.hs_m /\ j.hs_p = i.hs_p /\ j.hs_k = i.hs_k
      /\ j.ctrl = i.ctrl /\ j.timers = i.timers \ {"idle", "polling", "rhb"}
      /\ j.stray = i.stray /\ j.conns = i.conns /\ j.orphans = i.orphans
      /\ j.rhb = i.rhb /\ j.hp_m = i.hp_m
  BY DEF exit_hp, Cancel, Carried, IsRecord, Fields
<1>4. Carried(j, k)
  BY <1>3, CarriedTrans
<1>5. /\ j.w_k = 0 /\ j.ws_m = 0 /\ j.ws_k = 0 /\ j.wp_m = 0 /\ j.wp_p = 0
      /\ j.hs_m = 0 /\ j.hs_p = 0 /\ j.hs_k = 0 /\ j.slw = 0 /\ j.tr = 270
      /\ j.timers \subseteq {"ctrl"} /\ j.stray \subseteq {"rhb"} /\ j.orphans = {}
      /\ j.conns \subseteq {"ctrl"} 
  BY <1>0, <1>3 DEF Rebinding, Leavable, IsRecord, TimerNames
<1>6. Unbound(j)
  <2>1. /\ Lasting(k) /\ Limited(k) /\ k.m = 150 /\ k.du = 22 /\ k.sid
        /\ k.status \in Connected \cup {TRYING_RECOVERY}
        /\ k.swt \in {1300, 1301, 1302, 1303} /\ k.bw \in {1201, 1202}
    BY DEF Rebinding
  <2>2. Lasting(j) /\ Limited(j)
    BY <1>4, <2>1 DEF Carried, Lasting, Limited
  <2>3. j.sid
    <3>1. j.sid = k.sid
      BY <1>4 DEF Carried
    <3>2. k.sid
      BY <2>1
    <3> QED
      BY <3>1, <3>2
  <2>4. /\ j.m = 150 /\ j.du = 22 /\ j.status \in Connected \cup {TRYING_RECOVERY}
        /\ j.swt \in {1300, 1301, 1302, 1303} /\ j.bw \in {1201, 1202}
    BY <1>4, <2>1 DEF Carried
  <2> QED
    BY <1>1, <1>5, <2>2, <2>3, <2>4 DEF Unbound
<1>7. Sourced(j)
  BY <1>3, <1>4 DEF Rebinding, Sourced, Control, IdleIsDone, Pending, Carried
<1> QED
  BY <1>3, <1>4, <1>5, <1>6, <1>7

LEMMA ClearedHP ==
    ASSUME NEW k, Rebinding(k), k.tr = 270, k.h = 720, NEW j, j = exit_hp(clear_hp(k))
    PROVE  /\ Unbound(j) /\ Sourced(j) /\ Carried(j, k)
           /\ j.tr = 270 /\ j.hs_m = 0 /\ j.hs_p = 0 /\ j.hs_k = 0 /\ j.slw = 0
           /\ j.hp_m = 0 /\ j.rhb = 0
<1> DEFINE i == clear_hp(k)
<1>0. IsRecord(k)
  BY DEF Rebinding
<1>1. IsRecord(i)
  BY <1>0, ClearedRecord
<1>2. /\ Carried(i, k) /\ i.w_k = k.w_k /\ i.ws_m = k.ws_m /\ i.ws_k = k.ws_k /\ i.wp_m = k.wp_m
      /\ i.wp_p = k.wp_p /\ i.slw = k.slw /\ i.tr = k.tr
      /\ i.hs_m = k.hs_m /\ i.hs_p = k.hs_p /\ i.hs_k = k.hs_k
      /\ i.ctrl = k.ctrl /\ i.timers = k.timers
      /\ i.stray = k.stray /\ i.conns = k.conns /\ i.orphans = k.orphans
      /\ i.rhb = 0 /\ i.hp_m = 0
  BY <1>0 DEF clear_hp, Carried, IsRecord, Fields, None
<1> HIDE DEF i
<1>3. j = exit_hp(i)
  BY DEF i
<1> QED
  BY <1>1, <1>2, <1>3, LeavingHP

LEMMA LeftCtrl ==
    ASSUME NEW k, Unbound(k), Sourced(k), k.tr = 270, k.hs_m = 0, k.hs_p = 0, k.hs_k = 0,
           k.hp_m = 0, k.slw = 0, k.rhb = 0, NEW j, j = exit_ctrl(clear_ctrl(k))
    PROVE  Unbound(j) /\ Out(j) /\ Carried(j, k)
<1>0. IsRecord(k)
  BY DEF Unbound
<1>1. IsRecord(j)
  BY <1>0, Cancelled, ClearedRecord, Disposed DEF exit_ctrl, disposeCtrl, Kinds
<1>2. /\ Carried(j, k) /\ j.w_k = k.w_k /\ j.ws_m = k.ws_m /\ j.ws_k = k.ws_k /\ j.wp_m = k.wp_m
      /\ j.wp_p = k.wp_p /\ j.hp_m = k.hp_m /\ j.rhb = k.rhb /\ j.slw = k.slw /\ j.h = 0
      /\ j.hs_m = k.hs_m /\ j.hs_p = k.hs_p /\ j.hs_k = k.hs_k
      /\ j.ctrl = 0 /\ j.timers = k.timers \ {"ctrl"}
      /\ j.stray = k.stray /\ j.conns = k.conns \ {"ctrl"} /\ j.orphans = k.orphans
  BY <1>0 DEF exit_ctrl, clear_ctrl, disposeCtrl, Dispose, Forget, Cancel, Carried, IsRecord,
              Fields, None
<1>3. Out(j)
  BY <1>2 DEF Out, Unbound
<1>4. Unbound(j)
  BY <1>1, <1>2 DEF Unbound, Carried, Lasting, Limited
<1> QED
  BY <1>2, <1>3, <1>4

LEMMA JoinedOver ==
    ASSUME NEW j, NEW i, NEW k, Joined(j, i), Carried(i, k)
    PROVE  Joined(j, k)
  BY CarriedTrans DEF Joined

(* From there the session is bound to the best transport, if there is one. *)
LEMMA JoinBest ==
    ASSUME NEW k, Rebinding(k), NEW best, best = getBestForBinding(k),
           NEW left, Carried(left, k), NEW out,
           best \in {"HTTP_STREAMING", "HTTP_POLLING"} => Unbound(left) /\ Sourced(left),
           best = "HTTP_STREAMING" => left.hp_m = 0,
           best = "HTTP_POLLING" =>
               left.hs_m = 0 /\ left.hs_p = 0 /\ left.hs_k = 0 /\ left.slw = 0,
           best \in {"WS_STREAMING", "WS_POLLING"} => Unbound(out) /\ Out(out) /\ Carried(out, k),
           NEW j, best = "none" => j = Terminate(k),
           best = "HTTP_STREAMING" => j = sendBindHTTP_Streaming(left),
           best = "HTTP_POLLING" => j = sendBindHTTP_Polling(left),
           best \in {"WS_STREAMING", "WS_POLLING"} => j = openWS_Bind(out, best)
    PROVE  (Inv(j) /\ j.m = 100) \/ Joined(j, k)
<1>0. best \in Bindings
  BY BestIsTransport DEF Rebinding
<1>1. CASE best = "none"
  BY <1>1, TerminateInv DEF Rebinding
<1>2. CASE best = "HTTP_STREAMING"
  <2>1. j = sendBindHTTP_Streaming(left) /\ getBestForBinding(left) = "HTTP_STREAMING"
    BY <1>2, CarriedBest
  <2> QED
    BY <1>2, <2>1, JoinHTTP_Streaming, JoinedOver
<1>3. CASE best = "HTTP_POLLING"
  <2>1. j = sendBindHTTP_Polling(left) /\ getBestForBinding(left) = "HTTP_POLLING"
    BY <1>3, CarriedBest
  <2> QED
    BY <1>3, <2>1, JoinHTTP_Polling, JoinedOver
<1>4. CASE best \in {"WS_STREAMING", "WS_POLLING"}
  <2>1. j = openWS_Bind(out, best) /\ best = getBestForBinding(out)
    BY <1>4, CarriedBest
  <2> QED
    BY <1>4, <2>1, JoinWS, JoinedOver
<1> QED
  BY <1>0, <1>1, <1>2, <1>3, <1>4 DEF Bindings

LEMMA ForwardJoins ==
    ASSUME NEW k, Rebinding(k), NEW j, j = forwardToTransportRegion(k)
    PROVE  (Inv(j) /\ j.m = 100) \/ Joined(j, k)
<1> DEFINE best == getBestForBinding(k)
           left == CASE k.hs_p = 811 /\ best = "HTTP_STREAMING" -> exit_hs(k)
                     [] k.hs_p = 811 /\ best # "HTTP_STREAMING" -> exit_hs(clear_hs(k))
                     [] k.hp_m = 904 /\ best = "HTTP_POLLING"   -> exit_hp(k)
                     [] k.hp_m = 904 /\ best # "HTTP_POLLING"   -> exit_hp(clear_hp(k))
                     [] OTHER -> k
           out == IF k.tr = 270 THEN exit_ctrl(clear_ctrl(left)) ELSE left
<1>1. /\ best = "none" => j = Terminate(k)
      /\ best = "HTTP_STREAMING" => j = sendBindHTTP_Streaming(left)
      /\ best = "HTTP_POLLING" => j = sendBindHTTP_Polling(left)
      /\ best \in {"WS_STREAMING", "WS_POLLING"} => j = openWS_Bind(out, best)
  BY DEF forwardToTransportRegion
<1>2. /\ Carried(left, k) /\ Unbound(left) /\ Sourced(left)
      /\ best = "HTTP_STREAMING" => left.hp_m = 0
      /\ best = "HTTP_POLLING" =>
             left.hs_m = 0 /\ left.hs_p = 0 /\ left.hs_k = 0 /\ left.slw = 0
      /\ best \in {"WS_STREAMING", "WS_POLLING"} => Unbound(out) /\ Out(out) /\ Carried(out, k)
  <2>1. CASE k.tr = 200
    <3>1. Out(k) /\ left = k /\ out = k
      BY <2>1 DEF Rebinding, Out
    <3> HIDE DEF left, out
    <3>2. Unbound(k) /\ Sourced(k)
      BY <2>1, <3>1 DEF Rebinding, Unbound, Sourced, Out
    <3>3. Carried(k, k)
      BY DEF Carried
    <3> QED
      BY <3>1, <3>2, <3>3 DEF Out
  <2>2. CASE k.tr = 270 /\ k.h = 710 /\ best = "HTTP_STREAMING"
    <3>1. left = exit_hs(k)
      BY <2>2 DEF Rebinding, Leavable
    <3> HIDE DEF left, out
    <3> QED
      BY <2>2, <3>1, LeftHS
  <2>3. CASE k.tr = 270 /\ k.h = 710 /\ best # "HTTP_STREAMING"
    <3>1. left = exit_hs(clear_hs(k)) /\ out = exit_ctrl(clear_ctrl(left))
      BY <2>3 DEF Rebinding, Leavable
    <3> HIDE DEF left, out
    <3>2. /\ Unbound(left) /\ Sourced(left) /\ Carried(left, k)
          /\ left.tr = 270 /\ left.hs_m = 0 /\ left.hs_p = 0 /\ left.hs_k = 0 /\ left.hp_m = 0
          /\ left.slw = 0 /\ left.rhb = 0
      BY <2>3, <3>1, ClearedHS
    <3>3. Unbound(out) /\ Out(out) /\ Carried(out, left)
      BY <3>1, <3>2, LeftCtrl
    <3> QED
      BY <2>3, <3>2, <3>3, CarriedTrans
  <2>4. CASE k.tr = 270 /\ k.h = 720 /\ best = "HTTP_POLLING"
    <3>1. left = exit_hp(k)
      BY <2>4 DEF Rebinding, Leavable
    <3> HIDE DEF left, out
    <3>2. /\ Unbound(left) /\ Sourced(left) /\ Carried(left, k)
          /\ left.tr = 270 /\ left.hs_m = 0 /\ left.hs_p = 0 /\ left.hs_k = 0 /\ left.slw = 0
      <4>1. IsRecord(k) /\ Carried(k, k)
        BY DEF Rebinding, Carried
      <4> QED
        BY <2>4, <3>1, <4>1, LeavingHP
    <3> QED
      BY <2>4, <3>2
  <2>5. CASE k.tr = 270 /\ k.h = 720 /\ best # "HTTP_POLLING"
    <3>1. left = exit_hp(clear_hp(k)) /\ out = exit_ctrl(clear_ctrl(left))
      BY <2>5 DEF Rebinding, Leavable
    <3> HIDE DEF left, out
    <3>2. /\ Unbound(left) /\ Sourced(left) /\ Carried(left, k)
          /\ left.tr = 270 /\ left.hs_m = 0 /\ left.hs_p = 0 /\ left.hs_k = 0 /\ left.slw = 0
          /\ left.hp_m = 0 /\ left.rhb = 0
      BY <2>5, <3>1, ClearedHP
    <3>3. Unbound(out) /\ Out(out) /\ Carried(out, left)
      BY <3>1, <3>2, LeftCtrl
    <3> QED
      BY <2>5, <3>2, <3>3, CarriedTrans
  <2> QED
    BY <2>1, <2>2, <2>3, <2>4, <2>5 DEF Rebinding
<1>3. best = getBestForBinding(k)
  OBVIOUS
<1> HIDE DEF best, left, out
<1>4. Carried(left, k) /\ (best \in {"HTTP_STREAMING", "HTTP_POLLING"} => Unbound(left) /\ Sourced(left))
  BY <1>2
<1> QED
  BY <1>1, <1>2, <1>3, <1>4, JoinBest

LEMMA JoinedInv ==
    ASSUME NEW j, NEW k, Joined(j, k), k.m = 150, k.swt = 1301, k.bw \in {1201, 1202}, Limited(k)
    PROVE  Inv(j)
<1>1. j.swt = 1301 /\ j.bw \in {1201, 1202} /\ Limited(j)
  BY DEF Joined, Carried, Limited
<1> QED
  BY <1>1 DEF Joined, Inv, Quiet, SwitchSent, LimitSent, Switched

LEMMA JoinedChecksInv ==
    ASSUME NEW i, NEW k, Joined(i, k), k.m = 150, k.swt = 1300, k.bw \in {1201, 1202}, Limited(k),
           NEW j, j = evtCheckTransport(i)
    PROVE  Inv(j) /\ j.m = 150
<1>1. IsRecord(i) /\ Base(i) /\ Channel(i) /\ IdleIsDone(i) /\ i.ctrl # 1100 /\ i.rhb # 320
  BY DEF Joined
<1>2. i.swt = 1300 /\ i.bw \in {1201, 1202} /\ i.m = 150 /\ Limited(i)
  BY DEF Joined, Carried, Limited
<1>3. OneWay(i) /\ LimitSent(i) /\ (i.ctrl = 1101 => i.bw # 1202 /\ i.rhb # 324)
  BY <1>1, BaseOneWay DEF Joined, LimitSent, IdleIsDone, Pending
<1>4. /\ Steered(j, i) /\ j.swt \in {1301, 1302} /\ j.bw = i.bw /\ j.bwReq = i.bwReq
      /\ SwitchSent(j) /\ LimitSent(j) /\ Switched(j)
  BY <1>1, <1>2, <1>3, CheckTransportKeeps
<1>5. Base(j)
  BY <1>1, <1>2, <1>4, CoreBase DEF Steered
<1>6. Quiet(j) /\ Limited(j) /\ j.m = 150 /\ IsRecord(j)
  BY <1>1, <1>2, <1>4 DEF Quiet, Limited, Core, Steered
<1> QED
  BY <1>4, <1>5, <1>6 DEF Inv, Steered

LEMMA SwitchInv ==
    ASSUME NEW k, Rebinding(k), k.swt \in {1301, 1302, 1303}, NEW j, j = evtSwitchTransport(k)
    PROVE  Inv(j) /\ j.m \in {100, 150}
<1>0. k.m = 150 /\ k.bw \in {1201, 1202} /\ Limited(k)
  BY DEF Rebinding
<1>1. CASE isSwitching(k)
  <2> DEFINE s == [k EXCEPT !.swt = 1300]
             i == forwardToTransportRegion(s)
  <2>1. j = evtCheckTransport(i)
    BY <1>1 DEF evtSwitchTransport
  <2>2. Rebinding(s) /\ s.m = 150 /\ s.swt = 1300 /\ s.bw = k.bw /\ Limited(s)
    <3>0. IsRecord(k)
      BY DEF Rebinding
    <3>1. IsRecord(s)
      BY <3>0 DEF IsRecord, Fields
    <3>2. /\ Carried(s, [k EXCEPT !.swt = 1300]) /\ s.m = k.m /\ s.du = k.du /\ s.sid = k.sid
          /\ s.status = k.status /\ s.bw = k.bw /\ s.bwReq = k.bwReq /\ s.bwOpt = k.bwOpt
          /\ s.unmanaged = k.unmanaged /\ s.rec = k.rec /\ s.nr = k.nr /\ s.attempts = k.attempts
          /\ s.tr = k.tr /\ s.w_k = k.w_k /\ s.ws_m = k.ws_m /\ s.ws_k = k.ws_k
          /\ s.wp_m = k.wp_m /\ s.wp_p = k.wp_p /\ s.h = k.h /\ s.hs_m = k.hs_m
          /\ s.hs_p = k.hs_p /\ s.hs_k = k.hs_k /\ s.hp_m = k.hp_m /\ s.ctrl = k.ctrl
          /\ s.rhb = k.rhb /\ s.slw = k.slw /\ s.timers = k.timers /\ s.stray = k.stray
          /\ s.conns = k.conns /\ s.orphans = k.orphans /\ s.swt = 1300
      BY <3>0 DEF Carried, IsRecord, Fields
    <3> HIDE DEF s
    <3>3. Lasting(s) /\ Limited(s)
      BY <3>2 DEF Rebinding, Lasting, Limited
    <3>4. Leavable(s)
      BY <3>1, <3>2 DEF Rebinding, Leavable
    <3>5. s.sid
      <4>1. k.sid
        BY DEF Rebinding
      <4> QED
        BY <3>2, <4>1
    <3>6. k.tr = 200 /\ Out(k) => s.tr = 200 /\ Out(s)
      BY <3>2 DEF Out
    <3>7. Control(k) => Control(s)
      BY <3>2 DEF Control
    <3>8. IdleIsDone(k) => IdleIsDone(s)
      BY <3>2 DEF IdleIsDone, Pending
    <3> QED
      BY <3>1, <3>2, <3>3, <3>4, <3>5, <3>6, <3>7, <3>8 DEF Rebinding
  <2> HIDE DEF s
  <2>3. (Inv(i) /\ i.m = 100) \/ Joined(i, s)
    BY <2>2, ForwardJoins
  <2> HIDE DEF i
  <2>4. CASE Inv(i) /\ i.m = 100
    <3>1. i.swt # 1300
      BY <2>4 DEF Inv, Quiet
    <3>2. j = i
      BY <2>1, <3>1 DEF evtCheckTransport
    <3> QED
      BY <2>4, <3>2
  <2>5. CASE Joined(i, s)
    BY <1>0, <2>1, <2>2, <2>5, JoinedChecksInv
  <2> QED
    BY <2>3, <2>4, <2>5
<1>2. CASE ~isSwitching(k)
  <2>1. j = forwardToTransportRegion(k) /\ k.swt = 1301
    BY <1>2 DEF evtSwitchTransport, isSwitching
  <2>2. (Inv(j) /\ j.m = 100) \/ Joined(j, k)
    BY <2>1, ForwardJoins
  <2> QED
    BY <1>0, <2>1, <2>2, JoinedInv DEF Joined, Carried
<1> QED
  BY <1>1, <1>2

LEMMA RebindInv ==
    ASSUME NEW k, Leavable(k), Lasting(k), Limited(k), k.m = 150, k.du = 22, k.sid,
           k.status \in Connected \cup {TRYING_RECOVERY},
           k.swt \in {1301, 1302, 1303}, k.bw \in {1201, 1202}, NEW j, j = Rebind(k)
    PROVE  Inv(j) /\ j.m \in {100, 150}
<1> DEFINE d == Leave(k)
           i == [d EXCEPT !.tr = 200]
<1>1. j = evtSwitchTransport(i)
  BY DEF Rebind
<1>2. IsRecord(d) /\ Out(d) /\ Kept(d, k)
  BY LeaveOut
<1> HIDE DEF d
<1>3. IsRecord(i)
  BY <1>2 DEF IsRecord, Fields
<1>4. /\ Out(i) /\ i.tr = 200 /\ i.m = d.m /\ i.du = d.du /\ i.rec = d.rec /\ i.swt = d.swt
      /\ i.bw = d.bw /\ i.nr = d.nr /\ i.status = d.status /\ i.sid = d.sid
      /\ i.bwOpt = d.bwOpt /\ i.bwReq = d.bwReq /\ i.unmanaged = d.unmanaged
      /\ i.attempts = d.attempts
  BY <1>2 DEF Out, IsRecord, Fields
<1> HIDE DEF i
<1>5. /\ i.m = 150 /\ i.du = 22 /\ i.status \in Connected \cup {TRYING_RECOVERY}
      /\ i.swt \in {1301, 1302, 1303} /\ i.bw \in {1201, 1202} /\ i.sid = k.sid
      /\ Lasting(i) /\ Limited(i)
  BY <1>2, <1>4 DEF Kept, Lasting, Limited
<1>6. Leavable(i)
  BY <1>3, <1>4, <1>5 DEF Leavable, Out
<1>7. i.sid
  BY <1>5
<1>8. Rebinding(i)
  BY <1>3, <1>4, <1>5, <1>6, <1>7 DEF Rebinding
<1> QED
  BY <1>1, <1>5, <1>8, SwitchInv

-----------------------------------------------------------------------------
(* The steps, with what ClientListener sees of them.                       *)
Creates == {120, 121, 122, 130, 140}

Moves(j, k) ==
    /\ j.m = 150 =>
          k.m = 150 \/ (k.status = CONNECTING /\ j.status \in {WS_STREAMING, STREAM_SENSING})
    /\ j.m \in Creates => k.m # 150

Step(j, k) == Inv(j) /\ Moves(j, k)

LEMMA NearSession ==
    ASSUME NEW k, Inv(k), NEW j, Near(j, k), k.m = 150
    PROVE  /\ Leavable(j) /\ Lasting(j) /\ Limited(j)
           /\ j.m = 150 /\ j.du = 22 /\ j.sid /\ j.status \in Connected \cup {TRYING_RECOVERY}
           /\ j.swt \in {1301, 1302, 1303} /\ j.bw \in {1201, 1202}
<1>1. Leavable(j) /\ Lasting(j)
  BY NearLeavable
<1>2. Base(k) /\ Quiet(k) /\ Limited(k)
  BY DEF Inv
<1>3. j.sid
  <2>1. j.sid = k.sid
    BY DEF Near
  <2>2. k.sid
    BY <1>2 DEF Base, Parts
  <2> QED
    BY <2>1, <2>2
<1> QED
  BY <1>1, <1>2, <1>3 DEF Near, Base, Parts, Status, Quiet, Limited

LEMMA TerminateStep ==
    ASSUME NEW k, Inv(k), NEW j, Near(j, k)
    PROVE  Step(Terminate(j), k)
  BY NearLeavable, TerminateInv DEF Step, Moves, Creates

LEMMA RetryStep ==
    ASSUME NEW k, Inv(k), NEW j, Near(j, k), NEW s \in {111, 112, 113}
    PROVE  /\ Step(EnterRetry(TearDown(j), s), k)
           /\ k.m = 150 => Step(EnterRetry(Leave(j), s), k)
<1> DEFINE d == TearDown(j)
<1>1. Leavable(j) /\ Lasting(j)
  BY NearLeavable
<1>2. IsRecord(d) /\ Out(d) /\ Lasting(d)
  BY <1>1, TearDownOut DEF Kept, Lasting
<1>3. Step(EnterRetry(d, s), k)
  <2> HIDE DEF d
  <2>1. Inv(EnterRetry(d, s)) /\ EnterRetry(d, s).m = s
    BY <1>2, EnterRetryInv
  <2> QED
    BY <2>1 DEF Step, Moves, Creates
<1>4. k.m = 150 => d = Leave(j)
  BY DEF Near, TearDown
<1> QED
  BY <1>3, <1>4

LEMMA RetryTTLStep ==
    ASSUME NEW k, Inv(k), NEW j, Near(j, k), k.m # 150
    PROVE  Step(RetryTTL(TearDown(j)), k)
<1> DEFINE d == TearDown(j)
           r == RetryTTL(d)
<1>1. Leavable(j) /\ Lasting(j)
  BY NearLeavable
<1>2. IsRecord(d) /\ Out(d) /\ Lasting(d)
  BY <1>1, TearDownOut DEF Kept, Lasting
<1> HIDE DEF d
<1>3. Inv(r) /\ r.m = 140
  BY <1>2, RetryTTLInv
<1> QED
  BY <1>3 DEF Step, Moves, d

LEMMA RetryWithoutWSStep ==
    ASSUME NEW k, Inv(k), NEW j, Near(j, k), k.m \in {120, 121}
    PROVE  Step(RetryWithoutWS(j), k)
<1> DEFINE r == RetryWithoutWS(j)
<1>1. Leavable(j) /\ Lasting(j)
  BY NearLeavable
<1>2. j.m \in {120, 121} /\ j.tr = 0 /\ j.swt = 0 /\ j.bw = 0
  BY DEF Near, Inv, Base, Parts
<1>3. Inv(r) /\ r.m \in {100, 120, 130}
  BY <1>1, <1>2, RetryWithoutWSInv
<1> QED
  BY <1>3 DEF Step, Moves

LEMMA LoseStep ==
    ASSUME NEW k, Inv(k), NEW j, Near(j, k), k.m = 150, NEW s \in {112, 113}
    PROVE  Step(LoseSession(j, s), k)
<1> DEFINE r == LoseSession(j, s)
<1>0. /\ Leavable(j) /\ Lasting(j) /\ Limited(j) /\ j.m = 150 /\ j.du = 22 /\ j.sid
      /\ j.swt \in {1301, 1302, 1303} /\ j.bw \in {1201, 1202}
  BY NearSession
<1>1. Inv(r) /\ r.m \in {s, 150}
  BY <1>0, LoseSessionInv
<1> HIDE DEF r
<1>2. Step(r, k)
  BY <1>1 DEF Step, Moves, Creates
<1> QED
  BY <1>2 DEF r

LEMMA RebindStep ==
    ASSUME NEW k, Inv(k), NEW j, Near(j, k), k.m = 150
    PROVE  Step(Rebind(j), k)
<1> DEFINE r == Rebind(j)
<1>0. /\ Leavable(j) /\ Lasting(j) /\ Limited(j) /\ j.m = 150 /\ j.du = 22 /\ j.sid
      /\ j.status \in Connected \cup {TRYING_RECOVERY}
      /\ j.swt \in {1301, 1302, 1303} /\ j.bw \in {1201, 1202}
  BY NearSession
<1>1. Inv(r) /\ r.m \in {100, 150}
  BY <1>0, RebindInv
<1> HIDE DEF r
<1>2. Step(r, k)
  BY <1>1 DEF Step, Moves, Creates
<1> QED
  BY <1>2 DEF r

LEMMA NearDisabled ==
    ASSUME NEW k, NEW j, Near(j, k)
    PROVE  Near(disableWS(j), k)
  BY DEF Near, disableWS, IsRecord, Fields

(* Two records that differ in the fields F only.                           *)
Same(j, k, F) == \A f \in Fields \ F : j[f] = k[f]

LEMMA Unsteered ==
    ASSUME NEW j, NEW k, NEW F, Same(j, k, F),
           F \cap {"m", "tr", "h", "swt", "bw", "excused", "forced", "disabled", "bwReq",
                   "bwOpt", "unmanaged"} = {}
    PROVE  /\ Switched(k) => Switched(j)
           /\ Limited(k) => Limited(j)
           /\ Moves(j, k)
<1>1. /\ j.m = k.m /\ j.tr = k.tr /\ j.h = k.h /\ j.swt = k.swt /\ j.bw = k.bw
      /\ j.excused = k.excused /\ j.forced = k.forced /\ j.disabled = k.disabled
      /\ j.bwReq = k.bwReq /\ j.bwOpt = k.bwOpt /\ j.unmanaged = k.unmanaged
  BY DEF Same, Fields
<1>2. getBestForBinding(j) = getBestForBinding(k) /\ Transport(j) = Transport(k)
  BY <1>1 DEF getBestForBinding, Transport
<1> QED
  BY <1>1, <1>2 DEF Switched, Limited, Moves, Creates

LEMMA FiresOne ==
    ASSUME Inv(c), NEW t \in TimerNames, t # "rhb", NEW k \in Fired(t)
    PROVE  /\ t \in c.timers /\ Near(k, c) /\ Same(k, c, {"timers"})
           /\ k.timers = c.timers \ {t} /\ IsRecord(k)
<1>1. k = [c EXCEPT !.timers = @ \ {t}] /\ t \in c.timers /\ Near(k, c)
  BY Fires
<1>2. IsRecord(c) /\ IsRecord(k)
  BY <1>1 DEF Inv, Near
<1> QED
  BY <1>1, <1>2 DEF Same, IsRecord, Fields

(* A step that changes neither what the session asks for nor its channel.  *)
Steering == {"m", "tr", "h", "ctrl", "swt", "bw", "excused", "forced", "disabled", "bwReq",
             "bwOpt", "unmanaged", "rhb", "stray", "orphans", "swtAck", "bwAck"}

LEMMA SteadyStep ==
    ASSUME NEW k, Inv(k), NEW j, IsRecord(j), Base(j), NEW F, Same(j, k, F),
           F \cap Steering = {}, SendsOnWS(j) => SendsOnWS(k),
           j.hs_m \in {800, 801} <=> k.hs_m \in {800, 801}, k.hs_m # 0 => j.hs_m # 0,
           \A t \in {"rhb", "ctrl"} : t \in j.timers <=> t \in k.timers,
           "ctrl" \in j.conns <=> "ctrl" \in k.conns
    PROVE  Step(j, k)
<1>1. /\ j.m = k.m /\ j.tr = k.tr /\ j.h = k.h /\ j.ctrl = k.ctrl /\ j.swt = k.swt
      /\ j.bw = k.bw /\ j.rhb = k.rhb /\ j.stray = k.stray /\ j.orphans = k.orphans
      /\ j.swtAck = k.swtAck /\ j.bwAck = k.bwAck
  BY DEF Same, Fields, Steering
<1>2. Switched(j) /\ Limited(j) /\ Moves(j, k)
  <2>1. F \cap {"m", "tr", "h", "swt", "bw", "excused", "forced", "disabled", "bwReq",
                "bwOpt", "unmanaged"} = {}
    BY DEF Steering
  <2> QED
    BY <2>1, Unsteered DEF Inv
<1>3. Channel(j)
  BY <1>1 DEF Inv, Channel, Hearts, Control
<1>4. Quiet(j) /\ IdleIsDone(j)
  BY <1>1 DEF Inv, Quiet, IdleIsDone, Pending
<1>5. SwitchSent(j) /\ LimitSent(j)
  BY <1>1 DEF Inv, SwitchSent, LimitSent
<1> QED
  BY <1>2, <1>3, <1>4, <1>5 DEF Step, Inv

LEMMA SameTrans ==
    ASSUME NEW i, NEW j, NEW k, NEW F, NEW G, Same(i, j, F), Same(j, k, G)
    PROVE  Same(i, k, F \cup G)
  BY DEF Same

LEMMA ScheduledSame ==
    ASSUME NEW k, IsRecord(k), NEW t \in TimerNames, t \notin k.timers, NEW j, j = Schedule(k, t)
    PROVE  IsRecord(j) /\ Same(j, k, {"timers"}) /\ j.timers = k.timers \cup {t}
  BY Scheduled DEF Schedule, Same, IsRecord, Fields

LEMMA CancelledSame ==
    ASSUME NEW k, IsRecord(k), NEW ts, NEW j, j = Cancel(k, ts)
    PROVE  IsRecord(j) /\ Same(j, k, {"timers"}) /\ j.timers = k.timers \ ts
  BY Cancelled DEF Cancel, Same, IsRecord, Fields

LEMMA OpenedSame ==
    ASSUME NEW k, IsRecord(k), NEW kind \in Kinds, kind \notin k.conns, NEW j, j = Open(k, kind)
    PROVE  IsRecord(j) /\ Same(j, k, {"conns"}) /\ j.conns = k.conns \cup {kind}
<1>1. /\ IsRecord(j)
      /\ j.conns = k.conns \cup {kind} /\ j.orphans = k.orphans
  <2>1. j = [k EXCEPT !.conns = @ \cup {kind}, !.orphans = @]
    BY DEF Open
  <2> QED
    BY <2>1 DEF IsRecord, Fields, Kinds
<1>2. \A f \in Fields \ {"conns", "orphans"} : j[f] = k[f]
  BY DEF Open, IsRecord
<1> QED
  BY <1>1, <1>2 DEF Same, Fields

LEMMA DisposedSame ==
    ASSUME NEW k, IsRecord(k), NEW kind, NEW j, j = Dispose(k, kind)
    PROVE  /\ IsRecord(j) /\ Same(j, k, {"conns", "swtAck", "bwAck"})
           /\ j.conns = k.conns \ {kind}
           /\ j.swtAck \in {k.swtAck, "none"} /\ j.bwAck \in {k.bwAck, "none"}
           /\ k.swtAck # kind => j.swtAck = k.swtAck
           /\ k.bwAck # kind => j.bwAck = k.bwAck
<1> DEFINE i == Forget(k, kind)
<1>1. /\ IsRecord(i) /\ Same(i, k, {"swtAck", "bwAck"})
      /\ i.swtAck \in {k.swtAck, "none"} /\ i.bwAck \in {k.bwAck, "none"}
      /\ k.swtAck # kind => i.swtAck = k.swtAck
      /\ k.bwAck # kind => i.bwAck = k.bwAck
  <2>1. \A f \in Fields \ {"swtAck", "bwAck"} : i[f] = k[f]
    BY DEF Forget, IsRecord
  <2>2. /\ i.swtAck = IF k.swtAck = kind THEN "none" ELSE k.swtAck
        /\ i.bwAck = IF k.bwAck = kind THEN "none" ELSE k.bwAck
    BY DEF Forget, IsRecord, Fields
  <2>3. DOMAIN i = Fields
    BY DEF Forget, IsRecord
  <2> HIDE DEF i
  <2> QED
    BY <2>1, <2>2, <2>3 DEF Same, IsRecord, Fields
<1>2. j = [i EXCEPT !.conns = @ \ {kind}]
  BY DEF Dispose
<1> HIDE DEF i
<1>3. IsRecord(j) /\ Same(j, i, {"conns"}) /\ j.conns = i.conns \ {kind}
  <2>1. \A f \in Fields \ {"conns"} : j[f] = i[f]
    BY <1>1, <1>2 DEF IsRecord
  <2>2. j.conns = i.conns \ {kind}
    BY <1>1, <1>2 DEF IsRecord, Fields
  <2> QED
    BY <2>1, <2>2, Disposed DEF Same
<1>4. i.conns = k.conns /\ j.swtAck = i.swtAck /\ j.bwAck = i.bwAck
  BY <1>1, <1>3 DEF Same, Fields
<1> QED
  BY <1>1, <1>3, <1>4 DEF Same


-----------------------------------------------------------------------------
LEMMA StepItself ==
    ASSUME NEW k, Inv(k)
    PROVE  Step(k, k)
  BY DEF Step, Moves, Inv, Base, Parts, Creates

LEMMA IdleStep ==
    ASSUME Inv(c), NEW k \in Fired("idle"), NEW j, j = evtIdleTimeout(k)
    PROVE  Step(j, c)
<1>1. "idle" \in c.timers /\ Near(k, c)
  BY FiresOne DEF TimerNames
<1>2. Base(c) /\ k.wp_p = c.wp_p /\ k.hp_m = c.hp_m
  BY <1>1 DEF Inv, Near
<1>3. CASE k.wp_p \in {610, 611, 613}
  <2>1. j = LoseSession(k, 113) /\ c.m = 150
    BY <1>2, <1>3 DEF evtIdleTimeout, Base, Parts
  <2> QED
    BY <1>1, <2>1, LoseStep
<1>4. CASE k.hp_m \in {900, 901, 903}
  <2>1. j = LoseSession(k, 112) /\ c.m = 150
    BY <1>2, <1>4 DEF evtIdleTimeout, Base, Parts
  <2> QED
    BY <1>1, <2>1, LoseStep
<1>5. k.wp_p \in {610, 611, 613} \/ k.hp_m \in {900, 901, 903}
  BY <1>1, <1>2 DEF Base, Timers
<1> QED
  BY <1>3, <1>4, <1>5

LEMMA PollingStep ==
    ASSUME Inv(c), NEW k \in Fired("polling"), NEW j, j = evtPollingTimeout(k)
    PROVE  Step(j, c)
<1>1. /\ "polling" \in c.timers /\ Near(k, c) /\ Same(k, c, {"timers"})
      /\ k.timers = c.timers \ {"polling"} /\ IsRecord(k)
  BY FiresOne DEF TimerNames
<1>2. IsRecord(c) /\ Base(c) /\ Channel(c) /\ k.wp_p = c.wp_p /\ k.hp_m = c.hp_m
  BY <1>1 DEF Inv, Near
<1>3. CASE k.wp_p = 612
  <2>0. k.hp_m # 902
    BY <1>2, <1>3 DEF Base, Parts
  <2>1. j = Schedule(Cancel([k EXCEPT !.wp_p = 613], {"polling"}), "idle")
    BY <1>3, <2>0 DEF evtPollingTimeout
  <2>2. IsRecord(j)
    BY <1>1, <2>1 DEF Schedule, Cancel, IsRecord, Fields, TimerNames
  <2>3. /\ Same(j, c, {"wp_p", "timers"})
        /\ j.wp_p = 613 /\ j.timers = (c.timers \ {"polling"}) \cup {"idle"}
    <3>1. "idle" \notin k.timers
      BY <1>1, <1>2, <1>3 DEF Base, Timers, Parts
    <3> DEFINE i == [k EXCEPT !.wp_p = 613]
               h == Cancel(i, {"polling"})
    <3>2. IsRecord(i) /\ Same(i, k, {"wp_p"}) /\ i.wp_p = 613 /\ i.timers = k.timers
      BY <1>1 DEF Same, IsRecord, Fields
    <3>3. j = Schedule(h, "idle")
      BY <2>1
    <3> HIDE DEF i
    <3>4. IsRecord(h) /\ Same(h, i, {"timers"}) /\ h.timers = k.timers \ {"polling"}
      BY <3>2, CancelledSame
    <3> HIDE DEF h
    <3>5. Same(j, h, {"timers"}) /\ j.timers = h.timers \cup {"idle"}
      BY <3>1, <3>3, <3>4, ScheduledSame DEF TimerNames
    <3>6. Same(j, k, {"wp_p", "timers"}) /\ j.wp_p = 613
      BY <3>2, <3>4, <3>5 DEF Same, Fields
    <3> QED
      BY <1>1, <3>4, <3>5, <3>6 DEF Same
  <2>4. Base(j)
    <3>1. InRegions(j) /\ Conns(j)
      BY <1>2, <2>3 DEF Base, InRegions, Conns, Same, Fields
    <3>2. Timers(j)
      BY <1>2, <1>3, <2>3 DEF Base, Timers, Parts, Same, Fields
    <3>3. Parts(j) /\ Attempts(j) /\ Status(j)
      BY <1>2, <1>3, <2>3 DEF Base, Parts, Attempts, Status, Same, Fields
    <3> QED
      BY <3>1, <3>2, <3>3 DEF Base
  <2>5. j.hs_m = c.hs_m /\ j.conns = c.conns /\ (SendsOnWS(j) => SendsOnWS(c))
    BY <2>3 DEF Same, Fields, SendsOnWS
  <2> DEFINE F == {"wp_p", "timers"}
  <2>6. F \cap Steering = {} /\ Same(j, c, F)
    BY <2>3 DEF Steering
  <2> HIDE DEF F
  <2> QED
    BY <2>2, <2>3, <2>4, <2>5, <2>6, SteadyStep
<1>4. CASE k.wp_p # 612
  <2>0. k.hp_m = 902 /\ c.hp_m = 902 /\ c.h = 720 /\ c.tr = 270 /\ c.hs_m = 0
    BY <1>1, <1>2, <1>4 DEF Base, Timers, Parts
  <2>1. j = Schedule(Cancel([Open(k, "http") EXCEPT !.hp_m = 903, !.rhbGranted = FALSE], {"polling"}), "idle")
    BY <1>4, <2>0 DEF evtPollingTimeout
  <2>2. IsRecord(j)
    BY <1>1, <2>1 DEF Open, Kinds, Schedule, Cancel, IsRecord, Fields, TimerNames
  <2>3. /\ Same(j, c, {"hp_m", "timers", "rhbGranted", "conns"})
        /\ j.hp_m = 903 /\ j.timers = (c.timers \ {"polling"}) \cup {"idle"}
        /\ j.conns = c.conns \cup {"http"}
    <3>1. "idle" \notin k.timers /\ "http" \notin k.conns /\ k.conns = c.conns
      BY <1>1, <1>2, <2>0 DEF Base, Timers, Parts, Conns, Near
    <3> DEFINE o == Open(k, "http")
               i == [o EXCEPT !.hp_m = 903, !.rhbGranted = FALSE]
               h == Cancel(i, {"polling"})
    <3>2. j = Schedule(h, "idle")
      BY <2>1
    <3>3. IsRecord(o) /\ Same(o, k, {"conns"}) /\ o.conns = k.conns \cup {"http"}
      BY <1>1, <3>1, OpenedSame DEF Kinds
    <3> HIDE DEF o
    <3>4. /\ IsRecord(i) /\ Same(i, o, {"hp_m", "rhbGranted"}) /\ i.hp_m = 903
          /\ i.timers = o.timers /\ i.conns = o.conns
      <4>1. \A f \in Fields \ {"hp_m", "rhbGranted"} : i[f] = o[f]
        BY <3>3 DEF IsRecord
      <4>2. i.hp_m = 903 /\ i.timers = o.timers /\ i.conns = o.conns
        BY <3>3 DEF IsRecord, Fields
      <4>3. DOMAIN i = Fields
        BY <3>3 DEF IsRecord
      <4>4. i.rhbGranted \in BOOLEAN
        BY <3>3 DEF IsRecord, Fields
      <4>5. IsRecord(i)
        <5> HIDE DEF i
        <5> QED
          BY <3>3, <4>1, <4>3, <4>4 DEF IsRecord, Fields
      <4> QED
        BY <4>1, <4>2, <4>5 DEF Same
    <3> HIDE DEF i
    <3>5. IsRecord(h) /\ Same(h, i, {"timers"}) /\ h.timers = i.timers \ {"polling"}
      BY <3>4, CancelledSame
    <3> HIDE DEF h
    <3>6. Same(j, h, {"timers"}) /\ j.timers = h.timers \cup {"idle"}
      <4>1. "idle" \notin h.timers
        BY <3>1, <3>3, <3>4, <3>5 DEF Same, Fields
      <4> QED
        BY <4>1, <3>2, <3>5, ScheduledSame DEF TimerNames
    <3>7. /\ Same(j, k, {"hp_m", "timers", "rhbGranted", "conns"})
          /\ j.hp_m = 903 /\ j.conns = k.conns \cup {"http"}
          /\ j.timers = (k.timers \ {"polling"}) \cup {"idle"}
      BY <3>3, <3>4, <3>5, <3>6 DEF Same, Fields
    <3> QED
      BY <1>1, <3>1, <3>7 DEF Same
  <2>4. Base(j)
    <3>1. InRegions(j) /\ Conns(j)
      BY <1>2, <2>0, <2>3 DEF Base, InRegions, Conns, Parts, Same, Fields
    <3>2. Timers(j)
      BY <1>2, <2>0, <2>3 DEF Base, Timers, Parts, Same, Fields
    <3>3. Parts(j) /\ Attempts(j) /\ Status(j)
      BY <1>2, <2>0, <2>3 DEF Base, Parts, Attempts, Status, Same, Fields
    <3> QED
      BY <3>1, <3>2, <3>3 DEF Base
  <2>5. j.hs_m = c.hs_m /\ (SendsOnWS(j) => SendsOnWS(c))
    BY <2>3 DEF Same, Fields, SendsOnWS
  <2> DEFINE F == {"hp_m", "timers", "rhbGranted", "conns"}
  <2>6. F \cap Steering = {} /\ Same(j, c, F)
    BY <2>3 DEF Steering
  <2> HIDE DEF F
  <2> QED
    BY <2>2, <2>3, <2>4, <2>5, <2>6, SteadyStep
<1> QED
  BY <1>3, <1>4

-----------------------------------------------------------------------------
(* The keepalive unit, in state s of whichever transport streams.          *)
Unit(s) == IF s = 0 THEN "keepalive" ELSE IF s = 1 THEN "stalled" ELSE "reconnect"

Alive(j, k, s) ==
    /\ IsRecord(j) /\ Same(j, k, {"w_k", "ws_k", "hs_k", "timers"})
    /\ j.w_k = IF k.w_k = 0 THEN 0 ELSE 310 + s
    /\ j.ws_k = IF k.ws_k = 0 THEN 0 ELSE 520 + s
    /\ j.hs_k = IF k.hs_k = 0 THEN 0 ELSE 820 + s
    /\ j.timers = (k.timers \ KeepaliveUnit) \cup {Unit(s)}

LEMMA AliveBase ==
    ASSUME NEW k, Base(k), NEW s \in {0, 1, 2}, k.w_k # 0 \/ k.ws_k # 0 \/ k.hs_k # 0,
           NEW j, Alive(j, k, s)
    PROVE  Base(j)
<1>1. /\ Same(j, k, {"w_k", "ws_k", "hs_k", "timers"})
      /\ j.w_k = (IF k.w_k = 0 THEN 0 ELSE 310 + s)
      /\ j.ws_k = (IF k.ws_k = 0 THEN 0 ELSE 520 + s)
      /\ j.hs_k = (IF k.hs_k = 0 THEN 0 ELSE 820 + s)
  BY DEF Alive
<1>2. \A t \in TimerNames : t \in j.timers <=> IF t \in KeepaliveUnit THEN t = Unit(s) ELSE t \in k.timers
  BY DEF Alive, Unit, KeepaliveUnit
<1>3. InRegions(j) /\ Conns(j)
  BY <1>1 DEF Base, InRegions, Conns, Same, Fields
<1>4. /\ k.w_k # 0 => k.ws_k = 0 /\ k.hs_k = 0
      /\ k.ws_k # 0 => k.w_k = 0 /\ k.hs_k = 0
  BY DEF Base, Parts
<1>5. Timers(j)
  <2>1. \A t \in TimerNames \ KeepaliveUnit : t \in j.timers <=> t \in k.timers
    BY <1>2
  <2>2. /\ "keepalive" \in j.timers <=> j.w_k = 310 \/ j.ws_k = 520 \/ j.hs_k = 820
        /\ "stalled" \in j.timers <=> j.w_k = 311 \/ j.ws_k = 521 \/ j.hs_k = 821
        /\ "reconnect" \in j.timers <=> j.w_k = 312 \/ j.ws_k = 522 \/ j.hs_k = 822
    BY <1>1, <1>2, <1>4 DEF TimerNames, KeepaliveUnit, Unit
  <2> QED
    BY <1>1, <2>1, <2>2 DEF Base, Timers, Same, Fields, TimerNames, KeepaliveUnit
<1>6. Parts(j) /\ Attempts(j) /\ Status(j)
  BY <1>1 DEF Base, Parts, Attempts, Status, Same, Fields
<1> QED
  BY <1>3, <1>5, <1>6 DEF Base

LEMMA AliveStep ==
    ASSUME NEW k, Inv(k), NEW s \in {0, 1, 2}, k.w_k # 0 \/ k.ws_k # 0 \/ k.hs_k # 0,
           NEW j, Alive(j, k, s)
    PROVE  Step(j, k)
<1> DEFINE F == {"w_k", "ws_k", "hs_k", "timers"}
<1>1. IsRecord(j) /\ Same(j, k, F) /\ F \cap Steering = {}
  BY DEF Alive, Steering
<1>2. Base(j)
  BY AliveBase DEF Inv
<1>3. /\ j.hs_m = k.hs_m /\ j.conns = k.conns /\ (SendsOnWS(j) => SendsOnWS(k))
      /\ \A t \in {"rhb", "ctrl"} : t \in j.timers <=> t \in k.timers
  BY DEF Alive, Same, Fields, SendsOnWS, None, KeepaliveUnit, Unit
<1> HIDE DEF F
<1> QED
  BY <1>1, <1>2, <1>3, SteadyStep

(* One transport streams at a time.                                        *)
Streams(k) ==
    /\ k.w_k \in {0, 310, 311, 312} /\ k.ws_k \in {0, 520, 521, 522}
    /\ k.hs_k \in {0, 820, 821, 822}
    /\ k.w_k # 0 => k.ws_k = 0 /\ k.hs_k = 0
    /\ k.ws_k # 0 => k.hs_k = 0

LEMMA BaseStreams ==
    ASSUME NEW k, Base(k)
    PROVE  Streams(k)
  BY DEF Base, InRegions, Parts, Streams

LEMMA SetKeepaliveSame ==
    ASSUME NEW k, IsRecord(k), Streams(k), k.w_k # 0 \/ k.ws_k # 0 \/ k.hs_k # 0,
           NEW s \in {0, 1, 2}, NEW j, j = SetKeepalive(k, s)
    PROVE  /\ IsRecord(j) /\ Same(j, k, {"w_k", "ws_k", "hs_k"}) /\ j.timers = k.timers
           /\ j.w_k = IF k.w_k = 0 THEN 0 ELSE 310 + s
           /\ j.ws_k = IF k.ws_k = 0 THEN 0 ELSE 520 + s
           /\ j.hs_k = IF k.hs_k = 0 THEN 0 ELSE 820 + s
<1>1. CASE k.w_k # 0
  <2>1. j = [k EXCEPT !.w_k = 310 + s]
    BY <1>1 DEF SetKeepalive, None, Streams
  <2>2. IsRecord(j) /\ Same(j, k, {"w_k"}) /\ j.w_k = 310 + s
    BY <2>1 DEF IsRecord, Same, Fields
  <2> QED
    BY <1>1, <2>2 DEF Same, Fields, Streams
<1>2. CASE k.ws_k # 0
  <2>1. j = [k EXCEPT !.ws_k = 520 + s]
    BY <1>2 DEF SetKeepalive, None, Streams
  <2>2. IsRecord(j) /\ Same(j, k, {"ws_k"}) /\ j.ws_k = 520 + s
    BY <2>1 DEF IsRecord, Same, Fields
  <2> QED
    BY <1>2, <2>2 DEF Same, Fields, Streams
<1>3. CASE k.hs_k # 0
  <2>1. j = [k EXCEPT !.hs_k = 820 + s]
    BY <1>3 DEF SetKeepalive, None, Streams
  <2>2. IsRecord(j) /\ Same(j, k, {"hs_k"}) /\ j.hs_k = 820 + s
    BY <2>1 DEF IsRecord, Same, Fields
  <2> QED
    BY <1>3, <2>2 DEF Same, Fields, Streams
<1> QED
  BY <1>1, <1>2, <1>3

(* The unit goes to state s: the timers ts are cancelled, its own is armed. *)
LEMMA UnitAlive ==
    ASSUME NEW k, IsRecord(k), Streams(k), k.w_k # 0 \/ k.ws_k # 0 \/ k.hs_k # 0,
           NEW s \in {0, 1, 2}, NEW ts \in SUBSET KeepaliveUnit,
           k.timers \cap KeepaliveUnit \subseteq ts,
           NEW i, Same(k, i, {"timers"}), k.timers \ KeepaliveUnit = i.timers \ KeepaliveUnit,
           NEW j, j = Schedule(Cancel(SetKeepalive(k, s), ts), Unit(s))
    PROVE  Alive(j, i, s)
<1> DEFINE h == SetKeepalive(k, s)
           g == Cancel(h, ts)
<1>1. /\ IsRecord(h) /\ Same(h, k, {"w_k", "ws_k", "hs_k"}) /\ h.timers = k.timers
      /\ h.w_k = (IF k.w_k = 0 THEN 0 ELSE 310 + s)
      /\ h.ws_k = (IF k.ws_k = 0 THEN 0 ELSE 520 + s)
      /\ h.hs_k = (IF k.hs_k = 0 THEN 0 ELSE 820 + s)
  BY SetKeepaliveSame
<1>2. j = Schedule(g, Unit(s))
  OBVIOUS
<1> HIDE DEF h
<1>3. IsRecord(g) /\ Same(g, h, {"timers"}) /\ g.timers = h.timers \ ts
  BY <1>1, CancelledSame
<1> HIDE DEF g
<1>4. Unit(s) \in TimerNames /\ Unit(s) \in KeepaliveUnit /\ Unit(s) \notin g.timers
  BY <1>1, <1>3 DEF Unit, TimerNames, KeepaliveUnit
<1>5. IsRecord(j) /\ Same(j, g, {"timers"}) /\ j.timers = g.timers \cup {Unit(s)}
  BY <1>2, <1>3, <1>4, ScheduledSame
<1>6. k.w_k = i.w_k /\ k.ws_k = i.ws_k /\ k.hs_k = i.hs_k
  BY DEF Same, Fields
<1>7. Same(j, i, {"w_k", "ws_k", "hs_k", "timers"})
  BY <1>1, <1>3, <1>5 DEF Same
<1>8. j.w_k = h.w_k /\ j.ws_k = h.ws_k /\ j.hs_k = h.hs_k
  BY <1>3, <1>5 DEF Same, Fields
<1>9. j.timers = (i.timers \ KeepaliveUnit) \cup {Unit(s)}
  BY <1>1, <1>3, <1>4, <1>5
<1> QED
  BY <1>1, <1>5, <1>6, <1>7, <1>8, <1>9 DEF Alive

LEMMA RestartAlive ==
    ASSUME NEW k, IsRecord(k), Streams(k), NEW j, j = evtRestartKeepalive(k)
    PROVE  IF k.w_k # 0 \/ k.ws_k # 0 \/ k.hs_k # 0 THEN Alive(j, k, 0) ELSE j = k
<1>1. CASE k.w_k # 0 \/ k.ws_k # 0 \/ k.hs_k # 0
  <2>1. \E s \in 0..2 : KeepaliveIn(k, s)
    <3>1. KeepaliveIn(k, 0) \/ KeepaliveIn(k, 1) \/ KeepaliveIn(k, 2)
      BY <1>1 DEF Streams, KeepaliveIn
    <3> QED
      BY <3>1
  <2>2. j = Schedule(Cancel(SetKeepalive(k, 0), KeepaliveUnit), Unit(0))
    BY <2>1 DEF evtRestartKeepalive, Unit
  <2>3. KeepaliveUnit \in SUBSET KeepaliveUnit /\ k.timers \cap KeepaliveUnit \subseteq KeepaliveUnit
    BY DEF KeepaliveUnit, KeepaliveUnit
  <2>4. Same(k, k, {"timers"})
    BY DEF Same
  <2> QED
    BY <1>1, <2>2, <2>3, <2>4, UnitAlive
<1>2. CASE ~(k.w_k # 0 \/ k.ws_k # 0 \/ k.hs_k # 0)
  BY <1>2 DEF evtRestartKeepalive, KeepaliveIn
<1> QED
  BY <1>1, <1>2

LEMMA RestartStep ==
    ASSUME NEW k, Inv(k), NEW j, j = evtRestartKeepalive(k)
    PROVE  Step(j, k)
<1>1. IF k.w_k # 0 \/ k.ws_k # 0 \/ k.hs_k # 0 THEN Alive(j, k, 0) ELSE j = k
  BY RestartAlive, BaseStreams DEF Inv
<1> QED
  BY <1>1, AliveStep, StepItself

LEMMA KeepaliveStep ==
    ASSUME Inv(c), NEW k \in Fired("keepalive"), NEW j, j = evtKeepaliveTimeout(k)
    PROVE  Step(j, c)
<1>1. /\ "keepalive" \in c.timers /\ Near(k, c) /\ Same(k, c, {"timers"})
      /\ k.timers = c.timers \ {"keepalive"} /\ IsRecord(k)
  BY FiresOne DEF TimerNames
<1>2. Base(c) /\ k.w_k = c.w_k /\ k.ws_k = c.ws_k /\ k.hs_k = c.hs_k
  BY <1>1 DEF Inv, Near
<1>3. /\ KeepaliveIn(k, 0) /\ (c.w_k # 0 \/ c.ws_k # 0 \/ c.hs_k # 0)
      /\ k.timers \cap KeepaliveUnit = {} /\ Streams(k)
  <2>1. c.w_k = 310 \/ c.ws_k = 520 \/ c.hs_k = 820
    BY <1>1, <1>2 DEF Base, Timers
  <2>2. "stalled" \notin c.timers /\ "reconnect" \notin c.timers
    BY <1>2, <2>1, BaseStreams DEF Base, Timers, Streams
  <2>3. Streams(c)
    BY <1>2, BaseStreams
  <2> QED
    BY <1>1, <1>2, <2>1, <2>2, <2>3 DEF KeepaliveIn, KeepaliveUnit, Streams
<1>4. j = Schedule(Cancel(SetKeepalive(k, 1), {"keepalive"}), Unit(1))
  BY <1>3 DEF evtKeepaliveTimeout, Unit
<1>5. {"keepalive"} \in SUBSET KeepaliveUnit
  BY DEF KeepaliveUnit
<1>6. Alive(j, c, 1)
  <2>1. k.timers \ KeepaliveUnit = c.timers \ KeepaliveUnit
    BY <1>1 DEF KeepaliveUnit
  <2> QED
    BY <1>1, <1>2, <1>3, <1>4, <1>5, <2>1, UnitAlive
<1> QED
  BY <1>3, <1>6, AliveStep

LEMMA StalledStep ==
    ASSUME Inv(c), NEW k \in Fired("stalled"), NEW j, j = evtStalledTimeout(k)
    PROVE  Step(j, c)
<1>1. /\ "stalled" \in c.timers /\ Near(k, c) /\ Same(k, c, {"timers"})
      /\ k.timers = c.timers \ {"stalled"} /\ IsRecord(k)
  BY FiresOne DEF TimerNames
<1>2. Base(c) /\ k.w_k = c.w_k /\ k.ws_k = c.ws_k /\ k.hs_k = c.hs_k
  BY <1>1 DEF Inv, Near
<1>3. /\ KeepaliveIn(k, 1) /\ (c.w_k # 0 \/ c.ws_k # 0 \/ c.hs_k # 0)
      /\ k.timers \cap KeepaliveUnit = {} /\ Streams(k)
  <2>1. c.w_k = 311 \/ c.ws_k = 521 \/ c.hs_k = 821
    BY <1>1, <1>2 DEF Base, Timers
  <2>2. "keepalive" \notin c.timers /\ "reconnect" \notin c.timers
    BY <1>2, <2>1, BaseStreams DEF Base, Timers, Streams
  <2>3. Streams(c)
    BY <1>2, BaseStreams
  <2> QED
    BY <1>1, <1>2, <2>1, <2>2, <2>3 DEF KeepaliveIn, KeepaliveUnit, Streams
<1>4. j = Schedule(Cancel(SetKeepalive(k, 2), {"stalled"}), Unit(2))
  BY <1>3 DEF evtStalledTimeout, Unit
<1>5. {"stalled"} \in SUBSET KeepaliveUnit
  BY DEF KeepaliveUnit
<1>6. Alive(j, c, 2)
  <2>1. k.timers \ KeepaliveUnit = c.timers \ KeepaliveUnit
    BY <1>1 DEF KeepaliveUnit
  <2> QED
    BY <1>1, <1>2, <1>3, <1>4, <1>5, <2>1, UnitAlive
<1> QED
  BY <1>3, <1>6, AliveStep

LEMMA ReconnectStep ==
    ASSUME Inv(c), NEW k \in Fired("reconnect"), NEW j, j = evtReconnectTimeout(k)
    PROVE  Step(j, c)
<1>1. "reconnect" \in c.timers /\ Near(k, c)
  BY FiresOne DEF TimerNames
<1>2. Base(c) /\ k.w_k = c.w_k /\ k.ws_k = c.ws_k /\ k.hs_k = c.hs_k
  BY <1>1 DEF Inv, Near
<1>3. KeepaliveIn(k, 2) /\ c.m = 150
  BY <1>1, <1>2 DEF Base, Timers, Parts, KeepaliveIn
<1>4. j = LoseSession(k, 113)
  BY <1>3 DEF evtReconnectTimeout
<1> QED
  BY <1>1, <1>3, <1>4, LoseStep

-----------------------------------------------------------------------------
(* The end of a pause, or of an attempt to recover.                        *)
LEMMA RetryingBetween ==
    ASSUME NEW k, Inv(k), k.m \in {100, 111, 112, 113, 117}, NEW j, Near(j, k), NEW i,
           IsRecord(i), Same(i, j, {"timers"}), i.timers = j.timers \ {"retry"}
    PROVE  Between(i) /\ i.m = k.m
<1>1. IsRecord(i) /\ Same(i, j, {"timers"}) /\ i.timers = j.timers \ {"retry"}
  OBVIOUS
<1>2. Leavable(j) /\ Lasting(j)
  BY NearLeavable
<1>3. Base(k) /\ Channel(k) /\ IsRecord(k) /\ IsRecord(j)
  BY DEF Inv, Near
<1>4. /\ i.m = k.m /\ i.tr = 0 /\ i.swt = 0 /\ i.bw = 0 /\ i.du \in {20, 23}
      /\ i.ctrl = 0 /\ i.rhb = 0 /\ i.slw = 0
  <2>1. /\ k.tr = 0 /\ k.swt = 0 /\ k.bw = 0 /\ k.du \in {20, 23}
        /\ k.ctrl = 0 /\ k.rhb = 0 /\ k.slw = 0
    BY <1>3 DEF Base, Parts, InRegions
  <2> QED
    BY <1>1, <2>1 DEF Same, Fields, Near
<1>5. /\ i.w_k = 0 /\ i.ws_m = 0 /\ i.ws_k = 0 /\ i.wp_m = 0 /\ i.wp_p = 0 /\ i.h = 0
      /\ i.hs_m = 0 /\ i.hs_p = 0 /\ i.hs_k = 0 /\ i.hp_m = 0
  <2>1. /\ k.w_k = 0 /\ k.ws_m = 0 /\ k.ws_k = 0 /\ k.wp_m = 0 /\ k.wp_p = 0 /\ k.h = 0
        /\ k.hs_m = 0 /\ k.hs_p = 0 /\ k.hs_k = 0 /\ k.hp_m = 0
    BY <1>3 DEF Base, Parts, InRegions
  <2> QED
    BY <1>1, <2>1 DEF Same, Fields, Near
<1>6. i.timers = {} /\ i.stray \subseteq {"rhb"} /\ i.conns = {} /\ i.orphans = {}
  <2>1. /\ j.tr = 0 /\ j.h = 0 /\ j.m \in {100, 111, 112, 113, 117} /\ j.stray = i.stray
        /\ i.conns = j.conns /\ i.orphans = j.orphans
    BY <1>1, <1>4, <1>5 DEF Same, Fields, Near
  <2>2. j.timers \subseteq {"retry"}
    BY <1>2, <1>3, <2>1 DEF Leavable, IsRecord, TimerNames
  <2>3. j.conns = {}
    BY <1>2, <1>3, <2>1 DEF Leavable, IsRecord, Kinds
  <2> QED
    BY <1>1, <1>2, <2>1, <2>2, <2>3 DEF Leavable
<1>7. Lasting(i)
  BY <1>1, <1>2 DEF Lasting, Same, Fields
<1> QED
  BY <1>1, <1>4, <1>5, <1>6, <1>7 DEF Between, Out

LEMMA ResumingBetween ==
    ASSUME NEW k, Inv(k), k.m \in {100, 117}, NEW j, Near(j, k)
    PROVE  Between(j) /\ j.m = k.m
<1>1. "retry" \notin j.timers
  BY DEF Near, Inv, Base, Timers, Parts
<1>2. IsRecord(j) /\ Same(j, j, {"timers"}) /\ j.timers = j.timers \ {"retry"}
  BY <1>1 DEF Near, Same
<1> QED
  BY <1>2, RetryingBetween

LEMMA PauseOver ==
    ASSUME NEW k, Inv(k), k.m \in {111, 112, 113}, NEW j, Near(j, k), NEW i,
           i = Cancel(j, {"retry"})
    PROVE  Between(i) /\ i.m = k.m
<1>1. IsRecord(i) /\ Same(i, j, {"timers"}) /\ i.timers = j.timers \ {"retry"}
  BY CancelledSame DEF Near
<1> QED
  BY <1>1, RetryingBetween

(* An attempt is over, or was not made yet.                                *)
LEMMA LostOnce ==
    ASSUME NEW k, Inv(k), k.tr = 260, NEW j, Near(j, k), NEW t,
           (k.rec = 1000 /\ t = "recovery") \/ (k.rec = 1003 /\ t = "retry"),
           NEW i, i = Cancel(j, {t})
    PROVE  /\ Lost(i) /\ SessionRecovery /\ i.attempts < MaxRecoveryAttempts
           /\ k.m = 150
<1>1. IsRecord(i) /\ Same(i, j, {"timers"}) /\ i.timers = j.timers \ {t}
  BY CancelledSame DEF Near
<1>2. k.m = 150 /\ Base(k) /\ Channel(k)
  BY DEF Inv, Base, Parts
<1>3. /\ Leavable(j) /\ Lasting(j) /\ Limited(j)
      /\ j.m = 150 /\ j.du = 22 /\ j.sid
      /\ j.swt \in {1301, 1302, 1303} /\ j.bw \in {1201, 1202}
  BY <1>2, NearSession
<1>4. SessionRecovery /\ k.attempts < MaxRecoveryAttempts
  BY <1>2, OptionsAssumption DEF Base, Attempts
<1>5. /\ i.w_k = 0 /\ i.ws_m = 0 /\ i.ws_k = 0 /\ i.wp_m = 0 /\ i.wp_p = 0 /\ i.h = 0
      /\ i.hs_m = 0 /\ i.hs_p = 0 /\ i.hs_k = 0 /\ i.hp_m = 0
      /\ i.ctrl = 0 /\ i.rhb = 0 /\ i.slw = 0
  <2>1. /\ k.w_k = 0 /\ k.ws_m = 0 /\ k.ws_k = 0 /\ k.wp_m = 0 /\ k.wp_p = 0 /\ k.h = 0
        /\ k.hs_m = 0 /\ k.hs_p = 0 /\ k.hs_k = 0 /\ k.hp_m = 0
        /\ k.ctrl = 0 /\ k.rhb = 0 /\ k.slw = 0
    BY <1>2 DEF Base, Parts, InRegions
  <2> QED
    BY <1>1, <2>1 DEF Same, Fields, Near
<1>6. i.timers = {}
  <2>1. \A x \in TimerNames : x \in k.timers => x = t
    <3>1. /\ k.m = 150 /\ k.hp_m = 0 /\ k.hs_m = 0 /\ k.hs_k = 0 /\ k.wp_m = 0 /\ k.wp_p = 0
          /\ k.ws_m = 0 /\ k.ws_k = 0 /\ k.w_k = 0 /\ k.ctrl = 0 /\ k.rhb = 0
      BY <1>2 DEF Base, Parts, InRegions
    <3> QED
      BY <1>2, <3>1 DEF Base, Timers, Channel, Hearts, Control, TimerNames
  <2>2. j.timers \subseteq k.timers /\ j.timers \subseteq TimerNames
    BY DEF Near, IsRecord
  <2> QED
    BY <1>1, <2>1, <2>2
<1>7. i.stray \subseteq {"rhb"} /\ i.conns = {} /\ i.orphans = {}
  <2>1. k.stray \subseteq {"rhb"} /\ k.orphans = {} /\ k.conns = {}
    <3>1. k.stray \subseteq {"rhb"} /\ k.orphans = {} /\ k.conns \subseteq {"ws", "http", "ctrl"}
      BY <1>2 DEF Channel, Hearts, Control, Inv, IsRecord, Kinds
    <3>2. "ws" \notin k.conns /\ "http" \notin k.conns
      BY <1>2 DEF Base, Conns, Parts
    <3>3. "ctrl" \notin k.conns
      BY <1>2 DEF Base, Parts, Channel, Control
    <3> QED
      BY <3>1, <3>2, <3>3
  <2>2. j.stray \subseteq k.stray /\ j.conns = k.conns /\ j.orphans = k.orphans
    BY DEF Near
  <2>3. i.stray = j.stray /\ i.conns = j.conns /\ i.orphans = j.orphans
    BY <1>1 DEF Same, Fields
  <2> QED
    BY <2>1, <2>2, <2>3
<1>8. Lasting(i) /\ Limited(i)
  BY <1>1, <1>3 DEF Lasting, Limited, Same, Fields
<1>9. /\ i.m = 150 /\ i.tr = 260 /\ i.du = 22 /\ i.status = TRYING_RECOVERY
      /\ i.swt \in {1301, 1302, 1303} /\ i.bw \in {1201, 1202}
      /\ i.attempts < MaxRecoveryAttempts
  <2>1. k.status = TRYING_RECOVERY
    BY <1>2 DEF Base, Status
  <2> QED
    BY <1>1, <1>3, <1>4, <2>1 DEF Same, Fields, Near
<1>10. i.sid
  <2>1. i.sid = j.sid
    BY <1>1 DEF Same, Fields
  <2>2. j.sid
    BY <1>3
  <2> QED
    BY <2>1, <2>2
<1> QED
  BY <1>1, <1>2, <1>4, <1>5, <1>6, <1>7, <1>8, <1>9, <1>10 DEF Lost, Out

LEMMA RetryTimeoutStep ==
    ASSUME Inv(c), NEW k \in Fired("retry"), NEW j, j = evtRetryTimeout(k)
    PROVE  Step(j, c)
<1>1. "retry" \in c.timers /\ Near(k, c)
  BY FiresOne DEF TimerNames
<1>2. Base(c) /\ k.m = c.m /\ k.rec = c.rec
  BY <1>1 DEF Inv, Near
<1> DEFINE i == Cancel(k, {"retry"})
<1>3. CASE c.m \in {112, 113}
  <2>1. j = evtSelectCreate(i)
    BY <1>2, <1>3 DEF evtRetryTimeout
  <2>2. Between(i) /\ i.m = c.m
    BY <1>1, <1>3, PauseOver
  <2> HIDE DEF i
  <2>3. Inv(j) /\ j.m \in {100, 120, 130}
    BY <1>3, <2>1, <2>2, SelectCreateInv
  <2> QED
    BY <1>3, <2>3 DEF Step, Moves
<1>4. CASE c.m = 111
  <2>1. j = sendCreateTTL(i)
    BY <1>2, <1>4 DEF evtRetryTimeout
  <2>2. Between(i) /\ i.m = c.m
    BY <1>1, <1>4, PauseOver
  <2> HIDE DEF i
  <2>3. Inv(j) /\ j.m = 140
    BY <2>1, <2>2, CreateTTLInv
  <2> QED
    BY <1>4, <2>3 DEF Step, Moves
<1>5. CASE c.tr = 260 /\ c.rec = 1003
  <2>1. c.m = 150
    BY <1>2, <1>5 DEF Base, Parts
  <2>2. j = sendRecovery(i)
    BY <1>2, <1>5, <2>1 DEF evtRetryTimeout
  <2>3. Lost(i) /\ SessionRecovery /\ i.attempts < MaxRecoveryAttempts
    BY <1>1, <1>5, LostOnce
  <2> HIDE DEF i
  <2>4. Inv(j) /\ j.m = 150
    BY <2>2, <2>3, SendRecoveryInv
  <2> QED
    BY <2>1, <2>4 DEF Step, Moves, Creates
<1> QED
  BY <1>1, <1>2, <1>3, <1>4, <1>5 DEF Base, Timers

LEMMA RecoveryTimeoutStep ==
    ASSUME Inv(c), NEW k \in Fired("recovery"), NEW j, j = evtRecoveryTimeout(k)
    PROVE  Step(j, c)
<1>1. "recovery" \in c.timers /\ Near(k, c)
  BY FiresOne DEF TimerNames
<1>2. c.tr = 260 /\ c.rec = 1000 /\ k.rec = c.rec
  BY <1>1 DEF Inv, Near, Base, Timers
<1> DEFINE i == Cancel(k, {"recovery"})
<1>3. j = sendRecovery(i)
  BY <1>2 DEF evtRecoveryTimeout
<1>4. Lost(i) /\ SessionRecovery /\ i.attempts < MaxRecoveryAttempts /\ c.m = 150
  BY <1>1, <1>2, LostOnce
<1> HIDE DEF i
<1>5. Inv(j) /\ j.m = 150
  BY <1>3, <1>4, SendRecoveryInv
<1> QED
  BY <1>4, <1>5 DEF Step, Moves, Creates

LEMMA CheckRecoveryStep ==
    ASSUME NEW k, Inv(k), k.tr = 260, k.rec = 1001, NEW j, Near(j, k),
           NEW again \in Again(j)
    PROVE  Step(evtCheckRecoveryTimeout(j, again), k)
<1>2. k.m = 150 /\ Base(k) /\ Channel(k)
  BY DEF Inv, Base, Parts
<1>3. CASE ~again
  <2>1. evtCheckRecoveryTimeout(j, again) = EnterRetry(Leave(j), 113)
    BY <1>3 DEF evtCheckRecoveryTimeout
  <2> QED
    BY <1>2, <2>1, RetryStep
<1>4. CASE again
  <2> DEFINE d == disposeHTTP(j)
             h == Cancel(d, {"transport"})
             i == [h EXCEPT !.rec = 1003]
             r == Schedule(i, "retry")
  <2>1. evtCheckRecoveryTimeout(j, again) = r
    BY <1>4 DEF evtCheckRecoveryTimeout
  <2>2. IsRecord(j)
    BY DEF Near
  <2>3. IsRecord(d) /\ Same(d, j, {"conns", "swtAck", "bwAck"}) /\ d.conns = j.conns \ {"http"}
    BY <2>2, DisposedSame DEF disposeHTTP
  <2> HIDE DEF d
  <2>4. IsRecord(h) /\ Same(h, d, {"timers"}) /\ h.timers = d.timers \ {"transport"}
    BY <2>3, CancelledSame
  <2> HIDE DEF h
  <2>5. IsRecord(i) /\ Same(i, h, {"rec"}) /\ i.rec = 1003 /\ i.timers = h.timers
    BY <2>4 DEF IsRecord, Same, Fields
  <2> HIDE DEF i
  <2>6. /\ k.timers \subseteq {"transport"} /\ k.conns \subseteq {"http"}
        /\ k.stray \subseteq {"rhb"} /\ k.orphans = {} /\ k.status = TRYING_RECOVERY
        /\ k.w_k = 0 /\ k.ws_m = 0 /\ k.ws_k = 0 /\ k.wp_m = 0 /\ k.wp_p = 0 /\ k.h = 0
        /\ k.hs_m = 0 /\ k.hs_p = 0 /\ k.hs_k = 0 /\ k.hp_m = 0
        /\ k.ctrl = 0 /\ k.rhb = 0 /\ k.slw = 0
    <3>1. /\ k.hp_m = 0 /\ k.hs_m = 0 /\ k.hs_k = 0 /\ k.hs_p = 0 /\ k.wp_m = 0 /\ k.wp_p = 0
          /\ k.ws_m = 0 /\ k.ws_k = 0 /\ k.w_k = 0 /\ k.ctrl = 0 /\ k.rhb = 0 /\ k.h = 0
          /\ k.slw = 0
      BY <1>2 DEF Base, Parts, InRegions
    <3>2. k.timers \subseteq TimerNames /\ k.conns \subseteq Kinds
      BY DEF Inv, IsRecord
    <3>3. k.timers \subseteq {"transport"}
      BY <1>2, <3>1, <3>2 DEF Base, Timers, Channel, Hearts, Control, TimerNames
    <3>4. k.conns \subseteq {"http"} /\ k.stray \subseteq {"rhb"} /\ k.orphans = {}
      BY <1>2, <3>1, <3>2 DEF Base, Conns, Channel, Hearts, Control, Kinds
    <3>5. k.status = TRYING_RECOVERY
      BY <1>2 DEF Base, Status
    <3> QED
      BY <3>1, <3>3, <3>4, <3>5
  <2>7. "retry" \notin i.timers
    BY <2>3, <2>4, <2>5, <2>6 DEF Same, Fields, Near
  <2>8. IsRecord(r) /\ Same(r, i, {"timers"}) /\ r.timers = i.timers \cup {"retry"}
    BY <2>5, <2>7, ScheduledSame DEF TimerNames
  <2> HIDE DEF r
  <2>9. Same(r, j, {"conns", "swtAck", "bwAck", "timers", "rec"}) /\ r.rec = 1003
    BY <2>3, <2>4, <2>5, <2>8 DEF Same, Fields
  <2>10. r.timers = {"retry"} /\ r.conns = {}
    <3>1. j.timers \subseteq {"transport"} /\ j.conns \subseteq {"http"}
      BY <2>6 DEF Near
    <3>2. r.conns = d.conns /\ d.timers = j.timers
      BY <2>3, <2>4, <2>5, <2>8 DEF Same, Fields
    <3> QED
      BY <3>1, <3>2, <2>3, <2>4, <2>5, <2>8
  <2>11. /\ Leavable(j) /\ Lasting(j) /\ Limited(j) /\ j.m = 150 /\ j.du = 22 /\ j.sid
         /\ j.swt \in {1301, 1302, 1303} /\ j.bw \in {1201, 1202}
    BY <1>2, NearSession
  <2>12. Lasting(r) /\ Limited(r) /\ r.attempts < MaxRecoveryAttempts
    <3>1. SessionRecovery
      BY <1>2 DEF Base, Attempts
    <3>2. j.attempts < MaxRecoveryAttempts
      BY <1>4 DEF Again
    <3> QED
      BY <2>9, <2>11, <3>1, <3>2 DEF Lasting, Limited, Same, Fields
  <2>13. r.sid
    <3>1. r.sid = j.sid
      BY <2>9 DEF Same, Fields
    <3> QED
      BY <2>11, <3>1
  <2>14. /\ r.m = 150 /\ r.tr = 260 /\ r.du = 22 /\ r.status = TRYING_RECOVERY
         /\ r.swt \in {1301, 1302, 1303} /\ r.bw \in {1201, 1202}
         /\ r.stray \subseteq {"rhb"} /\ r.orphans = {}
    BY <2>6, <2>9, <2>11 DEF Same, Fields, Near
  <2>15. /\ r.w_k = 0 /\ r.ws_m = 0 /\ r.ws_k = 0 /\ r.wp_m = 0 /\ r.wp_p = 0 /\ r.h = 0
         /\ r.hs_m = 0 /\ r.hs_p = 0 /\ r.hs_k = 0 /\ r.hp_m = 0
         /\ r.ctrl = 0 /\ r.rhb = 0 /\ r.slw = 0
    BY <2>6, <2>9 DEF Same, Fields, Near
  <2>16. Inv(r)
    BY <2>8, <2>9, <2>10, <2>12, <2>13, <2>14, <2>15, RecoveringInv
  <2> QED
    BY <1>2, <2>1, <2>14, <2>16 DEF Step, Moves, Creates
<1> QED
  BY <1>3, <1>4 DEF Again

-----------------------------------------------------------------------------
(* An HTTP stream that is stuck (s800): streaming over HTTP is given up,   *)
(* and the client waits once more.                                         *)
LEMMA StuckStep ==
    ASSUME NEW k, Inv(k), k.hs_m = 800, NEW i, Near(i, k), Same(i, k, {"timers"}),
           i.timers = k.timers \ {"transport"}, NEW j,
           j = Schedule(RecheckTransport(Cancel(
                 [disableHTTP_Streaming(i) EXCEPT !.hs_m = 801], {"transport"})), "transport")
    PROVE  Step(j, k)
<1> DEFINE d == disableHTTP_Streaming(i)
           e == [d EXCEPT !.hs_m = 801]
           h == Cancel(e, {"transport"})
           r == RecheckTransport(h)
<1>1. j = Schedule(r, "transport")
  OBVIOUS
<1>2. IsRecord(i) /\ IsRecord(k) /\ Base(k) /\ Channel(k)
  BY DEF Near, Inv
<1>3. /\ IsRecord(d) /\ Same(d, i, {"disabled"})
      /\ d.disabled \subseteq {"WS_STREAMING", "WS_POLLING", "HTTP_STREAMING"}
  BY <1>2 DEF disableHTTP_Streaming, IsRecord, Same, Fields
<1> HIDE DEF d
<1>4. IsRecord(e) /\ Same(e, d, {"hs_m"}) /\ e.hs_m = 801
  BY <1>3 DEF IsRecord, Same, Fields
<1> HIDE DEF e
<1>5. IsRecord(h) /\ Same(h, e, {"timers"}) /\ h.timers = e.timers \ {"transport"}
  BY <1>4, CancelledSame
<1> HIDE DEF h
<1>6. /\ Same(h, k, {"disabled", "hs_m", "timers"}) /\ h.hs_m = 801
      /\ h.timers = k.timers \ {"transport"}
  BY <1>3, <1>4, <1>5 DEF Same, Fields
<1>7. k.h = 710 /\ k.tr = 270 /\ k.m = 150 /\ k.w_k = 0 /\ k.ws_k = 0 /\ k.wp_m = 0
  BY <1>2 DEF Base, Parts, InRegions
<1>8. OneWay(h) /\ Channel(h)
  BY <1>2, <1>6, <1>7 DEF OneWay, SendsOnWS, None, Channel, Hearts, Control, Same, Fields
<1>9. Quiet(h) /\ IdleIsDone(h) /\ Limited(h)
  BY <1>6 DEF Inv, Quiet, IdleIsDone, Pending, Limited, Same, Fields
<1>10. SwitchSent(h) /\ LimitSent(h)
  BY <1>6, <1>7 DEF SwitchSent, LimitSent, SendsOnWS, None, Same, Fields
<1>11. /\ Core(r, h) /\ Channel(r) /\ Quiet(r) /\ SwitchSent(r) /\ LimitSent(r)
       /\ IdleIsDone(r) /\ Switched(r) /\ Limited(r)
       /\ (r.swt # 0 <=> h.swt # 0) /\ r.bw = h.bw
  BY <1>5, <1>8, <1>9, <1>10, RecheckKeeps
<1> HIDE DEF r
<1>12. IsRecord(r) /\ "transport" \notin r.timers
  BY <1>6, <1>11 DEF Core, TimerNames
<1>13. IsRecord(j) /\ Same(j, r, {"timers"}) /\ j.timers = r.timers \cup {"transport"}
  BY <1>1, <1>12, ScheduledSame DEF TimerNames
<1>14. Base(j)
  <2> DEFINE b == [k EXCEPT !.disabled = h.disabled, !.hs_m = 801]
  <2>1. /\ IsRecord(b) /\ Same(b, k, {"disabled", "hs_m"}) /\ b.hs_m = 801
        /\ b.disabled = h.disabled /\ b.timers = k.timers
    <3>1. h.disabled \subseteq {"WS_STREAMING", "WS_POLLING", "HTTP_STREAMING"}
      BY <1>5 DEF IsRecord
    <3>2. \A f \in Fields \ {"disabled", "hs_m"} : b[f] = k[f]
      BY <1>2 DEF IsRecord
    <3>3. /\ b.hs_m = 801 /\ b.disabled = h.disabled /\ b.timers = k.timers
          /\ DOMAIN b = Fields
      BY <1>2 DEF IsRecord, Fields
    <3> HIDE DEF b
    <3>4. IsRecord(b)
      BY <1>2, <3>1, <3>2, <3>3 DEF IsRecord, Fields
    <3> QED
      BY <3>2, <3>3, <3>4 DEF Same
  <2> HIDE DEF b
  <2>2. Base(b)
    <3>1. InRegions(b) /\ Conns(b)
      BY <1>2, <1>7, <2>1 DEF Base, InRegions, Conns, Same, Fields
    <3>2. Timers(b)
      BY <1>2, <1>7, <2>1 DEF Base, Timers, Same, Fields
    <3>3. Parts(b)
      BY <1>2, <1>7, <2>1 DEF Base, Parts, Same, Fields
    <3>4. Attempts(b) /\ Status(b)
      BY <1>2, <1>7, <2>1 DEF Base, Attempts, Status, Same, Fields
    <3> QED
      BY <3>1, <3>2, <3>3, <3>4 DEF Base
  <2>3. "transport" \in k.timers
    BY <1>2 DEF Base, Timers
  <2>4. Same(h, b, {"timers"}) /\ h.timers = b.timers \ {"transport"} /\ "transport" \in b.timers
    BY <1>6, <2>1, <2>3 DEF Same, Fields
  <2>5. Core(j, b)
    <3>1. \A t \in TimerNames \ {"rhb", "ctrl"} : t \in j.timers <=> t \in b.timers
      BY <1>11, <1>13, <2>4 DEF Core
    <3>2. \A kind \in {"ws", "http"} : kind \in j.conns <=> kind \in b.conns
      <4>1. j.conns = r.conns /\ h.conns = b.conns
        BY <1>13, <2>4 DEF Same, Fields
      <4> QED
        BY <4>1, <1>11 DEF Core
    <3>3. /\ j.m = b.m /\ j.du = b.du /\ j.tr = b.tr /\ j.w_k = b.w_k
          /\ j.ws_m = b.ws_m /\ j.ws_k = b.ws_k /\ j.wp_m = b.wp_m /\ j.wp_p = b.wp_p
          /\ j.h = b.h /\ j.hs_m = b.hs_m /\ j.hs_p = b.hs_p /\ j.hs_k = b.hs_k
          /\ j.hp_m = b.hp_m /\ j.rec = b.rec /\ j.slw = b.slw /\ j.nr = b.nr
      BY <1>11, <1>13, <2>4 DEF Core, Same, Fields
    <3>4. /\ j.status = b.status /\ j.sid = b.sid /\ j.disabled = b.disabled
          /\ j.forced = b.forced
          /\ j.bwOpt = b.bwOpt /\ j.unmanaged = b.unmanaged /\ j.attempts = b.attempts
      BY <1>11, <1>13, <2>4 DEF Core, Same, Fields
    <3>5. (j.rhb # 0 <=> b.rhb # 0) /\ (j.ctrl # 0 <=> b.ctrl # 0)
      BY <1>11, <1>13, <2>4 DEF Core, Same, Fields
    <3> QED
      BY <1>13, <3>1, <3>2, <3>3, <3>4, <3>5 DEF Core
  <2>6. (j.swt # 0 <=> b.swt # 0) /\ (j.bw # 0 <=> b.bw # 0)
    BY <1>11, <1>13, <2>4 DEF Same, Fields
  <2> QED
    BY <2>2, <2>5, <2>6, CoreBase
<1>15. Channel(j)
  BY <1>11, <1>13 DEF Channel, Hearts, Control, Same, Fields
<1>16. Quiet(j) /\ IdleIsDone(j) /\ SwitchSent(j) /\ LimitSent(j)
  BY <1>11, <1>13 DEF Quiet, IdleIsDone, Pending, SwitchSent, LimitSent, SendsOnWS, Same, Fields
<1>17. Switched(j) /\ Limited(j)
  <2> DEFINE F == {"timers"}
  <2>1. Same(j, r, F) /\ F \cap {"m", "tr", "h", "swt", "bw", "excused", "forced", "disabled",
                                 "bwReq", "bwOpt", "unmanaged"} = {}
    BY <1>13
  <2> HIDE DEF F
  <2> QED
    BY <1>11, <2>1, Unsteered
<1>18. j.m = 150
  BY <1>6, <1>7, <1>11, <1>13 DEF Core, Same, Fields
<1> QED
  BY <1>7, <1>13, <1>14, <1>15, <1>16, <1>17, <1>18 DEF Step, Inv, Moves, Creates

LEMMA TransportTimeoutStep ==
    ASSUME Inv(c), NEW k \in Fired("transport"), NEW again \in Again(k),
           NEW j, j = evtTransportTimeout(k, again)
    PROVE  Step(j, c)
<1>1. /\ "transport" \in c.timers /\ Near(k, c) /\ Same(k, c, {"timers"})
      /\ k.timers = c.timers \ {"transport"}
  BY FiresOne DEF TimerNames
<1>2. /\ Base(c) /\ Parts(c) /\ k.m = c.m /\ k.tr = c.tr /\ k.ws_m = c.ws_m /\ k.wp_m = c.wp_m
      /\ k.rec = c.rec /\ k.hs_m = c.hs_m
  BY <1>1 DEF Inv, Near, Base
<1>3. Near(disableWS(k), c)
  BY <1>1, NearDisabled
<1>4. CASE c.m \in {120, 121, 122, 130, 140}
  <2>1. c.tr = 0 /\ c.ws_m = 0 /\ c.wp_m = 0 /\ c.hs_m = 0
    BY <1>2, <1>4 DEF Parts
  <2>2. CASE c.m \in {120, 121}
    <3>1. j = RetryWithoutWS(k)
      BY <1>2, <2>1, <2>2 DEF evtTransportTimeout
    <3> QED
      BY <1>1, <2>2, <3>1, RetryWithoutWSStep
  <2>3. CASE c.m \in {122, 130}
    <3>1. j = EnterRetry(TearDown(k), 112)
      BY <1>2, <2>1, <2>3 DEF evtTransportTimeout
    <3> QED
      BY <1>1, <3>1, RetryStep
  <2>4. CASE c.m = 140
    <3>1. j = EnterRetry(TearDown(k), 111)
      BY <1>2, <2>1, <2>4 DEF evtTransportTimeout
    <3> QED
      BY <1>1, <3>1, RetryStep
  <2> QED
    BY <1>4, <2>2, <2>3, <2>4
<1>5. CASE c.tr \in {220, 230}
  <2>1. c.m = 150 /\ c.ws_m = 0 /\ c.wp_m = 0 /\ c.hs_m = 0
    BY <1>2, <1>5 DEF Parts
  <2>2. j = LoseSession(k, 112)
    BY <1>2, <1>5, <2>1 DEF evtTransportTimeout
  <2> QED
    BY <1>1, <2>1, <2>2, LoseStep
<1>6. CASE c.ws_m \in {500, 501, 502}
  <2>1. c.m = 150 /\ c.tr = 240 /\ c.wp_m = 0 /\ c.hs_m = 0
    BY <1>2, <1>6 DEF Parts
  <2>2. CASE c.ws_m = 500
    <3>1. j = Rebind(disableWS(k))
      BY <1>2, <2>1, <2>2 DEF evtTransportTimeout
    <3> QED
      BY <1>3, <2>1, <3>1, RebindStep
  <2>3. CASE c.ws_m = 501
    <3>1. j = LoseSession(disableWS(k), 112)
      BY <1>2, <2>1, <2>3 DEF evtTransportTimeout
    <3> QED
      BY <1>3, <2>1, <3>1, LoseStep
  <2>4. CASE c.ws_m = 502
    <3>1. j = LoseSession(k, 112)
      BY <1>2, <2>1, <2>4 DEF evtTransportTimeout
    <3> QED
      BY <1>1, <2>1, <3>1, LoseStep
  <2> QED
    BY <1>6, <2>2, <2>3, <2>4
<1>7. CASE c.wp_m \in {600, 601}
  <2>1. c.m = 150 /\ c.tr = 250 /\ c.ws_m = 0 /\ c.hs_m = 0
    BY <1>2, <1>7 DEF Parts
  <2>2. j = Rebind(disableWS(k))
    BY <1>2, <1>7, <2>1 DEF evtTransportTimeout
  <2> QED
    BY <1>3, <2>1, <2>2, RebindStep
<1>8. CASE c.hs_m \in {800, 801}
  <2>1. c.m = 150 /\ c.tr = 270 /\ c.ws_m = 0 /\ c.wp_m = 0
    BY <1>2, <1>8 DEF Parts
  <2>2. CASE c.hs_m = 800
    <3>1. j = Schedule(RecheckTransport(Cancel(
                 [disableHTTP_Streaming(k) EXCEPT !.hs_m = 801], {"transport"})), "transport")
      BY <1>2, <2>1, <2>2 DEF evtTransportTimeout
    <3> QED
      BY <1>1, <2>2, <3>1, StuckStep
  <2>3. CASE c.hs_m = 801
    <3>1. j = LoseSession(k, 112)
      BY <1>2, <2>1, <2>3 DEF evtTransportTimeout
    <3> QED
      BY <1>1, <2>1, <3>1, LoseStep
  <2> QED
    BY <1>8, <2>2, <2>3
<1>9. CASE c.tr = 260 /\ c.rec = 1001
  <2>1. c.m = 150 /\ c.ws_m = 0 /\ c.wp_m = 0 /\ c.hs_m = 0
    BY <1>2, <1>9 DEF Parts
  <2>2. j = evtCheckRecoveryTimeout(k, again)
    BY <1>2, <1>9, <2>1 DEF evtTransportTimeout
  <2> QED
    BY <1>1, <1>9, <2>2, CheckRecoveryStep
<1> QED
  BY <1>1, <1>2, <1>4, <1>5, <1>6, <1>7, <1>8, <1>9 DEF Base, Timers

LEMMA TransportErrorStep ==
    ASSUME Inv(c), NEW again \in Again(c), NEW j, j = evtTransportError(c, again)
    PROVE  Step(j, c)
<1>1. Near(c, c) /\ Near(disableWS(c), c)
  BY NearItself, NearDisabled
<1>2. Base(c) /\ Parts(c) /\ InRegions(c)
  BY DEF Inv, Base
<1>4. CASE c.m # 150
  <2>1. c.tr = 0 /\ c.ws_m = 0 /\ c.wp_m = 0 /\ c.hs_m = 0 /\ c.h = 0
    BY <1>2, <1>4 DEF Parts
  <2>2. CASE c.m \in {120, 121}
    <3>1. j = RetryWithoutWS(c)
      BY <2>1, <2>2 DEF evtTransportError, Recovering
    <3> QED
      BY <1>1, <2>2, <3>1, RetryWithoutWSStep
  <2>3. CASE c.m \in {122, 130}
    <3>1. j = EnterRetry(TearDown(c), 112)
      BY <2>1, <2>3 DEF evtTransportError, Recovering
    <3> QED
      BY <1>1, <3>1, RetryStep
  <2>4. CASE c.m = 140
    <3>1. j = EnterRetry(TearDown(c), 111)
      BY <2>1, <2>4 DEF evtTransportError, Recovering
    <3> QED
      BY <1>1, <3>1, RetryStep
  <2>5. CASE c.m \notin {120, 121, 122, 130, 140}
    <3>1. j = c
      BY <2>1, <2>5 DEF evtTransportError, Recovering
    <3> QED
      BY <3>1, StepItself
  <2> QED
    BY <2>2, <2>3, <2>4, <2>5
<1>5. CASE c.tr \in {210, 220, 230}
  <2>1. c.m = 150 /\ c.ws_m = 0 /\ c.wp_m = 0 /\ c.hs_m = 0 /\ c.h = 0
    BY <1>2, <1>5 DEF Parts
  <2>2. CASE c.tr = 210
    <3>1. j = LoseSession(c, 113)
      BY <2>1, <2>2 DEF evtTransportError, Recovering
    <3> QED
      BY <1>1, <2>1, <3>1, LoseStep
  <2>3. CASE c.tr \in {220, 230}
    <3>1. j = LoseSession(c, 112)
      BY <2>1, <2>3 DEF evtTransportError, Recovering
    <3> QED
      BY <1>1, <2>1, <3>1, LoseStep
  <2> QED
    BY <1>5, <2>2, <2>3
<1>6. CASE c.tr = 240
  <2>1. c.m = 150 /\ c.wp_m = 0 /\ c.hs_m = 0 /\ c.h = 0 /\ c.ws_m \in {500, 501, 502, 503}
    BY <1>2, <1>6 DEF Parts, InRegions
  <2>2. CASE c.ws_m = 500
    <3>1. j = Rebind(disableWS(c))
      BY <1>6, <2>1, <2>2 DEF evtTransportError, Recovering
    <3> QED
      BY <1>1, <2>1, <3>1, RebindStep
  <2>3. CASE c.ws_m = 501
    <3>1. j = LoseSession(disableWS(c), 112)
      BY <1>6, <2>1, <2>3 DEF evtTransportError, Recovering
    <3> QED
      BY <1>1, <2>1, <3>1, LoseStep
  <2>4. CASE c.ws_m = 502
    <3>1. j = LoseSession(c, 112)
      BY <1>6, <2>1, <2>4 DEF evtTransportError, Recovering
    <3> QED
      BY <1>1, <2>1, <3>1, LoseStep
  <2>5. CASE c.ws_m = 503
    <3>1. j = LoseSession(c, 113)
      BY <1>6, <2>1, <2>5 DEF evtTransportError, Recovering
    <3> QED
      BY <1>1, <2>1, <3>1, LoseStep
  <2> QED
    BY <2>1, <2>2, <2>3, <2>4, <2>5
<1>7. CASE c.tr = 250
  <2>1. c.m = 150 /\ c.ws_m = 0 /\ c.hs_m = 0 /\ c.h = 0 /\ c.wp_m \in {600, 601, 602}
    BY <1>2, <1>7 DEF Parts, InRegions
  <2>2. CASE c.wp_m \in {600, 601}
    <3>1. j = Rebind(disableWS(c))
      BY <1>7, <2>1, <2>2 DEF evtTransportError, Recovering
    <3> QED
      BY <1>1, <2>1, <3>1, RebindStep
  <2>3. CASE c.wp_m = 602
    <3>1. j = LoseSession(c, 113)
      BY <1>7, <2>1, <2>3 DEF evtTransportError, Recovering
    <3> QED
      BY <1>1, <2>1, <3>1, LoseStep
  <2> QED
    BY <2>1, <2>2, <2>3
<1>8. CASE c.tr = 260
  <2>1. c.m = 150 /\ c.ws_m = 0 /\ c.wp_m = 0 /\ c.hs_m = 0 /\ c.h = 0
    BY <1>2, <1>8 DEF Parts
  <2>2. CASE c.rec = 1001
    <3>1. j = evtCheckRecoveryTimeout(c, again)
      BY <1>8, <2>1, <2>2 DEF evtTransportError, Recovering
    <3> QED
      BY <1>1, <1>8, <2>2, <3>1, CheckRecoveryStep
  <2>3. CASE c.rec # 1001
    <3>1. j = c
      BY <1>8, <2>1, <2>3 DEF evtTransportError, Recovering
    <3> QED
      BY <3>1, StepItself
  <2> QED
    BY <2>2, <2>3
<1>9. CASE c.tr = 270
  <2>1. c.m = 150 /\ c.ws_m = 0 /\ c.wp_m = 0 /\ c.h \in {710, 720} /\ c.hs_m \in {0, 800, 801, 802}
        /\ (c.hs_m # 0 <=> c.h = 710)
    BY <1>2, <1>9 DEF Parts, InRegions
  <2>2. CASE c.hs_m = 802
    <3>1. j = LoseSession(c, 113)
      BY <1>9, <2>1, <2>2 DEF evtTransportError, Recovering
    <3> QED
      BY <1>1, <2>1, <3>1, LoseStep
  <2>3. CASE c.hs_m # 802
    <3>1. j = LoseSession(c, 112)
      BY <1>9, <2>1, <2>3 DEF evtTransportError, Recovering
    <3> QED
      BY <1>1, <2>1, <3>1, LoseStep
  <2> QED
    BY <2>2, <2>3
<1> QED
  <2>1. c.m = 150 => c.tr \in {210, 220, 230, 240, 250, 260, 270}
    BY <1>2 DEF Parts, InRegions
  <2> QED
    BY <2>1, <1>4, <1>5, <1>6, <1>7, <1>8, <1>9

-----------------------------------------------------------------------------
(* The control channel and the reverse heartbeats.                         *)
LEMMA ChannelStep ==
    ASSUME NEW k, Inv(k), NEW j, Core(j, k), SameRequests(j, k), Channel(j), IdleIsDone(j),
           j.ctrl # 1100, j.rhb # 320, SwitchSent(j), LimitSent(j)
    PROVE  Step(j, k)
<1>1. Base(j)
  BY CoreBase DEF Inv, SameRequests
<1>2. Quiet(j)
  BY DEF Inv, Quiet, SameRequests
<1>3. Switched(j) /\ Limited(j)
  BY CoreWays DEF Inv, Switched, Limited, Core, SameRequests
<1>4. IsRecord(j) /\ Moves(j, k)
  BY StepItself DEF Step, Core, Moves, Creates
<1> QED
  BY <1>1, <1>2, <1>3, <1>4 DEF Step, Inv

(* The channel is free: is there something to send?                        *)
LEMMA FreeStep ==
    ASSUME NEW k, Inv(k), NEW i, Core(i, k), SameRequests(i, k), Channel(i), i.ctrl = 1100,
           i.rhb # 320, NEW j, j = evtCheckCtrlRequests(i)
    PROVE  Step(j, k)
<1>1. IsRecord(i)
  BY DEF Core
<1>2. /\ Core(j, i) /\ SameRequests(j, i) /\ Channel(j) /\ IdleIsDone(j)
      /\ j.ctrl \in {1101, 1102} /\ j.rhb # 320
  BY <1>1, CheckKeeps
<1>3. Core(j, k) /\ SameRequests(j, k)
  BY <1>2, CoreTrans DEF SameRequests
<1>4. ~SendsOnWS(j)
  <2>1. ~SendsOnWS(k)
    BY BaseOneWay DEF Inv, OneWay, Core
  <2> QED
    BY <2>1, <1>3, CoreWays
<1> QED
  BY <1>2, <1>3, <1>4, ChannelStep DEF SwitchSent, LimitSent

LEMMA PauseStep ==
    ASSUME NEW k, Inv(k), k.ctrl = 1102, NEW i, IsRecord(i), Same(i, k, {"timers"}),
           i.timers \in {k.timers, k.timers \ {"ctrl"}}, NEW j, j = CtrlPause(i)
    PROVE  Step(j, k)
<1> DEFINE d == disposeCtrl(i)
           e == [d EXCEPT !.ctrl = 1103]
           h == Cancel(e, {"ctrl"})
<1>1. j = Schedule(h, "ctrl")
  BY DEF CtrlPause
<1>2. /\ IsRecord(d) /\ Same(d, i, {"conns", "swtAck", "bwAck"}) /\ d.conns = i.conns \ {"ctrl"}
  BY DisposedSame DEF disposeCtrl
<1> HIDE DEF d
<1>3. IsRecord(e) /\ Same(e, d, {"ctrl"}) /\ e.ctrl = 1103
  BY <1>2 DEF IsRecord, Same, Fields
<1> HIDE DEF e
<1>4. IsRecord(h) /\ Same(h, e, {"timers"}) /\ h.timers = e.timers \ {"ctrl"}
  BY <1>3, CancelledSame
<1> HIDE DEF h
<1>5. IsRecord(j) /\ Same(j, h, {"timers"}) /\ j.timers = h.timers \cup {"ctrl"}
  <2>1. "ctrl" \notin h.timers
    BY <1>4
  <2> QED
    BY <1>1, <1>4, <2>1, ScheduledSame DEF TimerNames
<1>6. /\ Same(j, k, {"conns", "swtAck", "bwAck", "ctrl", "timers"}) /\ j.ctrl = 1103
      /\ j.conns = k.conns \ {"ctrl"}
  BY <1>2, <1>3, <1>4, <1>5 DEF Same, Fields
<1>7. j.timers = (k.timers \ {"ctrl"}) \cup {"ctrl"}
  BY <1>2, <1>3, <1>4, <1>5 DEF Same, Fields
<1>8. Core(j, k) /\ SameRequests(j, k)
  <2>1. \A t \in TimerNames \ {"rhb", "ctrl"} : t \in j.timers <=> t \in k.timers
    BY <1>7
  <2>2. \A kind \in {"ws", "http"} : kind \in j.conns <=> kind \in k.conns
    BY <1>6
  <2> QED
    BY <1>5, <1>6, <2>1, <2>2 DEF Core, SameRequests, Same, Fields
<1>9. Channel(j)
  BY <1>6, <1>7 DEF Inv, Channel, Hearts, Control, Same, Fields
<1>10. ~SendsOnWS(j)
  <2>1. ~SendsOnWS(k)
    BY BaseOneWay DEF Inv, OneWay
  <2> QED
    BY <2>1, <1>8, CoreWays
<1>11. IdleIsDone(j) /\ j.ctrl # 1100 /\ j.rhb # 320
  BY <1>6 DEF Inv, IdleIsDone, Quiet, Same, Fields
<1> QED
  BY <1>8, <1>9, <1>10, <1>11, ChannelStep DEF SwitchSent, LimitSent

(* The reply to the request, or the end of the pause after it.             *)
LEMMA FreedStep ==
    ASSUME NEW k, Inv(k), k.ctrl \in {1102, 1103}, NEW i, IsRecord(i), NEW F, Same(i, k, F),
           F \subseteq {"ctrl", "conns", "swtAck", "bwAck", "timers"},
           i.ctrl = 1100, i.conns = k.conns \ {"ctrl"}, i.timers = k.timers \ {"ctrl"},
           NEW j, j = evtCheckCtrlRequests(i)
    PROVE  Step(j, k)
<1>0. Same(i, k, {"ctrl", "conns", "swtAck", "bwAck", "timers"})
  <2>1. \A f : f \notin {"ctrl", "conns", "swtAck", "bwAck", "timers"} => f \notin F
    OBVIOUS
  <2>2. \A f \in Fields \ F : i[f] = k[f]
    BY DEF Same
  <2> QED
    BY <2>1, <2>2 DEF Same
<1>1. \A t \in TimerNames \ {"rhb", "ctrl"} : t \in i.timers <=> t \in k.timers
  OBVIOUS
<1>2. \A kind \in {"ws", "http"} : kind \in i.conns <=> kind \in k.conns
  OBVIOUS
<1>3. Core(i, k) /\ SameRequests(i, k)
  BY <1>0, <1>1, <1>2 DEF Core, SameRequests, Same, Fields
<1>4. Channel(i) /\ i.rhb # 320
  BY <1>0 DEF Inv, Channel, Hearts, Control, Quiet, Same, Fields
<1> QED
  BY <1>3, <1>4, FreeStep

LEMMA CtrlTimeoutStep ==
    ASSUME Inv(c), NEW k \in Fired("ctrl"), NEW j, j = evtCtrlTimeout(k)
    PROVE  Step(j, c)
<1>1. /\ "ctrl" \in c.timers /\ Near(k, c) /\ Same(k, c, {"timers"})
      /\ k.timers = c.timers \ {"ctrl"} /\ IsRecord(k)
  BY FiresOne DEF TimerNames
<1>2. k.ctrl = c.ctrl /\ c.ctrl \in {1102, 1103} /\ ("ctrl" \in c.conns <=> c.ctrl = 1102)
  BY <1>1 DEF Inv, Near, Channel, Control
<1>3. CASE c.ctrl = 1102
  <2>1. j = CtrlPause(k)
    BY <1>2, <1>3 DEF evtCtrlTimeout
  <2> QED
    BY <1>1, <1>3, <2>1, PauseStep
<1>4. CASE c.ctrl = 1103
  <2> DEFINE e == [k EXCEPT !.ctrl = 1100]
             i == Cancel(e, {"ctrl"})
  <2>1. j = evtCheckCtrlRequests(i)
    BY <1>2, <1>4 DEF evtCtrlTimeout
  <2>2. IsRecord(e) /\ Same(e, k, {"ctrl"}) /\ e.ctrl = 1100
    BY <1>1 DEF IsRecord, Same, Fields
  <2> HIDE DEF e
  <2>3. IsRecord(i) /\ Same(i, e, {"timers"}) /\ i.timers = e.timers \ {"ctrl"}
    BY <2>2, CancelledSame
  <2> HIDE DEF i
  <2> DEFINE F == {"ctrl", "timers"}
  <2>4. /\ Same(i, c, F) /\ i.ctrl = 1100 /\ i.conns = c.conns
        /\ i.timers = c.timers \ {"ctrl"}
    BY <1>1, <2>2, <2>3 DEF Same, Fields
  <2>5. i.conns = c.conns \ {"ctrl"}
    BY <1>2, <1>4, <2>4
  <2>6. F \subseteq {"ctrl", "conns", "swtAck", "bwAck", "timers"}
    OBVIOUS
  <2> HIDE DEF F
  <2>7. c.ctrl \in {1102, 1103}
    BY <1>4
  <2>8. IsRecord(i) /\ Same(i, c, F) /\ i.ctrl = 1100 /\ i.timers = c.timers \ {"ctrl"}
    BY <2>3, <2>4
  <2>9. \A x : x = evtCheckCtrlRequests(i) => Step(x, c)
    BY <2>5, <2>6, <2>7, <2>8, FreedStep, ZenonT(60)
  <2> QED
    BY <2>1, <2>9
<1> QED
  BY <1>2, <1>3, <1>4

LEMMA CtrlDoneStep ==
    ASSUME Inv(c), c.ctrl = 1102, NEW j,
           j = evtCheckCtrlRequests(Cancel([disposeCtrl(c) EXCEPT !.ctrl = 1100], {"ctrl"}))
    PROVE  Step(j, c)
<1> DEFINE d == disposeCtrl(c)
           e == [d EXCEPT !.ctrl = 1100]
           i == Cancel(e, {"ctrl"})
<1>1. j = evtCheckCtrlRequests(i) /\ IsRecord(c)
  BY DEF Inv
<1>2. /\ IsRecord(d) /\ Same(d, c, {"conns", "swtAck", "bwAck"}) /\ d.conns = c.conns \ {"ctrl"}
  BY <1>1, DisposedSame DEF disposeCtrl
<1> HIDE DEF d
<1>3. IsRecord(e) /\ Same(e, d, {"ctrl"}) /\ e.ctrl = 1100
  BY <1>2 DEF IsRecord, Same, Fields
<1> HIDE DEF e
<1>4. IsRecord(i) /\ Same(i, e, {"timers"}) /\ i.timers = e.timers \ {"ctrl"}
  BY <1>3, CancelledSame
<1> HIDE DEF i
<1> DEFINE F == {"ctrl", "conns", "swtAck", "bwAck", "timers"}
<1>5. /\ Same(i, c, F) /\ i.ctrl = 1100 /\ i.conns = c.conns \ {"ctrl"}
      /\ i.timers = c.timers \ {"ctrl"}
  BY <1>2, <1>3, <1>4 DEF Same, Fields
<1>6. F \subseteq {"ctrl", "conns", "swtAck", "bwAck", "timers"}
  OBVIOUS
<1> HIDE DEF F
<1> QED
  BY <1>1, <1>4, <1>5, <1>6, FreedStep

(* The timer of the heartbeats, or one that it had hidden, goes off.       *)
LEMMA FiresRhb ==
    ASSUME Inv(c), NEW k \in Fired("rhb")
    PROVE  /\ IsRecord(k) /\ Same(k, c, {"timers", "stray"})
           /\ k.timers \in {c.timers, c.timers \ {"rhb"}}
           /\ k.stray \in {c.stray, c.stray \ {"rhb"}}
<1>1. IsRecord(c)
  BY DEF Inv
<1>2. CASE k = [c EXCEPT !.timers = @ \ {"rhb"}]
  <2>1. IsRecord(k) /\ k.timers = c.timers \ {"rhb"} /\ k.stray = c.stray
    BY <1>1, <1>2 DEF IsRecord, Fields
  <2>2. \A f \in Fields \ {"timers", "stray"} : k[f] = c[f]
    BY <1>1, <1>2 DEF IsRecord
  <2> QED
    BY <2>1, <2>2 DEF Same
<1>3. CASE k = [c EXCEPT !.stray = @ \ {"rhb"}]
  <2>1. IsRecord(k) /\ k.stray = c.stray \ {"rhb"} /\ k.timers = c.timers
    BY <1>1, <1>3 DEF IsRecord, Fields
  <2>2. \A f \in Fields \ {"timers", "stray"} : k[f] = c[f]
    BY <1>1, <1>3 DEF IsRecord
  <2> QED
    BY <2>1, <2>2 DEF Same
<1> QED
  BY <1>2, <1>3 DEF Fired

LEMMA RhbStep ==
    ASSUME Inv(c), NEW k \in Fired("rhb"), NEW j, j = evtRhbTimeout(k)
    PROVE  Step(j, c)
<1>1. /\ IsRecord(k) /\ Same(k, c, {"timers", "stray"})
      /\ k.timers \in {c.timers, c.timers \ {"rhb"}}
      /\ k.stray \in {c.stray, c.stray \ {"rhb"}}
  BY FiresRhb
<1>2. k.rhb = c.rhb
  BY <1>1 DEF Same, Fields
<1>3. CASE c.rhb \notin {322, 323}
  <2>1. j = k
    BY <1>2, <1>3 DEF evtRhbTimeout
  <2>2. /\ Core(k, c) /\ SameRequests(k, c)
    BY <1>1 DEF Core, SameRequests, Same, Fields, TimerNames
  <2>3. Channel(k)
    BY <1>1, <1>3 DEF Inv, Channel, Hearts, Control, Same, Fields
  <2>4. IdleIsDone(k) /\ k.ctrl # 1100 /\ k.rhb # 320
    BY <1>1 DEF Inv, IdleIsDone, Pending, Quiet, Same, Fields
  <2>5. SwitchSent(k) /\ LimitSent(k)
    BY <1>1 DEF Inv, SwitchSent, LimitSent, SendsOnWS, Same, Fields
  <2> QED
    BY <2>1, <2>2, <2>3, <2>4, <2>5, ChannelStep
<1>4. CASE c.rhb \in {322, 323}
  <2> DEFINE e == [k EXCEPT !.rhb = 324]
             i == Cancel(e, {"rhb"})
  <2>1. j = evtSendHeartbeat(i)
    BY <1>2, <1>4 DEF evtRhbTimeout
  <2>2. IsRecord(e) /\ Same(e, k, {"rhb"}) /\ e.rhb = 324
    BY <1>1 DEF IsRecord, Same, Fields
  <2> HIDE DEF e
  <2>3. IsRecord(i) /\ Same(i, e, {"timers"}) /\ i.timers = e.timers \ {"rhb"}
    BY <2>2, CancelledSame
  <2> HIDE DEF i
  <2>4. /\ Same(i, c, {"timers", "stray", "rhb"}) /\ i.rhb = 324
        /\ i.stray \in {c.stray, c.stray \ {"rhb"}}
    BY <1>1, <2>2, <2>3 DEF Same, Fields
  <2>5. i.timers = c.timers \ {"rhb"}
    <3>1. i.timers = k.timers \ {"rhb"}
      BY <2>2, <2>3 DEF Same, Fields
    <3> QED
      BY <1>1, <3>1
  <2>6. Core(i, c) /\ SameRequests(i, c)
    <3>1. \A t \in TimerNames \ {"rhb", "ctrl"} : t \in i.timers <=> t \in c.timers
      BY <2>5
    <3> QED
      BY <1>4, <2>3, <2>4, <3>1 DEF Core, SameRequests, Same, Fields
  <2>7. Channel(i)
    BY <2>4, <2>5 DEF Inv, Channel, Hearts, Control, Same, Fields
  <2>8. i.ctrl # 1100 /\ i.ctrl = c.ctrl /\ SwitchSent(i) /\ LimitSent(i)
    BY <2>4 DEF Inv, Quiet, SwitchSent, LimitSent, SendsOnWS, Same, Fields
  <2>9. CASE i.w_k # None \/ i.ws_k # None
    <3>0. c.ctrl = 0
      <4>1. SendsOnWS(c)
        BY <2>4, <2>9 DEF SendsOnWS, Same, Fields
      <4> QED
        BY <4>1, BaseOneWay DEF Inv, OneWay
    <3>1. j = evtRestartHeartbeat(i)
      BY <2>1, <2>8, <2>9, <3>0 DEF evtSendHeartbeat
    <3>2. OnlyHearts(j, i) /\ Hearts(j) /\ j.rhb # 320
      BY <2>3, <2>4, <2>7, <3>1, RestartKeeps DEF Channel
    <3>3. Core(j, c) /\ SameRequests(j, c)
      BY <2>6, <3>2, CoreTrans DEF OnlyHearts, SameRequests
    <3>4. Channel(j) /\ j.ctrl = c.ctrl /\ j.ctrl # 1100
      BY <2>7, <2>8, <3>2 DEF OnlyHearts, Channel, Control
    <3>5. SwitchSent(j) /\ LimitSent(j)
      BY <2>8, <3>2, CoreWays DEF OnlyHearts, SameRequests, SwitchSent, LimitSent
    <3>6. IdleIsDone(j)
      BY <3>0, <3>4 DEF IdleIsDone
    <3> QED
      BY <3>2, <3>3, <3>4, <3>5, <3>6, ChannelStep
  <2>10. CASE ~(i.w_k # None \/ i.ws_k # None) /\ i.ctrl = 1101
    <3> DEFINE h == [i EXCEPT !.ctrl = 1100]
    <3>1. j = evtCheckCtrlRequests(h)
      BY <2>1, <2>10 DEF evtSendHeartbeat
    <3>2. IsRecord(h) /\ Same(h, i, {"ctrl"}) /\ h.ctrl = 1100
      BY <2>3 DEF IsRecord, Same, Fields
    <3> HIDE DEF h
    <3>3. Core(h, i) /\ SameRequests(h, i)
      BY <2>10, <3>2 DEF Core, SameRequests, Same, Fields
    <3>4. Channel(h) /\ h.rhb # 320
      BY <2>4, <2>7, <2>10, <3>2 DEF Channel, Hearts, Control, Same, Fields
    <3>5. Core(h, c) /\ SameRequests(h, c)
      BY <2>6, <3>3, CoreTrans DEF SameRequests
    <3> QED
      BY <3>1, <3>2, <3>4, <3>5, FreeStep
  <2>11. CASE ~(i.w_k # None \/ i.ws_k # None) /\ i.ctrl # 1101
    <3>1. j = i
      BY <2>1, <2>11 DEF evtSendHeartbeat
    <3>2. IdleIsDone(i) /\ i.rhb # 320
      BY <2>4, <2>11 DEF IdleIsDone
    <3> QED
      BY <2>6, <2>7, <2>8, <3>1, <3>2, ChannelStep
  <2> QED
    BY <2>9, <2>10, <2>11
<1> QED
  BY <1>3, <1>4

LEMMA HeartbeatSteps ==
    ASSUME NEW k, Inv(k), NEW i, IsRecord(i), Core(i, k), SameRequests(i, k), Channel(i),
           IdleIsDone(i), i.ctrl # 1100, i.rhb # 320, SwitchSent(i), LimitSent(i),
           NEW j, j = evtExtSetReverseHeartbeatInterval(i)
    PROVE  Step(j, k)
<1>3. /\ Core(i, k) /\ SameRequests(i, k) /\ Channel(i) /\ IdleIsDone(i)
      /\ i.ctrl # 1100 /\ i.rhb # 320 /\ SwitchSent(i) /\ LimitSent(i) /\ IsRecord(i)
  OBVIOUS
<1>4. CASE i.rhb = 321 /\ i.rhbOpt
  <2> DEFINE e == [i EXCEPT !.rhb = 322]
  <2>1. j = Schedule(e, "rhb")
    BY <1>4 DEF evtExtSetReverseHeartbeatInterval
  <2>2. IsRecord(e) /\ Same(e, i, {"rhb"}) /\ e.rhb = 322
    BY <1>3 DEF IsRecord, Same, Fields
  <2> HIDE DEF e
  <2>3. IsRecord(j)
    BY <2>1, <2>2, Scheduled DEF TimerNames
  <2>4. /\ Same(j, i, {"rhb", "timers", "stray"}) /\ j.rhb = 322
        /\ j.timers = i.timers \cup {"rhb"} /\ j.stray \in {i.stray, i.stray \cup {"rhb"}}
    <3>1. CASE "rhb" \in e.timers
      <4>1. j = [e EXCEPT !.stray = @ \cup {"rhb"}]
        BY <2>1, <3>1 DEF Schedule
      <4>2. Same(j, e, {"stray"}) /\ j.stray = e.stray \cup {"rhb"}
        BY <2>2, <4>1 DEF IsRecord, Same, Fields
      <4> QED
        BY <2>2, <3>1, <4>2 DEF Same, Fields
    <3>2. CASE "rhb" \notin e.timers
      <4>1. Same(j, e, {"timers"}) /\ j.timers = e.timers \cup {"rhb"}
        BY <2>1, <2>2, <3>2, ScheduledSame DEF TimerNames
      <4> QED
        BY <2>2, <4>1 DEF Same, Fields
    <3> QED
      BY <3>1, <3>2
  <2>5. Core(j, i) /\ SameRequests(j, i)
    <3>1. \A t \in TimerNames \ {"rhb", "ctrl"} : t \in j.timers <=> t \in i.timers
      BY <2>4
    <3> QED
      BY <1>4, <2>3, <2>4, <3>1 DEF Core, SameRequests, Same, Fields
  <2>6. Channel(j)
    BY <1>3, <2>4 DEF Channel, Hearts, Control, Same, Fields
  <2>7. Core(j, k) /\ SameRequests(j, k)
    BY <1>3, <2>5, CoreTrans DEF SameRequests
  <2>8. IdleIsDone(j) /\ j.ctrl # 1100 /\ j.rhb # 320 /\ SwitchSent(j) /\ LimitSent(j)
    BY <1>3, <2>4 DEF IdleIsDone, Pending, SwitchSent, LimitSent, SendsOnWS, Same, Fields
  <2> QED
    BY <2>6, <2>7, <2>8, ChannelStep
<1>5. CASE i.rhb = 322 /\ ~i.rhbOpt
  <2> DEFINE e == [i EXCEPT !.rhb = 321]
  <2>1. j = Cancel(e, {"rhb"})
    BY <1>5 DEF evtExtSetReverseHeartbeatInterval
  <2>2. IsRecord(e) /\ Same(e, i, {"rhb"}) /\ e.rhb = 321
    BY <1>3 DEF IsRecord, Same, Fields
  <2> HIDE DEF e
  <2>3. IsRecord(j) /\ Same(j, e, {"timers"}) /\ j.timers = e.timers \ {"rhb"}
    BY <2>1, <2>2, CancelledSame
  <2>4. Same(j, i, {"rhb", "timers"}) /\ j.rhb = 321 /\ j.timers = i.timers \ {"rhb"}
    BY <2>2, <2>3 DEF Same, Fields
  <2>5. Core(j, i) /\ SameRequests(j, i)
    <3>1. \A t \in TimerNames \ {"rhb", "ctrl"} : t \in j.timers <=> t \in i.timers
      BY <2>4
    <3> QED
      BY <1>5, <2>3, <2>4, <3>1 DEF Core, SameRequests, Same, Fields
  <2>6. Channel(j)
    BY <1>3, <2>4 DEF Channel, Hearts, Control, Same, Fields
  <2>7. Core(j, k) /\ SameRequests(j, k)
    BY <1>3, <2>5, CoreTrans DEF SameRequests
  <2>8. IdleIsDone(j) /\ j.ctrl # 1100 /\ j.rhb # 320 /\ SwitchSent(j) /\ LimitSent(j)
    BY <1>3, <2>4 DEF IdleIsDone, Pending, SwitchSent, LimitSent, SendsOnWS, Same, Fields
  <2> QED
    BY <2>6, <2>7, <2>8, ChannelStep
<1>6. CASE ~(i.rhb = 321 /\ i.rhbOpt) /\ ~(i.rhb = 322 /\ ~i.rhbOpt)
  <2>1. j = i
    BY <1>6 DEF evtExtSetReverseHeartbeatInterval
  <2> QED
    BY <1>3, <2>1, ChannelStep
<1> QED
  BY <1>4, <1>5, <1>6

LEMMA HeartbeatStep ==
    ASSUME Inv(c), NEW heartbeat \in Heartbeats, NEW j,
           j = evtExtSetReverseHeartbeatInterval([c EXCEPT !.rhbOpt = heartbeat])
    PROVE  Step(j, c)
<1> DEFINE i == [c EXCEPT !.rhbOpt = heartbeat]
<1>1. j = evtExtSetReverseHeartbeatInterval(i) /\ IsRecord(c)
  BY DEF Inv
<1>2. IsRecord(i) /\ Same(i, c, {"rhbOpt"})
  BY <1>1 DEF IsRecord, Same, Fields
<1> HIDE DEF i
<1>3. /\ Core(i, c) /\ SameRequests(i, c) /\ Channel(i) /\ IdleIsDone(i)
      /\ i.ctrl # 1100 /\ i.rhb # 320 /\ SwitchSent(i) /\ LimitSent(i)
  <2>1. Core(i, c) /\ SameRequests(i, c)
    BY <1>2 DEF Core, SameRequests, Same, Fields
  <2>2. Channel(i)
    BY <1>2 DEF Inv, Channel, Hearts, Control, Same, Fields
  <2>3. IdleIsDone(i) /\ i.ctrl # 1100 /\ i.rhb # 320
    BY <1>2 DEF Inv, IdleIsDone, Pending, Quiet, Same, Fields
  <2>4. SwitchSent(i) /\ LimitSent(i)
    BY <1>2 DEF Inv, SwitchSent, LimitSent, SendsOnWS, Same, Fields
  <2> QED
    BY <2>1, <2>2, <2>3, <2>4
<1> QED
  BY <1>1, <1>2, <1>3, HeartbeatSteps

-----------------------------------------------------------------------------
(* Calls of the application, and events of the platform.                   *)
LEMMA ForcedStep ==
    ASSUME Inv(c), NEW forced \in Forced, NEW j, j = RecheckTransport([c EXCEPT !.forced = forced])
    PROVE  Step(j, c)
<1> DEFINE i == [c EXCEPT !.forced = forced]
<1>1. j = RecheckTransport(i) /\ IsRecord(c)
  BY DEF Inv
<1>2. IsRecord(i) /\ Same(i, c, {"forced"})
  BY <1>1 DEF IsRecord, Same, Fields
<1> HIDE DEF i
<1>3. Base(i)
  <2>1. InRegions(i) /\ Timers(i) /\ Conns(i)
    BY <1>2 DEF Inv, Base, InRegions, Timers, Conns, Same, Fields
  <2>2. Parts(i) /\ Attempts(i) /\ Status(i)
    BY <1>2 DEF Inv, Base, Parts, Attempts, Status, Same, Fields
  <2> QED
    BY <2>1, <2>2 DEF Base
<1>4. Channel(i)
  BY <1>2 DEF Inv, Channel, Hearts, Control, Same, Fields
<1>5. IdleIsDone(i) /\ Quiet(i) /\ Limited(i)
  BY <1>2 DEF Inv, IdleIsDone, Pending, Quiet, Limited, Same, Fields
<1>6. SwitchSent(i) /\ LimitSent(i)
  BY <1>2 DEF Inv, SwitchSent, LimitSent, SendsOnWS, Same, Fields
<1>7. Inv(j) /\ j.m = i.m
  BY <1>1, <1>2, <1>3, <1>4, <1>5, <1>6, RecheckInv
<1>8. j.m = c.m
  BY <1>2, <1>7 DEF Same, Fields
<1> QED
  BY <1>7, <1>8 DEF Step, Moves, Creates

LEMMA BandwidthStep ==
    ASSUME Inv(c), NEW bandwidth \in Bandwidths, NEW j,
           j = evtExtSetRequestedMaxBandwidth([c EXCEPT !.bwOpt = bandwidth])
    PROVE  Step(j, c)
<1> DEFINE i == [c EXCEPT !.bwOpt = bandwidth]
<1>1. j = evtExtSetRequestedMaxBandwidth(i) /\ IsRecord(c)
  BY DEF Inv
<1>2. IsRecord(i) /\ Same(i, c, {"bwOpt"})
  BY <1>1 DEF IsRecord, Same, Fields
<1> HIDE DEF i
<1>3. Base(i)
  <2>1. InRegions(i) /\ Timers(i) /\ Conns(i)
    BY <1>2 DEF Inv, Base, InRegions, Timers, Conns, Same, Fields
  <2>2. Parts(i) /\ Attempts(i) /\ Status(i)
    BY <1>2 DEF Inv, Base, Parts, Attempts, Status, Same, Fields
  <2> QED
    BY <2>1, <2>2 DEF Base
<1>4. Channel(i)
  BY <1>2 DEF Inv, Channel, Hearts, Control, Same, Fields
<1>5. IdleIsDone(i) /\ Quiet(i)
  BY <1>2 DEF Inv, IdleIsDone, Pending, Quiet, Same, Fields
<1>6. SwitchSent(i) /\ LimitSent(i)
  BY <1>2 DEF Inv, SwitchSent, LimitSent, SendsOnWS, Same, Fields
<1>7. Switched(i)
  <2>1. /\ i.forced = c.forced /\ i.disabled = c.disabled /\ i.tr = c.tr /\ i.h = c.h
        /\ i.swt = c.swt /\ i.excused = c.excused
    BY <1>2 DEF Same, Fields
  <2>2. getBestForBinding(i) = getBestForBinding(c) /\ Transport(i) = Transport(c)
    BY <2>1 DEF getBestForBinding, Transport
  <2> QED
    BY <2>1, <2>2 DEF Inv, Switched
<1>8. Inv(j) /\ j.m = i.m
  BY <1>1, <1>2, <1>3, <1>4, <1>5, <1>6, <1>7, RelimitInv
<1>9. j.m = c.m
  BY <1>2, <1>8 DEF Same, Fields
<1> QED
  BY <1>8, <1>9 DEF Step, Moves, Creates

(* What the options of the application and of the platform decide later.   *)
LaterFields == {"frozen", "installed", "suspended", "rhbOpt", "rhbGranted", "addressKnown", "failed"}

LEMMA LaterStep ==
    ASSUME NEW k, Inv(k), NEW j, IsRecord(j), Same(j, k, LaterFields)
    PROVE  Step(j, k) /\ Near(j, k)
<1>1. Base(j)
  <2>1. InRegions(j) /\ Timers(j) /\ Conns(j)
    BY DEF Inv, Base, InRegions, Timers, Conns, Same, Fields, LaterFields
  <2>2. Parts(j) /\ Attempts(j) /\ Status(j)
    BY DEF Inv, Base, Parts, Attempts, Status, Same, Fields, LaterFields
  <2> QED
    BY <2>1, <2>2 DEF Base
<1>2. /\ j.hs_m = k.hs_m /\ j.conns = k.conns /\ j.timers = k.timers
      /\ SendsOnWS(j) => SendsOnWS(k)
  BY DEF Same, Fields, LaterFields, SendsOnWS
<1>3. LaterFields \cap Steering = {}
  BY DEF LaterFields, Steering
<1>4. Step(j, k)
  BY <1>1, <1>2, <1>3, SteadyStep
<1>5. Near(j, k)
  BY DEF Same, Fields, LaterFields, Near
<1> QED
  BY <1>4, <1>5

LEMMA FrozenStep ==
    ASSUME Inv(c), NEW j, j = evtPageFrozen([c EXCEPT !.frozen = TRUE])
    PROVE  Step(j, c)
<1> DEFINE i == [c EXCEPT !.frozen = TRUE]
<1>1. j = evtPageFrozen(i) /\ IsRecord(c)
  BY DEF Inv
<1>2. IsRecord(i) /\ Same(i, c, LaterFields)
  <2>1. \A f \in Fields \ {"frozen"} : i[f] = c[f]
    BY <1>1 DEF IsRecord
  <2>2. IsRecord(i)
    BY <1>1 DEF IsRecord, Fields
  <2> QED
    BY <2>1, <2>2 DEF Same, LaterFields
<1> HIDE DEF i
<1>3. Step(i, c) /\ Near(i, c)
  BY <1>2, LaterStep
<1>4. CASE i.installed /\ i.m \notin {100, 117}
  <2> DEFINE d == TearDown(i)
  <2>1. j = evtRetry([goto_m_from_session(d, 117) EXCEPT !.status = WILL_RETRY])
    BY <1>1, <1>4 DEF evtPageFrozen
  <2>2. Leavable(i) /\ Lasting(i)
    BY <1>3, NearLeavable
  <2>3. IsRecord(d) /\ Out(d) /\ Lasting(d)
    BY <2>2, TearDownOut DEF Kept, Lasting
  <2> HIDE DEF d
  <2>4. Between(j) /\ j.m = 117 /\ j.status = WILL_RETRY
    BY <2>1, <2>3, SessionOver
  <2>5. Inv(j)
    BY <2>4, BetweenInv
  <2> QED
    BY <2>4, <2>5 DEF Step, Moves, Creates
<1>5. CASE ~(i.installed /\ i.m \notin {100, 117})
  <2>1. j = i
    BY <1>1, <1>5 DEF evtPageFrozen
  <2> QED
    BY <1>3, <2>1
<1> QED
  BY <1>4, <1>5

LEMMA ResumedStep ==
    ASSUME Inv(c), NEW j, j = evtPageResumed([c EXCEPT !.frozen = FALSE])
    PROVE  Step(j, c)
<1> DEFINE i == [c EXCEPT !.frozen = FALSE]
<1>1. j = evtPageResumed(i) /\ IsRecord(c)
  BY DEF Inv
<1>2. IsRecord(i) /\ Same(i, c, LaterFields)
  <2>1. \A f \in Fields \ {"frozen"} : i[f] = c[f]
    BY <1>1 DEF IsRecord
  <2>2. IsRecord(i)
    BY <1>1 DEF IsRecord, Fields
  <2> QED
    BY <2>1, <2>2 DEF Same, LaterFields
<1> HIDE DEF i
<1>3. Step(i, c) /\ Near(i, c) /\ i.m = c.m
  BY <1>2, LaterStep DEF Near
<1>4. CASE i.installed /\ i.m = 117
  <2>1. j = evtSelectCreate(i)
    BY <1>1, <1>4 DEF evtPageResumed
  <2>2. Between(i) /\ c.m = 117
    BY <1>3, <1>4, ResumingBetween
  <2>3. Inv(j) /\ j.m \in {100, 120, 130}
    BY <1>4, <2>1, <2>2, SelectCreateInv
  <2> QED
    BY <2>2, <2>3 DEF Step, Moves
<1>5. CASE ~(i.installed /\ i.m = 117)
  <2>1. j = i
    BY <1>1, <1>5 DEF evtPageResumed
  <2> QED
    BY <1>3, <2>1
<1> QED
  BY <1>4, <1>5

LEMMA NetworkStep ==
    ASSUME NEW k, Inv(k), k.nr # 1400, NEW s \in {1411, 1412}, NEW j, IsRecord(j),
           Same(j, k, {"nr"}), j.nr = s
    PROVE  Step(j, k) /\ j.m = k.m
<1>1. IsRecord(j) /\ Same(j, k, {"nr"}) /\ j.nr = s
  OBVIOUS
<1>2. k.m # 100
  BY DEF Inv, Base, Parts
<1>3. Base(j)
  <2>1. InRegions(j) /\ Timers(j) /\ Conns(j)
    BY <1>1 DEF Inv, Base, InRegions, Timers, Conns, Same, Fields
  <2>2. Parts(j) /\ Attempts(j) /\ Status(j)
    BY <1>1, <1>2 DEF Inv, Base, Parts, Attempts, Status, Same, Fields
  <2> QED
    BY <2>1, <2>2 DEF Base
<1>4. /\ j.hs_m = k.hs_m /\ j.conns = k.conns /\ j.timers = k.timers /\ j.m = k.m
      /\ SendsOnWS(j) => SendsOnWS(k)
  BY <1>1 DEF Same, Fields, SendsOnWS
<1> DEFINE F == {"nr"}
<1>5. Same(j, k, F) /\ F \cap Steering = {}
  BY <1>1 DEF Steering
<1> HIDE DEF F
<1> QED
  BY <1>1, <1>3, <1>4, <1>5, SteadyStep

LEMMA OnlineStep ==
    ASSUME NEW k, Inv(k), ~SessionRecovery, NEW j, j = evtOnlineAgain(k)
    PROVE  Step(j, k)
<1>1. k.rec = 0
  BY DEF Inv, Base, Attempts
<1>2. CASE k.m = 112
  <2> DEFINE i == Cancel(k, {"retry"})
  <2>1. j = evtSelectCreate(i)
    BY <1>2 DEF evtOnlineAgain
  <2>2. Between(i) /\ i.m = k.m
    BY <1>2, NearItself, PauseOver
  <2> HIDE DEF i
  <2>3. Inv(j) /\ j.m \in {100, 120, 130}
    BY <1>2, <2>1, <2>2, SelectCreateInv
  <2> QED
    BY <1>2, <2>3 DEF Step, Moves
<1>3. CASE k.m # 112
  <2>1. j = k
    BY <1>1, <1>3 DEF evtOnlineAgain
  <2> QED
    BY <2>1, StepItself
<1> QED
  BY <1>2, <1>3

LEMMA ReachableStep ==
    ASSUME Inv(c), ~SessionRecovery, c.nr \in {1410, 1411}, NEW j,
           j = IF c.nr = 1411 THEN evtOnlineAgain([c EXCEPT !.nr = 1412]) ELSE [c EXCEPT !.nr = 1412]
    PROVE  Step(j, c)
<1> DEFINE i == [c EXCEPT !.nr = 1412]
<1>1. j = IF c.nr = 1411 THEN evtOnlineAgain(i) ELSE i
  OBVIOUS
<1>5. IsRecord(i) /\ Same(i, c, {"nr"}) /\ i.nr = 1412
  BY DEF Inv, IsRecord, Same, Fields
<1> HIDE DEF i
<1>2. Step(i, c) /\ i.m = c.m
  BY <1>5, NetworkStep
<1>3. CASE c.nr = 1411
  <2>1. j = evtOnlineAgain(i) /\ Inv(i)
    BY <1>1, <1>2, <1>3 DEF Step
  <2>2. Step(j, i)
    BY <2>1, OnlineStep
  <2>3. Inv(c) /\ i.status = c.status
    BY <1>5 DEF Same, Fields
  <2> QED
    BY <1>2, <2>2, <2>3 DEF Step, Moves
<1>4. CASE c.nr # 1411
  BY <1>1, <1>2, <1>4
<1> QED
  BY <1>3, <1>4

LEMMA ConnectStep ==
    ASSUME Inv(c), c.m = 100, NEW j, j = evtExtConnect(c)
    PROVE  Step(j, c)
<1> DEFINE i == [c EXCEPT !.installed = PageLifecycle, !.nr = 1410]
<1>1. j = IF c.frozen THEN evtRetry([i EXCEPT !.m = 117]) ELSE evtSelectCreate(i)
  <2>1. IsRecord(c)
    BY DEF Inv
  <2>2. i.frozen = c.frozen
    BY <2>1 DEF IsRecord, Fields
  <2> QED
    BY <2>2 DEF evtExtConnect
<1>2. Between(c) /\ c.status = DISCONNECTED
  BY NearItself, ResumingBetween DEF Inv, Base, Status
<1>3. /\ IsRecord(i) /\ Same(i, c, {"installed", "nr"}) /\ i.nr = 1410
  <2> DEFINE h == [c EXCEPT !.installed = PageLifecycle]
             g == [h EXCEPT !.nr = 1410]
  <2>1. IsRecord(c)
    BY DEF Inv
  <2>2. IsRecord(h) /\ Same(h, c, {"installed"})
    BY <2>1, OptionsAssumption DEF IsRecord, Same, Fields
  <2>3. i = g
    OBVIOUS
  <2> HIDE DEF h, i
  <2>4. IsRecord(g) /\ Same(g, h, {"nr"}) /\ g.nr = 1410
    BY <2>2 DEF IsRecord, Same, Fields
  <2> HIDE DEF g
  <2>5. Same(g, c, {"installed", "nr"})
    BY <2>2, <2>4 DEF Same
  <2> QED
    BY <2>3, <2>4, <2>5
<1> HIDE DEF i
<1>4. Between(i) /\ i.m = 100 /\ i.status = DISCONNECTED
  BY <1>2, <1>3 DEF Between, Out, Lasting, Same, Fields
<1>5. CASE c.frozen
  <2> DEFINE h == [i EXCEPT !.m = 117]
  <2>1. j = evtRetry(h)
    BY <1>1, <1>5
  <2>2. IsRecord(h) /\ Same(h, i, {"m"}) /\ h.m = 117
    BY <1>3 DEF IsRecord, Same, Fields
  <2> HIDE DEF h
  <2>3. Between(h) /\ h.status = DISCONNECTED
    BY <1>4, <2>2 DEF Between, Out, Lasting, Same, Fields
  <2>4. Between(j) /\ j.m = h.m /\ j.status = h.status
    BY <2>1, <2>3, RetryBetween DEF Between
  <2>5. Inv(j)
    BY <2>2, <2>3, <2>4, BetweenInv
  <2> QED
    BY <2>2, <2>4, <2>5 DEF Step, Moves, Creates
<1>6. CASE ~c.frozen
  <2>1. j = evtSelectCreate(i)
    BY <1>1, <1>6
  <2>2. Inv(j) /\ j.m \in {100, 120, 130}
    BY <1>4, <2>1, SelectCreateInv
  <2> QED
    BY <2>2 DEF Step, Moves
<1> QED
  BY <1>5, <1>6

-----------------------------------------------------------------------------
(* Connections that open, and sessions that start.                         *)
LEMMA CreatingStep ==
    ASSUME NEW k, Inv(k), k.m \in {120, 121}, NEW j, IsRecord(j),
           Same(j, k, {"m", "rhbGranted", "bwReq"}), j.m \in {121, 122}
    PROVE  Step(j, k)
<1>1. Base(j)
  <2>1. InRegions(j) /\ Timers(j) /\ Conns(j)
    BY DEF Inv, Base, InRegions, Timers, Conns, Same, Fields
  <2>2. Parts(j) /\ Attempts(j) /\ Status(j)
    BY DEF Inv, Base, Parts, Attempts, Status, Same, Fields
  <2> QED
    BY <2>1, <2>2 DEF Base
<1>2. Channel(j)
  BY DEF Inv, Channel, Hearts, Control, Same, Fields
<1>3. Quiet(j) /\ IdleIsDone(j)
  BY DEF Inv, Quiet, IdleIsDone, Pending, Same, Fields
<1>4. SwitchSent(j) /\ LimitSent(j)
  BY DEF Inv, SwitchSent, LimitSent, SendsOnWS, Same, Fields
<1>5. j.swt = 0 /\ j.bw = 0
  BY DEF Inv, Base, Parts, Same, Fields
<1> QED
  BY <1>1, <1>2, <1>3, <1>4, <1>5 DEF Step, Inv, Switched, Limited, Moves, Creates

LEMMA OpenStep ==
    ASSUME Inv(c), c.m = 120 \/ c.ws_m = 500 \/ c.wp_m = 600, NEW j, j = evtWSOpen(c)
    PROVE  Step(j, c)
<1>1. IsRecord(c) /\ Base(c) /\ Parts(c)
  BY DEF Inv, Base
<1>2. CASE c.m = 120
  <2>0. c.ws_m = 0 /\ c.wp_m = 0
    BY <1>1, <1>2 DEF Parts
  <2>1. j = [c EXCEPT !.m = 121, !.rhbGranted = c.rhbOpt, !.bwReq = c.bwOpt]
    BY <1>2, <2>0 DEF evtWSOpen
  <2> DEFINE d == [c EXCEPT !.m = 121]
             e == [d EXCEPT !.rhbGranted = c.rhbOpt]
             i == [e EXCEPT !.bwReq = c.bwOpt]
  <2>2. j = i
    BY <2>1
  <2>3. IsRecord(d) /\ Same(d, c, {"m"}) /\ d.m = 121
    BY <1>1 DEF IsRecord, Same, Fields
  <2> HIDE DEF d
  <2>4. IsRecord(e) /\ Same(e, d, {"rhbGranted"})
    BY <1>1, <2>3, OptionsAssumption DEF IsRecord, Same, Fields
  <2> HIDE DEF e
  <2>5. IsRecord(i) /\ Same(i, e, {"bwReq"})
    BY <1>1, <2>4 DEF IsRecord, Same, Fields
  <2> HIDE DEF i
  <2>6. Same(i, c, {"m", "rhbGranted", "bwReq"}) /\ i.m = 121
    BY <2>3, <2>4, <2>5 DEF Same, Fields
  <2>7. Step(i, c)
    BY <1>2, <2>5, <2>6, CreatingStep
  <2> QED
    BY <2>2, <2>7
<1>3. CASE c.ws_m = 500
  <2>0. c.m = 150 /\ c.wp_m = 0 /\ c.tr = 240
    BY <1>1, <1>3 DEF Parts
  <2>1. j = [c EXCEPT !.ws_m = 501, !.rhbGranted = c.rhbOpt]
    BY <1>3, <2>0 DEF evtWSOpen
  <2> DEFINE d == [c EXCEPT !.ws_m = 501]
             i == [d EXCEPT !.rhbGranted = c.rhbOpt]
  <2>2. j = i
    BY <2>1
  <2>3. IsRecord(d) /\ Same(d, c, {"ws_m"}) /\ d.ws_m = 501
    BY <1>1 DEF IsRecord, Same, Fields
  <2> HIDE DEF d
  <2>4. IsRecord(i) /\ Same(i, d, {"rhbGranted"})
    BY <1>1, <2>3, OptionsAssumption DEF IsRecord, Same, Fields
  <2> HIDE DEF i
  <2>5. Same(i, c, {"ws_m", "rhbGranted"}) /\ i.ws_m = 501
    BY <2>3, <2>4 DEF Same, Fields
  <2>6. Base(i)
    <3>1. InRegions(i) /\ Timers(i) /\ Conns(i)
      BY <1>1, <1>3, <2>5 DEF Base, InRegions, Timers, Conns, Same, Fields
    <3>2. Parts(i) /\ Attempts(i) /\ Status(i)
      BY <1>1, <1>3, <2>5 DEF Base, Parts, Attempts, Status, Same, Fields
    <3> QED
      BY <3>1, <3>2 DEF Base
  <2>7. i.hs_m = c.hs_m /\ i.conns = c.conns /\ i.timers = c.timers /\ (SendsOnWS(i) => SendsOnWS(c))
    BY <2>5 DEF Same, Fields, SendsOnWS
  <2> DEFINE F == {"ws_m", "rhbGranted"}
  <2>8. Same(i, c, F) /\ F \cap Steering = {}
    BY <2>5 DEF Steering
  <2> HIDE DEF F
  <2>9. Step(i, c)
    BY <2>4, <2>6, <2>7, <2>8, SteadyStep
  <2> QED
    BY <2>2, <2>9
<1>4. CASE c.wp_m = 600
  <2>0. c.m = 150 /\ c.ws_m = 0 /\ c.tr = 250
    BY <1>1, <1>4 DEF Parts
  <2>1. j = [c EXCEPT !.wp_m = 601]
    BY <1>4, <2>0 DEF evtWSOpen
  <2> DEFINE i == [c EXCEPT !.wp_m = 601]
  <2>4. IsRecord(i) /\ Same(i, c, {"wp_m"}) /\ i.wp_m = 601
    BY <1>1 DEF IsRecord, Same, Fields
  <2>5. j = i
    BY <2>1
  <2> HIDE DEF i
  <2>6. Base(i)
    <3>1. InRegions(i) /\ Timers(i) /\ Conns(i)
      BY <1>1, <1>4, <2>4 DEF Base, InRegions, Timers, Conns, Same, Fields
    <3>2. Parts(i) /\ Attempts(i) /\ Status(i)
      BY <1>1, <1>4, <2>4 DEF Base, Parts, Attempts, Status, Same, Fields
    <3> QED
      BY <3>1, <3>2 DEF Base
  <2>7. i.hs_m = c.hs_m /\ i.conns = c.conns /\ i.timers = c.timers /\ (SendsOnWS(i) => SendsOnWS(c))
    BY <2>4 DEF Same, Fields, SendsOnWS
  <2> DEFINE F == {"wp_m"}
  <2>8. Same(i, c, F) /\ F \cap Steering = {}
    BY <2>4 DEF Steering
  <2> HIDE DEF F
  <2>9. Step(i, c)
    BY <2>4, <2>6, <2>7, <2>8, SteadyStep
  <2> QED
    BY <2>5, <2>9
<1> QED
  BY <1>2, <1>3, <1>4

(* What was asked while there was no WebSocket is sent when it opens.      *)
LEMMA PendingKeeps ==
    ASSUME NEW k, IsRecord(k), Channel(k), OneWay(k), NEW j, j = evtSendPendingControls(k)
    PROVE  /\ Core(j, k) /\ SameRequests(j, k) /\ Channel(j) /\ j.ctrl = k.ctrl
           /\ SwitchSent(j) /\ LimitSent(j)
           /\ k.rhb # 320 => j.rhb # 320
           /\ k.rhb # 324 => j.rhb # 324
<1>1. CASE ~(SendsOnWS(k) /\ Pending(k))
  <2>1. j = k
    BY <1>1 DEF evtSendPendingControls
  <2>2. Core(k, k) /\ SameRequests(k, k)
    BY DEF Core, SameRequests
  <2>3. SwitchSent(k) /\ LimitSent(k)
    BY <1>1 DEF Pending, SwitchSent, LimitSent
  <2> QED
    BY <2>1, <2>2, <2>3
<1>2. CASE SendsOnWS(k) /\ Pending(k)
  <2> DEFINE h == SendPending(k, "ws")
  <2>1. IsRecord(h)
    BY DEF SendPending, IsRecord, Fields
  <2>2. /\ h.m = k.m /\ h.du = k.du /\ h.tr = k.tr /\ h.w_k = k.w_k
        /\ h.ws_m = k.ws_m /\ h.ws_k = k.ws_k /\ h.wp_m = k.wp_m /\ h.wp_p = k.wp_p
        /\ h.h = k.h /\ h.hs_m = k.hs_m /\ h.hs_p = k.hs_p /\ h.hs_k = k.hs_k
        /\ h.hp_m = k.hp_m /\ h.rec = k.rec /\ h.slw = k.slw /\ h.nr = k.nr
        /\ h.status = k.status /\ h.sid = k.sid /\ h.disabled = k.disabled
        /\ h.forced = k.forced
    BY DEF SendPending, IsRecord, Fields
  <2>3. /\ h.bwOpt = k.bwOpt /\ h.unmanaged = k.unmanaged /\ h.attempts = k.attempts
        /\ h.timers = k.timers /\ h.stray = k.stray /\ h.conns = k.conns
        /\ h.orphans = k.orphans /\ h.rhb = k.rhb /\ h.ctrl = k.ctrl
        /\ h.swt = k.swt /\ h.bw = k.bw /\ h.bwReq = k.bwReq /\ h.excused = k.excused
    BY DEF SendPending, IsRecord, Fields
  <2>4. (k.swt = 1302 => h.swtAck = "ws") /\ (k.bw = 1202 => h.bwAck = "ws")
    BY DEF SendPending, IsRecord, Fields
  <2>5. j = IF k.wp_m = 602 THEN h ELSE evtRestartHeartbeat(h)
    BY <1>2 DEF evtSendPendingControls
  <2> HIDE DEF h
  <2>6. Core(h, k) /\ SameRequests(h, k) /\ Channel(h)
    BY <2>1, <2>2, <2>3 DEF Core, SameRequests, Channel, Hearts, Control
  <2>7. SwitchSent(h) /\ LimitSent(h)
    BY <2>3, <2>4 DEF SwitchSent, LimitSent
  <2>8. CASE k.wp_m = 602
    BY <2>3, <2>5, <2>6, <2>7, <2>8
  <2>9. CASE k.wp_m # 602
    <3>1. j = evtRestartHeartbeat(h)
      BY <2>5, <2>9
    <3>2. OnlyHearts(j, h) /\ Hearts(j) /\ j.rhb # 324 /\ (h.rhb # 320 => j.rhb # 320)
      BY <2>1, <2>6, <3>1, RestartKeeps DEF Channel
    <3>3. Core(j, k) /\ SameRequests(j, k)
      BY <2>6, <3>2, CoreTrans DEF OnlyHearts, SameRequests
    <3>4. Channel(j) /\ j.ctrl = k.ctrl
      BY <2>3, <2>6, <3>2 DEF OnlyHearts, Channel, Control
    <3>5. SwitchSent(j) /\ LimitSent(j)
      BY <2>7, <3>2, CoreWays DEF OnlyHearts, SameRequests, SwitchSent, LimitSent
    <3> QED
      BY <2>3, <3>2, <3>3, <3>4, <3>5
  <2> QED
    BY <2>8, <2>9
<1> QED
  BY <1>1, <1>2

(* A step to a record b, and then one that steers j.                       *)
LEMMA BindStep ==
    ASSUME NEW k, NEW b, Base(b), Switched(b), Limited(b), Moves(b, k),
           b.swt \in {0, 1301, 1302, 1303}, b.bw \in {0, 1201, 1202},
           NEW j, Core(j, b), SameRequests(j, b), Channel(j), IdleIsDone(j),
           j.ctrl # 1100, j.rhb # 320, SwitchSent(j), LimitSent(j)
    PROVE  Step(j, k)
<1>1. Base(j)
  BY CoreBase DEF SameRequests
<1>2. Quiet(j)
  BY DEF Quiet, SameRequests
<1>3. Switched(j) /\ Limited(j)
  BY CoreWays DEF Switched, Limited, Core, SameRequests
<1>4. IsRecord(j) /\ Moves(j, k)
  BY DEF Core, Moves, Creates
<1> QED
  BY <1>1, <1>2, <1>3, <1>4 DEF Step, Inv

LEMMA WSOKStep ==
    ASSUME Inv(c), c.m = 121 \/ c.ws_m = 501 \/ c.wp_m = 601, NEW j, j = evtWSOK(c)
    PROVE  Step(j, c)
<1>1. IsRecord(c) /\ Base(c) /\ Parts(c)
  BY DEF Inv, Base
<1>2. CASE c.m = 121
  <2>0. c.ws_m = 0 /\ c.wp_m = 0
    BY <1>1, <1>2 DEF Parts
  <2> DEFINE i == [c EXCEPT !.m = 122]
  <2>1. j = i
    BY <1>2, <2>0 DEF evtWSOK
  <2>2. IsRecord(i) /\ i.m = 122 /\ Same(i, c, {"m", "rhbGranted", "bwReq"})
    <3>1. IsRecord(i) /\ i.m = 122 /\ Same(i, c, {"m"})
      BY <1>1 DEF IsRecord, Same, Fields
    <3> HIDE DEF i
    <3> QED
      BY <3>1 DEF Same
  <2> HIDE DEF i
  <2>3. Step(i, c)
    BY <1>2, <2>2, CreatingStep
  <2> QED
    BY <2>1, <2>3
<1>3. CASE c.ws_m = 501
  <2>0. c.m = 150 /\ c.wp_m = 0 /\ c.tr = 240
    BY <1>1, <1>3 DEF Parts
  <2> DEFINE i == [c EXCEPT !.ws_m = 502]
  <2>1. j = i
    BY <1>3, <2>0 DEF evtWSOK
  <2>4. IsRecord(i) /\ Same(i, c, {"ws_m"}) /\ i.ws_m = 502
    BY <1>1 DEF IsRecord, Same, Fields
  <2> HIDE DEF i
  <2>6. Base(i)
    <3>1. InRegions(i) /\ Timers(i) /\ Conns(i)
      BY <1>1, <1>3, <2>4 DEF Base, InRegions, Timers, Conns, Same, Fields
    <3>2. Parts(i) /\ Attempts(i) /\ Status(i)
      BY <1>1, <1>3, <2>4 DEF Base, Parts, Attempts, Status, Same, Fields
    <3> QED
      BY <3>1, <3>2 DEF Base
  <2>7. i.hs_m = c.hs_m /\ i.conns = c.conns /\ i.timers = c.timers /\ (SendsOnWS(i) => SendsOnWS(c))
    BY <2>4 DEF Same, Fields, SendsOnWS
  <2> DEFINE F == {"ws_m"}
  <2>8. Same(i, c, F) /\ F \cap Steering = {}
    BY <2>4 DEF Steering
  <2> HIDE DEF F
  <2>9. Step(i, c)
    BY <2>4, <2>6, <2>7, <2>8, SteadyStep
  <2> QED
    BY <2>1, <2>9
<1>4. CASE c.wp_m = 601
  <2>0. c.m = 150 /\ c.ws_m = 0 /\ c.tr = 250 /\ c.wp_p = 0 /\ c.hs_m = 0 /\ c.hp_m = 0
        /\ c.ctrl = 0 /\ c.w_k = 0 /\ c.ws_k = 0 /\ c.h = 0 /\ c.rhb = 0
    BY <1>1, <1>4 DEF Base, Parts, InRegions
  <2> DEFINE d == [c EXCEPT !.wp_m = 602]
             e == [d EXCEPT !.wp_p = 610]
             h == Cancel(e, {"transport"})
             p == evtSendPendingControls(h)
  <2>1. j = Schedule(p, "idle")
    BY <1>4, <2>0 DEF evtWSOK
  <2>2. IsRecord(d) /\ Same(d, c, {"wp_m"}) /\ d.wp_m = 602
    BY <1>1 DEF IsRecord, Same, Fields
  <2> HIDE DEF d
  <2>3. IsRecord(e) /\ Same(e, d, {"wp_p"}) /\ e.wp_p = 610
    BY <2>2 DEF IsRecord, Same, Fields
  <2> HIDE DEF e
  <2>4. IsRecord(h) /\ Same(h, e, {"timers"}) /\ h.timers = e.timers \ {"transport"}
    BY <2>3, CancelledSame
  <2> HIDE DEF h
  <2>5. /\ Same(h, c, {"wp_m", "wp_p", "timers"}) /\ h.wp_m = 602 /\ h.wp_p = 610
        /\ h.timers = c.timers \ {"transport"}
    BY <2>2, <2>3, <2>4 DEF Same, Fields
  <2>6. Channel(h) /\ OneWay(h) /\ h.rhb # 320 /\ h.ctrl # 1100
    BY <2>0, <2>5 DEF Inv, Channel, Hearts, Control, OneWay, None, Quiet, Same, Fields
  <2>7. /\ Core(p, h) /\ SameRequests(p, h) /\ Channel(p) /\ p.ctrl = h.ctrl
        /\ SwitchSent(p) /\ LimitSent(p) /\ p.rhb # 320
    BY <2>4, <2>6, PendingKeeps
  <2> HIDE DEF p
  <2>8. IsRecord(p) /\ "idle" \notin p.timers
    BY <1>1, <2>0, <2>5, <2>7 DEF Core, TimerNames, Base, Timers
  <2>9. IsRecord(j) /\ Same(j, p, {"timers"}) /\ j.timers = p.timers \cup {"idle"}
    BY <2>1, <2>8, ScheduledSame DEF TimerNames
  <2>10. /\ j.m = c.m /\ j.du = c.du /\ j.tr = c.tr /\ j.w_k = c.w_k
         /\ j.ws_m = c.ws_m /\ j.ws_k = c.ws_k /\ j.h = c.h /\ j.hs_m = c.hs_m
         /\ j.hs_p = c.hs_p /\ j.hs_k = c.hs_k /\ j.hp_m = c.hp_m /\ j.rec = c.rec
         /\ j.slw = c.slw /\ j.nr = c.nr /\ j.status = c.status /\ j.sid = c.sid
         /\ j.disabled = c.disabled /\ j.forced = c.forced /\ j.bwOpt = c.bwOpt /\ j.unmanaged = c.unmanaged
         /\ j.attempts = c.attempts
         /\ j.wp_m = 602 /\ j.wp_p = 610 /\ j.swt = c.swt /\ j.bw = c.bw /\ j.bwReq = c.bwReq
         /\ j.excused = c.excused /\ (j.rhb # 0 <=> c.rhb # 0) /\ (j.ctrl # 0 <=> c.ctrl # 0)
    BY <2>5, <2>7, <2>9 DEF Core, SameRequests, Same, Fields
  <2>11. /\ \A t \in TimerNames \ {"rhb", "ctrl", "transport", "idle"} :
               t \in j.timers <=> t \in c.timers
         /\ "transport" \notin j.timers /\ "idle" \in j.timers
    BY <2>5, <2>7, <2>9 DEF Core, TimerNames
  <2>12. \A kind \in {"ws", "http"} : kind \in j.conns <=> kind \in c.conns
    <3>1. j.conns = p.conns /\ h.conns = c.conns
      BY <2>5, <2>9 DEF Same, Fields
    <3> QED
      BY <2>7, <3>1 DEF Core
  <2>13. Base(j)
    <3>1. InRegions(j) /\ Conns(j)
      BY <1>1, <2>10, <2>12 DEF Base, InRegions, Conns
    <3>2. Timers(j)
      BY <1>1, <2>0, <2>10, <2>11 DEF Base, Timers, TimerNames
    <3>3. Parts(j)
      BY <1>1, <2>0, <2>10 DEF Base, Parts
    <3>4. Attempts(j) /\ Status(j)
      BY <1>1, <2>10 DEF Base, Attempts, Status
    <3> QED
      BY <3>1, <3>2, <3>3, <3>4 DEF Base
  <2>14. Channel(j) /\ SwitchSent(j) /\ LimitSent(j)
    BY <2>7, <2>9 DEF Channel, Hearts, Control, SwitchSent, LimitSent, SendsOnWS, Same, Fields
  <2>15. Quiet(j) /\ IdleIsDone(j)
    <3>1. j.ctrl = 0 /\ j.rhb = 0
      BY <2>0, <2>10
    <3> QED
      BY <2>10, <3>1 DEF Inv, Quiet, IdleIsDone
  <2>16. Switched(j) /\ Limited(j)
    <3>1. getBestForBinding(j) = getBestForBinding(c) /\ Transport(j) = Transport(c)
      BY <2>10 DEF getBestForBinding, Transport
    <3> QED
      BY <2>10, <3>1 DEF Inv, Switched, Limited
  <2> QED
    BY <2>0, <2>9, <2>10, <2>13, <2>14, <2>15, <2>16 DEF Step, Inv, Moves, Creates
<1> QED
  BY <1>2, <1>3, <1>4

-----------------------------------------------------------------------------
(* The CONOK of a connection that the session is bound to.                 *)

LEMMA BindWSStep ==
    ASSUME Inv(c), c.ws_m = 502, NEW j, j = CONOK_Bind(c)
    PROVE  Step(j, c)
<1>1. IsRecord(c) /\ Base(c) /\ Parts(c) /\ Hearts(c) /\ Control(c) /\ Quiet(c)
  BY DEF Inv, Base, Channel
<1>2. /\ c.m = 150 /\ c.tr = 240 /\ c.w_k = 0 /\ c.ws_k = 0 /\ c.wp_m = 0 /\ c.wp_p = 0
      /\ c.h = 0 /\ c.hs_m = 0 /\ c.hs_k = 0 /\ c.hp_m = 0 /\ c.ctrl = 0 /\ c.rhb = 0
      /\ c.sid /\ "keepalive" \notin c.timers
  BY <1>1 DEF Base, Parts, InRegions, Timers
<1> DEFINE d == [c EXCEPT !.status = WS_STREAMING]
           e == [d EXCEPT !.ws_m = 503]
           f == [e EXCEPT !.ws_k = 520]
           g == [f EXCEPT !.rhb = 320]
           h == [g EXCEPT !.slw = 330]
           i == Cancel(h, {"transport"})
           p == evtSendPendingControls(i)
           s == Schedule(p, "keepalive")
<1>3. j = evtSelectRhb(s)
  BY <1>2 DEF CONOK_Bind
<1>4. IsRecord(d) /\ Same(d, c, {"status"}) /\ d.status = WS_STREAMING
  BY <1>1 DEF IsRecord, Same, Fields, Statuses
<1> HIDE DEF d
<1>5. IsRecord(e) /\ Same(e, d, {"ws_m"}) /\ e.ws_m = 503
  BY <1>4 DEF IsRecord, Same, Fields, Statuses
<1> HIDE DEF e
<1>6. IsRecord(f) /\ Same(f, e, {"ws_k"}) /\ f.ws_k = 520
  BY <1>5 DEF IsRecord, Same, Fields, Statuses
<1> HIDE DEF f
<1>7. IsRecord(g) /\ Same(g, f, {"rhb"}) /\ g.rhb = 320
  BY <1>6 DEF IsRecord, Same, Fields, Statuses
<1> HIDE DEF g
<1>8. IsRecord(h) /\ Same(h, g, {"slw"}) /\ h.slw = 330
  BY <1>7 DEF IsRecord, Same, Fields, Statuses
<1> HIDE DEF h
<1>9. IsRecord(i) /\ Same(i, h, {"timers"}) /\ i.timers = h.timers \ {"transport"}
  BY <1>8, CancelledSame
<1> HIDE DEF i
<1>10. /\ Same(i, c, {"status", "ws_m", "ws_k", "rhb", "slw", "timers"})
      /\ i.status = WS_STREAMING /\ i.ws_m = 503 /\ i.ws_k = 520 /\ i.rhb = 320 /\ i.slw = 330
      /\ i.timers = c.timers \ {"transport"}
  BY <1>4, <1>5, <1>6, <1>7, <1>8, <1>9 DEF Same, Fields
<1>11. Channel(i) /\ OneWay(i)
  BY <1>1, <1>2, <1>10 DEF Channel, Hearts, Control, OneWay, SendsOnWS, None, Same, Fields
<1>12. /\ Core(p, i) /\ SameRequests(p, i) /\ Channel(p) /\ p.ctrl = i.ctrl
      /\ SwitchSent(p) /\ LimitSent(p)
  BY <1>9, <1>11, PendingKeeps
<1> HIDE DEF p
<1>13. IsRecord(p) /\ "keepalive" \notin p.timers
  BY <1>1, <1>2, <1>10, <1>12 DEF Core, TimerNames, Base, Timers
<1>14. IsRecord(s) /\ Same(s, p, {"timers"}) /\ s.timers = p.timers \cup {"keepalive"}
  BY <1>13, ScheduledSame DEF TimerNames
<1> HIDE DEF s
<1>15. /\ s.m = c.m /\ s.du = c.du /\ s.tr = c.tr /\ s.w_k = c.w_k
      /\ s.wp_m = c.wp_m /\ s.wp_p = c.wp_p /\ s.h = c.h /\ s.hs_m = c.hs_m
      /\ s.hs_p = c.hs_p /\ s.hs_k = c.hs_k /\ s.hp_m = c.hp_m /\ s.rec = c.rec
      /\ s.nr = c.nr /\ s.sid = c.sid /\ s.disabled = c.disabled /\ s.forced = c.forced
      /\ s.bwOpt = c.bwOpt /\ s.unmanaged = c.unmanaged /\ s.attempts = c.attempts
  BY <1>10, <1>12, <1>14 DEF Core, Same, Fields
<1>16. /\ s.status = WS_STREAMING /\ s.ws_m = 503 /\ s.ws_k = 520 /\ s.slw = 330
      /\ s.swt = c.swt /\ s.bw = c.bw /\ s.bwReq = c.bwReq /\ s.excused = c.excused
      /\ s.rhb # 0 /\ s.ctrl = c.ctrl
  BY <1>10, <1>12, <1>14 DEF Core, SameRequests, Same, Fields
<1>17. /\ \A t \in TimerNames \ {"rhb", "ctrl", "transport", "keepalive"} :
            t \in s.timers <=> t \in c.timers
      /\ "transport" \notin s.timers /\ "keepalive" \in s.timers
  BY <1>10, <1>12, <1>14 DEF Core, TimerNames
<1>18. \A kind \in {"ws", "http"} : kind \in s.conns <=> kind \in c.conns
  <2>1. s.conns = p.conns /\ i.conns = c.conns
    BY <1>10, <1>14 DEF Same, Fields
  <2> QED
    BY <1>12, <2>1 DEF Core
<1>19. Base(s)
  <2>1. InRegions(s)
    BY <1>1, <1>15, <1>16 DEF Base, InRegions
  <2>2. Conns(s)
    BY <1>1, <1>2, <1>15, <1>16, <1>18 DEF Base, Conns
  <2>3. Timers(s)
    BY <1>1, <1>2, <1>15, <1>16, <1>17 DEF Base, Timers, TimerNames
  <2>4. Parts(s)
    BY <1>1, <1>2, <1>15, <1>16 DEF Base, Parts
  <2>5. Attempts(s) /\ Status(s)
    BY <1>1, <1>2, <1>15, <1>16 DEF Base, Attempts, Status, Connected
  <2> QED
    BY <2>1, <2>2, <2>3, <2>4, <2>5 DEF Base
<1>20. Switched(s) /\ Limited(s)
  <2>1. getBestForBinding(s) = getBestForBinding(c) /\ Transport(s) = Transport(c)
    BY <1>15 DEF getBestForBinding, Transport
  <2> QED
    BY <1>15, <1>16, <2>1 DEF Inv, Switched, Limited
<1>21. Channel(s) /\ SwitchSent(s) /\ LimitSent(s)
  BY <1>12, <1>14 DEF Channel, Hearts, Control, SwitchSent, LimitSent, SendsOnWS, Same, Fields
<1>22. OnlyHearts(j, s) /\ Hearts(j) /\ j.rhb # 320 /\ (s.rhb # 324 => j.rhb # 324)
  BY <1>3, <1>14, <1>21, SelectKeeps DEF Channel
<1>23. Channel(j) /\ j.ctrl = s.ctrl
  BY <1>21, <1>22 DEF Channel, Control, OnlyHearts
<1>24. SwitchSent(j) /\ LimitSent(j)
  BY <1>21, <1>22, CoreWays DEF SwitchSent, LimitSent, OnlyHearts, SameRequests
<1>25. IdleIsDone(j) /\ j.ctrl # 1100
  BY <1>1, <1>2, <1>16, <1>22, <1>23 DEF Inv, IdleIsDone, Pending, OnlyHearts, SameRequests, Quiet
<1>26. Moves(s, c)
  BY <1>2, <1>15 DEF Moves, Creates
<1>27. s.swt \in {0, 1301, 1302, 1303} /\ s.bw \in {0, 1201, 1202}
  BY <1>1, <1>16 DEF Quiet
<1> QED
  BY <1>19, <1>20, <1>22, <1>23, <1>24, <1>25, <1>26, <1>27, BindStep
     DEF OnlyHearts

LEMMA BindHSStep ==
    ASSUME Inv(c), c.hs_m \in {800, 801}, NEW j, j = CONOK_Bind(c)
    PROVE  Step(j, c)
<1>1. IsRecord(c) /\ Base(c) /\ Parts(c) /\ Hearts(c) /\ Control(c) /\ Quiet(c)
  BY DEF Inv, Base, Channel
<1>2. /\ c.m = 150 /\ c.tr = 270 /\ c.h = 710 /\ c.w_k = 0 /\ c.ws_m = 0 /\ c.ws_k = 0
      /\ c.wp_m = 0 /\ c.wp_p = 0 /\ c.hs_k = 0 /\ c.hp_m = 0 /\ c.ctrl # 0
      /\ c.sid /\ "keepalive" \notin c.timers
  BY <1>1 DEF Base, Parts, InRegions, Timers
<1> DEFINE d == [c EXCEPT !.status = HTTP_STREAMING]
           e == [d EXCEPT !.hs_m = 802]
           f == [e EXCEPT !.hs_p = 810]
           g == [f EXCEPT !.hs_k = 820]
           h == [g EXCEPT !.rhb = 320]
           x == [h EXCEPT !.slw = 330]
           i == Cancel(x, {"transport"})
           p == i
           s == Schedule(p, "keepalive")
<1>3. j = evtSelectRhb(s)
  BY <1>2 DEF CONOK_Bind
<1>4. IsRecord(d) /\ Same(d, c, {"status"}) /\ d.status = HTTP_STREAMING
  BY <1>1 DEF IsRecord, Same, Fields, Statuses
<1> HIDE DEF d
<1>5. IsRecord(e) /\ Same(e, d, {"hs_m"}) /\ e.hs_m = 802
  BY <1>4 DEF IsRecord, Same, Fields, Statuses
<1> HIDE DEF e
<1>6. IsRecord(f) /\ Same(f, e, {"hs_p"}) /\ f.hs_p = 810
  BY <1>5 DEF IsRecord, Same, Fields, Statuses
<1> HIDE DEF f
<1>7. IsRecord(g) /\ Same(g, f, {"hs_k"}) /\ g.hs_k = 820
  BY <1>6 DEF IsRecord, Same, Fields, Statuses
<1> HIDE DEF g
<1>8. IsRecord(h) /\ Same(h, g, {"rhb"}) /\ h.rhb = 320
  BY <1>7 DEF IsRecord, Same, Fields, Statuses
<1> HIDE DEF h
<1>9. IsRecord(x) /\ Same(x, h, {"slw"}) /\ x.slw = 330
  BY <1>8 DEF IsRecord, Same, Fields, Statuses
<1> HIDE DEF x
<1>10. IsRecord(i) /\ Same(i, x, {"timers"}) /\ i.timers = x.timers \ {"transport"}
  BY <1>9, CancelledSame
<1> HIDE DEF i
<1>11. /\ Same(i, c, {"status", "hs_m", "hs_p", "hs_k", "rhb", "slw", "timers"})
      /\ i.status = HTTP_STREAMING /\ i.hs_m = 802 /\ i.hs_p = 810 /\ i.hs_k = 820 /\ i.rhb = 320 /\ i.slw = 330
      /\ i.timers = c.timers \ {"transport"}
  BY <1>4, <1>5, <1>6, <1>7, <1>8, <1>9, <1>10 DEF Same, Fields
<1>12. Channel(i) /\ OneWay(i)
  BY <1>1, <1>2, <1>11 DEF Channel, Hearts, Control, OneWay, SendsOnWS, None, Same, Fields
<1>13. /\ Core(p, i) /\ SameRequests(p, i) /\ Channel(p) /\ p.ctrl = i.ctrl /\ p.rhb = 320
      /\ ~SendsOnWS(p)
  BY <1>2, <1>10, <1>11, <1>12 DEF Core, SameRequests, SendsOnWS, None, Same, Fields
<1> HIDE DEF p
<1>14. IsRecord(p) /\ "keepalive" \notin p.timers
  BY <1>1, <1>2, <1>11, <1>13 DEF Core, TimerNames, Base, Timers
<1>15. IsRecord(s) /\ Same(s, p, {"timers"}) /\ s.timers = p.timers \cup {"keepalive"}
  BY <1>14, ScheduledSame DEF TimerNames
<1> HIDE DEF s
<1>16. /\ s.m = c.m /\ s.du = c.du /\ s.tr = c.tr /\ s.w_k = c.w_k
      /\ s.ws_m = c.ws_m /\ s.ws_k = c.ws_k /\ s.wp_m = c.wp_m /\ s.wp_p = c.wp_p
      /\ s.h = c.h /\ s.hp_m = c.hp_m /\ s.rec = c.rec /\ s.nr = c.nr
      /\ s.sid = c.sid /\ s.disabled = c.disabled /\ s.forced = c.forced /\ s.bwOpt = c.bwOpt
      /\ s.unmanaged = c.unmanaged /\ s.attempts = c.attempts
  BY <1>11, <1>13, <1>15 DEF Core, Same, Fields
<1>17. /\ s.status = HTTP_STREAMING /\ s.hs_m = 802 /\ s.hs_p = 810 /\ s.hs_k = 820 /\ s.slw = 330
      /\ s.swt = c.swt /\ s.bw = c.bw /\ s.bwReq = c.bwReq /\ s.excused = c.excused
      /\ s.rhb # 0 /\ s.ctrl = c.ctrl /\ s.rhb = 320
  BY <1>11, <1>13, <1>15 DEF Core, SameRequests, Same, Fields
<1>18. /\ \A t \in TimerNames \ {"rhb", "ctrl", "transport", "keepalive"} :
            t \in s.timers <=> t \in c.timers
      /\ "transport" \notin s.timers /\ "keepalive" \in s.timers
  BY <1>11, <1>13, <1>15 DEF Core, TimerNames
<1>19. \A kind \in {"ws", "http"} : kind \in s.conns <=> kind \in c.conns
  <2>1. s.conns = p.conns /\ i.conns = c.conns
    BY <1>11, <1>15 DEF Same, Fields
  <2> QED
    BY <1>13, <2>1 DEF Core
<1>20. Base(s)
  <2>1. InRegions(s)
    BY <1>1, <1>16, <1>17 DEF Base, InRegions
  <2>2. Conns(s)
    BY <1>1, <1>2, <1>16, <1>17, <1>19 DEF Base, Conns
  <2>3. Timers(s)
    BY <1>1, <1>2, <1>16, <1>17, <1>18 DEF Base, Timers, TimerNames
  <2>4. Parts(s)
    BY <1>1, <1>2, <1>16, <1>17 DEF Base, Parts
  <2>5. Attempts(s) /\ Status(s)
    BY <1>1, <1>2, <1>16, <1>17 DEF Base, Attempts, Status, Connected
  <2> QED
    BY <2>1, <2>2, <2>3, <2>4, <2>5 DEF Base
<1>21. Switched(s) /\ Limited(s)
  <2>1. getBestForBinding(s) = getBestForBinding(c) /\ Transport(s) = Transport(c)
    BY <1>16 DEF getBestForBinding, Transport
  <2> QED
    BY <1>16, <1>17, <2>1 DEF Inv, Switched, Limited
<1>22. Channel(s) /\ ~SendsOnWS(s)
  BY <1>13, <1>15 DEF Channel, Hearts, Control, SwitchSent, LimitSent, SendsOnWS, Same, Fields
<1>23. OnlyHearts(j, s) /\ Hearts(j) /\ j.rhb # 320 /\ (s.rhb # 324 => j.rhb # 324)
  BY <1>3, <1>15, <1>22, SelectKeeps DEF Channel
<1>24. Channel(j) /\ j.ctrl = s.ctrl
  BY <1>22, <1>23 DEF Channel, Control, OnlyHearts
<1>25. SwitchSent(j) /\ LimitSent(j)
  BY <1>22, <1>23, CoreWays DEF SwitchSent, LimitSent, OnlyHearts, SameRequests
<1>26. IdleIsDone(j) /\ j.ctrl # 1100
  BY <1>1, <1>2, <1>17, <1>23, <1>24 DEF Inv, IdleIsDone, Pending, OnlyHearts, SameRequests, Quiet
<1>27. Moves(s, c)
  BY <1>2, <1>16 DEF Moves, Creates
<1>28. s.swt \in {0, 1301, 1302, 1303} /\ s.bw \in {0, 1201, 1202}
  BY <1>1, <1>17 DEF Quiet
<1> QED
  BY <1>20, <1>21, <1>23, <1>24, <1>25, <1>26, <1>27, <1>28, BindStep
     DEF OnlyHearts

(* A poll over the WebSocket, or over HTTP, is answered.                    *)
LEMMA PolledWSStep ==
    ASSUME Inv(c), c.wp_p \in {610, 613}, NEW i, IsRecord(i), Same(i, c, {"status", "wp_p"}),
           i.wp_p = 611, i.status \in {c.status, WS_POLLING}
    PROVE  Step(i, c)
<1>1. IsRecord(c) /\ Base(c) /\ Parts(c)
  BY DEF Inv, Base
<1>2. c.m = 150 /\ c.tr = 250
  BY <1>1 DEF Parts
<1>3. Base(i)
  <2>1. InRegions(i) /\ Timers(i) /\ Conns(i)
    BY <1>1 DEF Base, InRegions, Timers, Conns, Same, Fields
  <2>2. Parts(i) /\ Attempts(i)
    BY <1>1 DEF Base, Parts, Attempts, Same, Fields
  <2>3. Status(i)
    <3>1. i.m = 150 /\ i.tr = 250
      BY <1>2 DEF Same, Fields
    <3> QED
      BY <1>1, <1>2, <3>1 DEF Base, Status, Connected
  <2> QED
    BY <2>1, <2>2, <2>3 DEF Base
<1>4. i.hs_m = c.hs_m /\ i.conns = c.conns /\ i.timers = c.timers /\ (SendsOnWS(i) => SendsOnWS(c))
  BY DEF Same, Fields, SendsOnWS
<1> DEFINE F == {"status", "wp_p"}
<1>5. Same(i, c, F) /\ F \cap Steering = {}
  BY DEF Steering
<1> HIDE DEF F
<1> QED
  BY <1>3, <1>4, <1>5, SteadyStep

LEMMA PolledHTTPStep ==
    ASSUME Inv(c), c.hp_m \in {900, 903}, NEW i, IsRecord(i), Same(i, c, {"status", "hp_m"}),
           i.hp_m = 901, i.status \in {c.status, HTTP_POLLING}
    PROVE  Step(i, c)
<1>1. IsRecord(c) /\ Base(c) /\ Parts(c)
  BY DEF Inv, Base
<1>2. c.m = 150 /\ c.tr = 270
  BY <1>1 DEF Parts
<1>3. Base(i)
  <2>1. InRegions(i) /\ Timers(i) /\ Conns(i)
    BY <1>1 DEF Base, InRegions, Timers, Conns, Same, Fields
  <2>2. Parts(i) /\ Attempts(i)
    BY <1>1 DEF Base, Parts, Attempts, Same, Fields
  <2>3. Status(i)
    <3>1. i.m = 150 /\ i.tr = 270
      BY <1>2 DEF Same, Fields
    <3> QED
      BY <1>1, <1>2, <3>1 DEF Base, Status, Connected
  <2> QED
    BY <2>1, <2>2, <2>3 DEF Base
<1>4. i.hs_m = c.hs_m /\ i.conns = c.conns /\ i.timers = c.timers /\ (SendsOnWS(i) => SendsOnWS(c))
  BY DEF Same, Fields, SendsOnWS
<1> DEFINE F == {"status", "hp_m"}
<1>5. Same(i, c, F) /\ F \cap Steering = {}
  BY DEF Steering
<1> HIDE DEF F
<1> QED
  BY <1>3, <1>4, <1>5, SteadyStep

LEMMA BoundStep ==
    ASSUME Inv(c), Binding(c), NEW j, j = CONOK_Bind(c)
    PROVE  Step(j, c)
<1>1. IsRecord(c) /\ Parts(c)
  BY DEF Inv, Base
<1>2. CASE c.ws_m = 502
  BY <1>2, BindWSStep
<1>3. CASE c.hs_m \in {800, 801}
  BY <1>3, BindHSStep
<1>4. CASE c.wp_p \in {610, 613}
  <2>1. c.ws_m = 0 /\ c.hs_m = 0 /\ c.hp_m = 0
    BY <1>1, <1>4 DEF Parts
  <2> DEFINE d == [c EXCEPT !.status = WS_POLLING]
             a == [d EXCEPT !.wp_p = 611]
             b == [c EXCEPT !.wp_p = 611]
  <2>2. (c.wp_p = 610 => j = a) /\ (c.wp_p = 613 => j = b)
    BY <2>1 DEF CONOK_Bind
  <2>4. IsRecord(b) /\ Same(b, c, {"status", "wp_p"}) /\ b.wp_p = 611 /\ b.status = c.status
    BY <1>1 DEF IsRecord, Fields, Same
  <2> HIDE DEF b
  <2>3. IsRecord(a) /\ Same(a, c, {"status", "wp_p"}) /\ a.wp_p = 611 /\ a.status = WS_POLLING
    <3>1. IsRecord(d) /\ Same(d, c, {"status"}) /\ d.status = WS_POLLING
      BY <1>1 DEF IsRecord, Fields, Same, Statuses
    <3> HIDE DEF d
    <3>2. IsRecord(a) /\ Same(a, d, {"wp_p"}) /\ a.wp_p = 611
      BY <3>1 DEF IsRecord, Fields, Same
    <3> HIDE DEF a
    <3> QED
      BY <3>1, <3>2 DEF Same, Fields
  <2> HIDE DEF a
  <2>5. Step(a, c) /\ Step(b, c)
    BY <1>4, <2>3, <2>4, PolledWSStep
  <2> QED
    BY <1>4, <2>2, <2>5
<1>5. CASE c.hp_m \in {900, 903}
  <2>1. c.ws_m = 0 /\ c.hs_m = 0 /\ c.wp_p = 0
    BY <1>1, <1>5 DEF Parts
  <2> DEFINE d == [c EXCEPT !.status = HTTP_POLLING]
             a == [d EXCEPT !.hp_m = 901]
             b == [c EXCEPT !.hp_m = 901]
  <2>2. (c.hp_m = 900 => j = a) /\ (c.hp_m = 903 => j = b)
    BY <2>1 DEF CONOK_Bind
  <2>4. IsRecord(b) /\ Same(b, c, {"status", "hp_m"}) /\ b.hp_m = 901 /\ b.status = c.status
    BY <1>1 DEF IsRecord, Fields, Same
  <2> HIDE DEF b
  <2>3. IsRecord(a) /\ Same(a, c, {"status", "hp_m"}) /\ a.hp_m = 901 /\ a.status = HTTP_POLLING
    <3>1. IsRecord(d) /\ Same(d, c, {"status"}) /\ d.status = HTTP_POLLING
      BY <1>1 DEF IsRecord, Fields, Same, Statuses
    <3> HIDE DEF d
    <3>2. IsRecord(a) /\ Same(a, d, {"hp_m"}) /\ a.hp_m = 901
      BY <3>1 DEF IsRecord, Fields, Same
    <3> HIDE DEF a
    <3> QED
      BY <3>1, <3>2 DEF Same, Fields
  <2> HIDE DEF a
  <2>5. Step(a, c) /\ Step(b, c)
    BY <1>5, <2>3, <2>4, PolledHTTPStep
  <2> QED
    BY <1>5, <2>2, <2>5
<1> QED
  BY <1>2, <1>3, <1>4, <1>5 DEF Binding

-----------------------------------------------------------------------------
(* The CONOK of a session just created.                                    *)
LEMMA FreshStep ==
    ASSUME NEW s, IsRecord(s), Base(s), Channel(s), s.ctrl = 0, s.rhb # 320,
           s.swt = 1300, s.bw = 1200, NEW k, Moves(s, k), NEW j, j = evtCheckBW(evtCheckTransport(s))
    PROVE  Step(j, k)
<1> DEFINE t == evtCheckTransport(s)
<1>1. OneWay(s) /\ LimitSent(s)
  BY BaseOneWay DEF LimitSent
<1>2. /\ Steered(t, s) /\ t.swt \in {1301, 1302} /\ t.bw = s.bw
      /\ SwitchSent(t) /\ LimitSent(t) /\ Switched(t)
  BY <1>1, CheckTransportKeeps
<1>3. j = evtCheckBW(t)
  OBVIOUS
<1> HIDE DEF t
<1>4. /\ IsRecord(t) /\ Channel(t) /\ t.ctrl = 0 /\ t.rhb # 320 /\ t.bw = 1200 /\ Core(t, s)
  BY <1>2 DEF Steered, Core
<1>5. OneWay(t)
  BY <1>1, <1>4, OneWayKept
<1>6. /\ Steered(j, t) /\ j.bw \in {1201, 1202} /\ j.swt = t.swt /\ j.excused = t.excused
      /\ SwitchSent(j) /\ LimitSent(j) /\ Limited(j)
  BY <1>2, <1>3, <1>4, <1>5, CheckBWKeeps
<1>7. Core(j, t) /\ Channel(j) /\ IdleIsDone(j) /\ j.ctrl # 1100 /\ j.rhb # 320
  BY <1>4, <1>6 DEF Steered
<1>8. Core(j, s)
  BY <1>4, <1>7, CoreTrans
<1>9. Base(j)
  BY <1>2, <1>6, <1>8, CoreBase
<1>10. Switched(j)
  <2>1. getBestForBinding(j) = getBestForBinding(t) /\ Transport(j) = Transport(t)
    BY <1>7, CoreWays
  <2>2. j.tr = t.tr
    BY <1>7 DEF Core
  <2> QED
    BY <1>2, <1>6, <2>1, <2>2 DEF Switched
<1>11. Quiet(j) /\ IsRecord(j) /\ Moves(j, k)
  BY <1>2, <1>6, <1>7, <1>8 DEF Quiet, Core, Moves, Creates
<1> QED
  BY <1>6, <1>7, <1>9, <1>10, <1>11 DEF Step, Inv

LEMMA CreatedWSStep ==
    ASSUME Inv(c), c.m = 122, NEW j, j = CONOK_Create(c)
    PROVE  Step(j, c)
<1>1. IsRecord(c) /\ Base(c) /\ Parts(c) /\ Hearts(c) /\ Control(c)
  BY DEF Inv, Base, Channel
<1>2. /\ c.tr = 0 /\ c.w_k = 0 /\ c.ws_m = 0 /\ c.ws_k = 0 /\ c.wp_m = 0 /\ c.wp_p = 0 /\ c.h = 0
      /\ c.hs_m = 0 /\ c.hs_p = 0 /\ c.hs_k = 0 /\ c.hp_m = 0 /\ c.ctrl = 0 /\ c.rhb = 0
      /\ c.slw = 0 /\ c.du = 21 /\ c.status = CONNECTING
      /\ "keepalive" \notin c.timers
  BY <1>1 DEF Base, Parts, InRegions, Timers, Status
<1> DEFINE i == Cancel(c, {"transport"})
           a == [i EXCEPT !.sid = TRUE]
           b == [a EXCEPT !.m = 150]
           d == [b EXCEPT !.swt = 1300]
           e == [d EXCEPT !.bw = 1200]
           f == [e EXCEPT !.status = WS_STREAMING]
           g == [f EXCEPT !.tr = 210]
           h == [g EXCEPT !.w_k = 310]
           n == [h EXCEPT !.rhb = 320]
           o == [n EXCEPT !.slw = 330]
           x == evtStartSession(o)
           y == Schedule(x, "keepalive")
           s == evtSelectRhb(y)
<1>3. j = evtCheckBW(evtCheckTransport(s))
  <2>1. evtSendPendingControls(o) = o
    BY <1>1 DEF evtSendPendingControls, Pending, Cancel, IsRecord, Fields
  <2> QED
    BY <2>1 DEF CONOK_Create
<1>4. IsRecord(i) /\ Same(i, c, {"timers"}) /\ i.timers = c.timers \ {"transport"}
  BY <1>1, CancelledSame
<1> HIDE DEF i
<1>5. IsRecord(a) /\ Same(a, i, {"sid"}) /\ a.sid = TRUE
  BY <1>4 DEF IsRecord, Same, Fields, Statuses
<1> HIDE DEF a
<1>6. IsRecord(b) /\ Same(b, a, {"m"}) /\ b.m = 150
  BY <1>5 DEF IsRecord, Same, Fields, Statuses
<1> HIDE DEF b
<1>7. IsRecord(d) /\ Same(d, b, {"swt"}) /\ d.swt = 1300
  BY <1>6 DEF IsRecord, Same, Fields, Statuses
<1> HIDE DEF d
<1>8. IsRecord(e) /\ Same(e, d, {"bw"}) /\ e.bw = 1200
  BY <1>7 DEF IsRecord, Same, Fields, Statuses
<1> HIDE DEF e
<1>9. IsRecord(f) /\ Same(f, e, {"status"}) /\ f.status = WS_STREAMING
  BY <1>8 DEF IsRecord, Same, Fields, Statuses
<1> HIDE DEF f
<1>10. IsRecord(g) /\ Same(g, f, {"tr"}) /\ g.tr = 210
  BY <1>9 DEF IsRecord, Same, Fields, Statuses
<1> HIDE DEF g
<1>11. IsRecord(h) /\ Same(h, g, {"w_k"}) /\ h.w_k = 310
  BY <1>10 DEF IsRecord, Same, Fields, Statuses
<1> HIDE DEF h
<1>12. IsRecord(n) /\ Same(n, h, {"rhb"}) /\ n.rhb = 320
  BY <1>11 DEF IsRecord, Same, Fields, Statuses
<1> HIDE DEF n
<1>13. IsRecord(o) /\ Same(o, n, {"slw"}) /\ o.slw = 330
  BY <1>12 DEF IsRecord, Same, Fields, Statuses
<1> HIDE DEF o
<1>14. /\ Same(o, c, {"sid", "m", "swt", "bw", "status", "tr", "w_k", "rhb", "slw", "timers"})
      /\ o.sid = TRUE /\ o.m = 150 /\ o.swt = 1300 /\ o.bw = 1200 /\ o.status = WS_STREAMING /\ o.tr = 210 /\ o.w_k = 310 /\ o.rhb = 320 /\ o.slw = 330
      /\ o.timers = c.timers \ {"transport"}
  BY <1>4, <1>5, <1>6, <1>7, <1>8, <1>9, <1>10, <1>11, <1>12, <1>13 DEF Same, Fields
<1>15. IsRecord(x) /\ Same(x, o, {"du"}) /\ x.du = 22
  <2>1. o.du = 21
    BY <1>2, <1>14 DEF Same, Fields
  <2>2. x = [o EXCEPT !.du = 22]
    BY <2>1 DEF evtStartSession
  <2> QED
    BY <1>13, <2>2 DEF IsRecord, Same, Fields
<1> HIDE DEF x
<1>16. "keepalive" \notin x.timers
  BY <1>2, <1>14, <1>15 DEF Same, Fields
<1>17. IsRecord(y) /\ Same(y, x, {"timers"}) /\ y.timers = x.timers \cup {"keepalive"}
  BY <1>15, <1>16, ScheduledSame DEF TimerNames
<1> HIDE DEF y
<1>18. /\ Same(y, c, {"sid", "m", "swt", "bw", "status", "tr", "w_k", "rhb", "slw", "du", "timers"}) /\ y.du = 22
      /\ y.sid = TRUE /\ y.m = 150 /\ y.swt = 1300 /\ y.bw = 1200 /\ y.status = WS_STREAMING /\ y.tr = 210 /\ y.w_k = 310 /\ y.rhb = 320 /\ y.slw = 330
      /\ y.timers = (c.timers \ {"transport"}) \cup {"keepalive"}
  BY <1>14, <1>15, <1>17 DEF Same, Fields
<1>19. /\ y.ws_m = c.ws_m /\ y.ws_k = c.ws_k /\ y.wp_m = c.wp_m /\ y.wp_p = c.wp_p
      /\ y.h = c.h /\ y.hs_m = c.hs_m /\ y.hs_p = c.hs_p /\ y.hs_k = c.hs_k
      /\ y.hp_m = c.hp_m /\ y.rec = c.rec /\ y.nr = c.nr /\ y.disabled = c.disabled
      /\ y.forced = c.forced /\ y.bwOpt = c.bwOpt /\ y.unmanaged = c.unmanaged /\ y.attempts = c.attempts
      /\ y.stray = c.stray /\ y.conns = c.conns /\ y.orphans = c.orphans /\ y.ctrl = c.ctrl
  BY <1>18 DEF Same, Fields
<1>20. Base(y)
  <2>1. InRegions(y)
    BY <1>1, <1>2, <1>18, <1>19 DEF Base, InRegions
  <2>2. Conns(y)
    BY <1>1, <1>2, <1>18, <1>19 DEF Base, Conns
  <2>3. Timers(y)
    BY <1>1, <1>2, <1>18, <1>19 DEF Base, Timers
  <2>4. Parts(y)
    <3>1. y.sid
      BY <1>18
    <3> QED
      BY <1>1, <1>2, <1>18, <1>19, <3>1 DEF Base, Parts
  <2>5. Attempts(y) /\ Status(y)
    BY <1>1, <1>2, <1>18, <1>19 DEF Base, Attempts, Status, Connected
  <2> QED
    BY <2>1, <2>2, <2>3, <2>4, <2>5 DEF Base
<1>21. Channel(y)
  BY <1>1, <1>2, <1>18, <1>19 DEF Channel, Hearts, Control
<1>22. Moves(y, c)
  BY <1>2, <1>18, <1>19 DEF Moves, Creates
<1>23. OnlyHearts(s, y) /\ Hearts(s) /\ s.rhb # 320
  BY <1>17, <1>21, SelectKeeps DEF Channel
<1> HIDE DEF s
<1>24. Core(s, y) /\ SameRequests(s, y) /\ s.ctrl = y.ctrl /\ IsRecord(s)
  BY <1>23 DEF OnlyHearts, Core
<1>25. Base(s)
  BY <1>20, <1>24, CoreBase DEF SameRequests
<1>26. Channel(s)
  BY <1>21, <1>23 DEF Channel, Control, OnlyHearts
<1>27. Moves(s, c)
  BY <1>22, <1>24 DEF Moves, Core
<1> QED
  BY <1>2, <1>3, <1>18, <1>19, <1>23, <1>24, <1>25, <1>26, <1>27, FreshStep DEF SameRequests

LEMMA CreatedHTTPStep ==
    ASSUME Inv(c), c.m \in {130, 140}, NEW j, j = CONOK_Create(c)
    PROVE  Step(j, c)
<1>1. IsRecord(c) /\ Base(c) /\ Parts(c) /\ Hearts(c) /\ Control(c)
  BY DEF Inv, Base, Channel
<1>2. /\ c.tr = 0 /\ c.w_k = 0 /\ c.ws_m = 0 /\ c.ws_k = 0 /\ c.wp_m = 0 /\ c.wp_p = 0 /\ c.h = 0
      /\ c.hs_m = 0 /\ c.hs_p = 0 /\ c.hs_k = 0 /\ c.hp_m = 0 /\ c.ctrl = 0 /\ c.rhb = 0
      /\ c.slw = 0 /\ c.du = 21 /\ c.status = CONNECTING
      /\ "keepalive" \notin c.timers
  BY <1>1 DEF Base, Parts, InRegions, Timers, Status
<1> DEFINE sensing == IF c.m = 130 THEN 220 ELSE 230
           i == Cancel(c, {"transport"})
           a == [i EXCEPT !.sid = TRUE]
           b == [a EXCEPT !.m = 150]
           d == [b EXCEPT !.swt = 1300]
           e == [d EXCEPT !.bw = 1200]
           f == [e EXCEPT !.status = STREAM_SENSING]
           g == [f EXCEPT !.tr = sensing]
           x == evtStartSession(g)
           y == Schedule(x, "transport")
           s == y
<1>3. j = evtCheckBW(evtCheckTransport(s))
  BY DEF CONOK_Create
<1>0. sensing \in {220, 230}
  OBVIOUS
<1> HIDE DEF sensing
<1>4. IsRecord(i) /\ Same(i, c, {"timers"}) /\ i.timers = c.timers \ {"transport"}
  BY <1>1, CancelledSame
<1> HIDE DEF i
<1>5. IsRecord(a) /\ Same(a, i, {"sid"}) /\ a.sid = TRUE
  BY <1>4 DEF IsRecord, Same, Fields, Statuses
<1> HIDE DEF a
<1>6. IsRecord(b) /\ Same(b, a, {"m"}) /\ b.m = 150
  BY <1>5 DEF IsRecord, Same, Fields, Statuses
<1> HIDE DEF b
<1>7. IsRecord(d) /\ Same(d, b, {"swt"}) /\ d.swt = 1300
  BY <1>6 DEF IsRecord, Same, Fields, Statuses
<1> HIDE DEF d
<1>8. IsRecord(e) /\ Same(e, d, {"bw"}) /\ e.bw = 1200
  BY <1>7 DEF IsRecord, Same, Fields, Statuses
<1> HIDE DEF e
<1>9. IsRecord(f) /\ Same(f, e, {"status"}) /\ f.status = STREAM_SENSING
  BY <1>8 DEF IsRecord, Same, Fields, Statuses
<1> HIDE DEF f
<1>10. IsRecord(g) /\ Same(g, f, {"tr"}) /\ g.tr = sensing
  BY <1>9 DEF IsRecord, Same, Fields, Statuses
<1> HIDE DEF g
<1>11. /\ Same(g, c, {"sid", "m", "swt", "bw", "status", "tr", "timers"})
      /\ g.sid = TRUE /\ g.m = 150 /\ g.swt = 1300 /\ g.bw = 1200 /\ g.status = STREAM_SENSING /\ g.tr = sensing
      /\ g.timers = c.timers \ {"transport"}
  BY <1>4, <1>5, <1>6, <1>7, <1>8, <1>9, <1>10 DEF Same, Fields
<1>12. IsRecord(x) /\ Same(x, g, {"du"}) /\ x.du = 22
  <2>1. g.du = 21
    BY <1>2, <1>11 DEF Same, Fields
  <2>2. x = [g EXCEPT !.du = 22]
    BY <2>1 DEF evtStartSession
  <2> QED
    BY <1>10, <2>2 DEF IsRecord, Same, Fields
<1> HIDE DEF x
<1>13. "transport" \notin x.timers
  BY <1>2, <1>11, <1>12 DEF Same, Fields
<1>14. IsRecord(y) /\ Same(y, x, {"timers"}) /\ y.timers = x.timers \cup {"transport"}
  BY <1>12, <1>13, ScheduledSame DEF TimerNames
<1> HIDE DEF y
<1>15. /\ Same(y, c, {"sid", "m", "swt", "bw", "status", "tr", "du", "timers"}) /\ y.du = 22
      /\ y.sid = TRUE /\ y.m = 150 /\ y.swt = 1300 /\ y.bw = 1200 /\ y.status = STREAM_SENSING /\ y.tr = sensing
      /\ y.timers = (c.timers \ {"transport"}) \cup {"transport"}
  BY <1>11, <1>12, <1>14 DEF Same, Fields
<1>16. /\ y.w_k = c.w_k /\ y.ws_m = c.ws_m /\ y.ws_k = c.ws_k /\ y.wp_m = c.wp_m
      /\ y.wp_p = c.wp_p /\ y.h = c.h /\ y.hs_m = c.hs_m /\ y.hs_p = c.hs_p
      /\ y.hs_k = c.hs_k /\ y.hp_m = c.hp_m /\ y.rec = c.rec /\ y.slw = c.slw
      /\ y.nr = c.nr /\ y.disabled = c.disabled /\ y.forced = c.forced /\ y.bwOpt = c.bwOpt
      /\ y.unmanaged = c.unmanaged /\ y.attempts = c.attempts /\ y.stray = c.stray /\ y.conns = c.conns
      /\ y.orphans = c.orphans /\ y.ctrl = c.ctrl /\ y.rhb = c.rhb
  BY <1>15 DEF Same, Fields
<1>17. Base(y)
  <2>1. InRegions(y)
    BY <1>0, <1>1, <1>2, <1>15, <1>16 DEF Base, InRegions
  <2>2. Conns(y)
    BY <1>0, <1>1, <1>2, <1>15, <1>16 DEF Base, Conns
  <2>3. Timers(y)
    BY <1>0, <1>1, <1>2, <1>15, <1>16 DEF Base, Timers
  <2>4. Parts(y)
    <3>1. y.sid
      BY <1>15
    <3> QED
      BY <1>0, <1>1, <1>2, <1>15, <1>16, <3>1 DEF Base, Parts
  <2>5. Attempts(y) /\ Status(y)
    BY <1>0, <1>1, <1>2, <1>15, <1>16 DEF Base, Attempts, Status, Connected
  <2> QED
    BY <2>1, <2>2, <2>3, <2>4, <2>5 DEF Base
<1>18. Channel(y)
  BY <1>1, <1>2, <1>15, <1>16 DEF Channel, Hearts, Control
<1>19. Moves(y, c)
  BY <1>2, <1>15, <1>16 DEF Moves, Creates
<1>20. Step(evtCheckBW(evtCheckTransport(y)), c)
  BY <1>2, <1>14, <1>15, <1>16, <1>17, <1>18, <1>19, FreshStep
<1> QED
  BY <1>3, <1>20

-----------------------------------------------------------------------------
(* LOOP: the server ends the connection, and the session goes on.          *)
LEMMA HTTPDisposed ==
    ASSUME NEW k, IsRecord(k), NEW j, j = disposeHTTP(k)
    PROVE  IsRecord(j) /\ Same(j, k, {"conns"}) /\ j.conns = k.conns \ {"http"}
<1> DEFINE kind == "http"
<1>0. kind = "http"
  OBVIOUS
<1>1. j = Dispose(k, kind)
  BY DEF disposeHTTP
<1> HIDE DEF kind
<1>2. /\ IsRecord(j) /\ Same(j, k, {"conns", "swtAck", "bwAck"})
      /\ j.conns = k.conns \ {kind}
      /\ k.swtAck # kind => j.swtAck = k.swtAck
      /\ k.bwAck # kind => j.bwAck = k.bwAck
  BY <1>1, DisposedSame
<1>3. k.swtAck # "http" /\ k.bwAck # "http"
  BY DEF IsRecord
<1> QED
  BY <1>0, <1>2, <1>3 DEF Same

(* The end of a poll: the next one waits for its time.                     *)
LEMMA PollEndsWS ==
    ASSUME Inv(c), c.wp_p = 611, NEW j,
           j = Schedule(Cancel([c EXCEPT !.wp_p = 612], {"idle"}), "polling")
    PROVE  Step(j, c)
<1>1. IsRecord(c) /\ Base(c)
  BY DEF Inv
<1> DEFINE i == [c EXCEPT !.wp_p = 612]
           h == Cancel(i, {"idle"})
<1>2. j = Schedule(h, "polling")
  OBVIOUS
<1>3. IsRecord(i) /\ Same(i, c, {"wp_p"}) /\ i.wp_p = 612 /\ i.timers = c.timers
  BY <1>1 DEF Same, IsRecord, Fields
<1> HIDE DEF i
<1>4. IsRecord(h) /\ Same(h, i, {"timers"}) /\ h.timers = c.timers \ {"idle"}
  BY <1>3, CancelledSame
<1> HIDE DEF h
<1>5. "polling" \notin h.timers
  BY <1>1, <1>4 DEF Base, Timers, Parts
<1>6. IsRecord(j) /\ Same(j, h, {"timers"}) /\ j.timers = h.timers \cup {"polling"}
  BY <1>2, <1>4, <1>5, ScheduledSame DEF TimerNames
<1>7. /\ Same(j, c, {"wp_p", "timers"}) /\ j.wp_p = 612
      /\ j.timers = (c.timers \ {"idle"}) \cup {"polling"}
  BY <1>3, <1>4, <1>6 DEF Same, Fields
<1>8. Base(j)
  <2>1. InRegions(j) /\ Conns(j)
    BY <1>1, <1>7 DEF Base, InRegions, Conns, Same, Fields
  <2>2. Timers(j)
    BY <1>1, <1>7 DEF Base, Timers, Parts, Same, Fields
  <2>3. Parts(j) /\ Attempts(j) /\ Status(j)
    BY <1>1, <1>7 DEF Base, Parts, Attempts, Status, Same, Fields
  <2> QED
    BY <2>1, <2>2, <2>3 DEF Base
<1>9. j.hs_m = c.hs_m /\ j.conns = c.conns /\ (SendsOnWS(j) => SendsOnWS(c))
  BY <1>7 DEF Same, Fields, SendsOnWS
<1> DEFINE F == {"wp_p", "timers"}
<1>10. F \cap Steering = {} /\ Same(j, c, F)
  BY <1>7 DEF Steering
<1> HIDE DEF F
<1> QED
  BY <1>6, <1>7, <1>8, <1>9, <1>10, SteadyStep

LEMMA PollEndsHTTP ==
    ASSUME Inv(c), c.hp_m = 901, NEW j,
           j = Schedule(Cancel([disposeHTTP(c) EXCEPT !.hp_m = 902], {"idle"}), "polling")
    PROVE  Step(j, c)
<1>1. IsRecord(c) /\ Base(c)
  BY DEF Inv
<1> DEFINE d == disposeHTTP(c)
           i == [d EXCEPT !.hp_m = 902]
           h == Cancel(i, {"idle"})
<1>2. j = Schedule(h, "polling")
  OBVIOUS
<1>3. IsRecord(d) /\ Same(d, c, {"conns"}) /\ d.conns = c.conns \ {"http"}
  BY <1>1, HTTPDisposed
<1> HIDE DEF d
<1>4. IsRecord(i) /\ Same(i, d, {"hp_m"}) /\ i.hp_m = 902
  BY <1>3 DEF Same, IsRecord, Fields
<1> HIDE DEF i
<1>5. IsRecord(h) /\ Same(h, i, {"timers"}) /\ h.timers = i.timers \ {"idle"}
  BY <1>4, CancelledSame
<1> HIDE DEF h
<1>6. h.timers = c.timers \ {"idle"} /\ i.timers = c.timers
  BY <1>3, <1>4, <1>5 DEF Same, Fields
<1>7. "polling" \notin h.timers
  BY <1>1, <1>6 DEF Base, Timers, Parts
<1>8. IsRecord(j) /\ Same(j, h, {"timers"}) /\ j.timers = h.timers \cup {"polling"}
  BY <1>2, <1>5, <1>7, ScheduledSame DEF TimerNames
<1>9. /\ Same(j, c, {"conns", "hp_m", "timers"}) /\ j.hp_m = 902 /\ j.conns = c.conns \ {"http"}
      /\ j.timers = (c.timers \ {"idle"}) \cup {"polling"}
  BY <1>3, <1>4, <1>5, <1>6, <1>8 DEF Same, Fields
<1>10. Base(j)
  <2>1. InRegions(j) /\ Conns(j)
    BY <1>1, <1>9 DEF Base, InRegions, Parts, Conns, Same, Fields
  <2>2. Timers(j)
    BY <1>1, <1>9 DEF Base, Timers, Parts, Same, Fields
  <2>3. Parts(j) /\ Attempts(j) /\ Status(j)
    BY <1>1, <1>9 DEF Base, Parts, Attempts, Status, Same, Fields
  <2> QED
    BY <2>1, <2>2, <2>3 DEF Base
<1>11. j.hs_m = c.hs_m /\ (SendsOnWS(j) => SendsOnWS(c))
  BY <1>9 DEF Same, Fields, SendsOnWS
<1> DEFINE F == {"conns", "hp_m", "timers"}
<1>12. F \cap Steering = {} /\ Same(j, c, F)
  BY <1>9 DEF Steering
<1> HIDE DEF F
<1> QED
  BY <1>8, <1>9, <1>10, <1>11, <1>12, SteadyStep

(* The end of an HTTP connection, from which the session may go elsewhere. *)
LEMMA EndedRebinding ==
    ASSUME Inv(c), c.tr = 270, NEW j, IsRecord(j), Same(j, c, {"conns", "hs_p", "hp_m", "timers"}),
           j.conns = c.conns \ {"http"}, j.timers \subseteq c.timers,
           "ctrl" \in j.timers <=> "ctrl" \in c.timers,
           \/ c.hs_p = 810 /\ j.hs_p = 811 /\ j.hp_m = c.hp_m
           \/ c.hp_m = 901 /\ j.hp_m = 904 /\ j.hs_p = c.hs_p
    PROVE  Rebinding(j) /\ j.swt \in {1301, 1302, 1303}
<1>1. IsRecord(c) /\ Base(c) /\ Parts(c) /\ Channel(c) /\ Quiet(c) /\ InRegions(c)
  BY DEF Inv, Base
<1>2. /\ j.m = c.m /\ j.du = c.du /\ j.tr = c.tr /\ j.w_k = c.w_k /\ j.ws_m = c.ws_m
      /\ j.ws_k = c.ws_k /\ j.wp_m = c.wp_m /\ j.wp_p = c.wp_p /\ j.h = c.h /\ j.hs_m = c.hs_m
      /\ j.hs_k = c.hs_k /\ j.rec = c.rec /\ j.slw = c.slw /\ j.nr = c.nr /\ j.ctrl = c.ctrl
      /\ j.rhb = c.rhb /\ j.swt = c.swt /\ j.bw = c.bw /\ j.status = c.status
  BY DEF Same, Fields
<1>3. /\ j.bwOpt = c.bwOpt /\ j.bwReq = c.bwReq /\ j.unmanaged = c.unmanaged
      /\ j.attempts = c.attempts /\ j.stray = c.stray /\ j.orphans = c.orphans /\ j.sid = c.sid
  BY DEF Same, Fields
<1>4. Leavable(c) /\ Lasting(c)
  BY NearItself, NearLeavable
<1>5. c.m = 150 /\ c.du = 22 /\ (c.hs_p = 810 => c.h = 710) /\ (c.hp_m = 901 => c.h = 720)
  BY <1>1 DEF Parts
<1>6. Leavable(j)
  BY <1>2, <1>3, <1>4, <1>5 DEF Leavable
<1>7. Lasting(j) /\ Limited(j)
  BY <1>2, <1>3, <1>4 DEF Inv, Lasting, Limited
<1>8. j.sid
  <2>1. c.sid
    BY <1>1, <1>5 DEF Parts
  <2> QED
    BY <1>3, <2>1
<1>9. j.status \in Connected \cup {TRYING_RECOVERY}
  BY <1>1, <1>2, <1>5 DEF Base, Status
<1>10. Control(j) /\ IdleIsDone(j)
  BY <1>1, <1>2, <1>3 DEF Inv, Channel, Control, IdleIsDone, Pending
<1>11. j.conns \subseteq {"ctrl"}
  <2>1. "ws" \notin c.conns
    BY <1>1, <1>5 DEF Base, Conns
  <2> QED
    BY <1>1, <2>1 DEF IsRecord, Kinds
<1>12. j.rhb \in {321, 322, 323, 324} /\ j.slw \in {0, 330, 331, 333, 334}
  <2>1. c.rhb # 0 /\ c.rhb # 320
    BY <1>1, <1>5 DEF Parts, Quiet
  <2> QED
    BY <1>1, <1>2, <2>1 DEF Channel, Hearts, InRegions
<1>13. j.ctrl \in {1101, 1102, 1103}
  BY <1>1, <1>2 DEF Parts, Channel, Control, Quiet
<1>14. j.swt \in {1301, 1302, 1303} /\ j.bw \in {1201, 1202}
  BY <1>1, <1>2, <1>5 DEF Parts, Quiet
<1> QED
  BY <1>2, <1>5, <1>6, <1>7, <1>8, <1>9, <1>10, <1>11, <1>12, <1>13, <1>14 DEF Rebinding

LEMMA SwitchStep ==
    ASSUME NEW k, k.m = 150, NEW i, Rebinding(i), i.swt \in {1301, 1302, 1303},
           NEW j, j = evtSwitchTransport(i)
    PROVE  Step(j, k)
<1>1. Inv(j) /\ j.m \in {100, 150}
  BY SwitchInv
<1> QED
  BY <1>1 DEF Step, Moves, Creates

(* The server recovered the session, which is bound again.                 *)
LEMMA RecoveredStep ==
    ASSUME Inv(c), c.m = 150, NEW j, j = Rebind([c EXCEPT !.rec = None])
    PROVE  Step(j, c)
<1> DEFINE i == [c EXCEPT !.rec = None]
<1>1. IsRecord(i) /\ Same(i, c, {"rec"}) /\ i.rec = 0
  BY DEF Inv, IsRecord, Same, Fields, None
<1>2. j = Rebind(i)
  OBVIOUS
<1> HIDE DEF i
<1>3. /\ Leavable(c) /\ Lasting(c) /\ Limited(c)
      /\ c.du = 22 /\ c.sid /\ c.status \in Connected \cup {TRYING_RECOVERY}
      /\ c.swt \in {1301, 1302, 1303} /\ c.bw \in {1201, 1202}
  BY NearItself, NearSession
<1>4. Leavable(i)
  BY <1>1, <1>3 DEF Leavable, Same, Fields
<1>5. Lasting(i) /\ Limited(i)
  BY <1>1, <1>3 DEF Lasting, Limited, Same, Fields
<1>6. i.sid
  <2>1. i.sid = c.sid
    BY <1>1 DEF Same, Fields
  <2> QED
    BY <1>3, <2>1
<1>7. /\ i.m = 150 /\ i.du = 22 /\ i.status \in Connected \cup {TRYING_RECOVERY}
      /\ i.swt \in {1301, 1302, 1303} /\ i.bw \in {1201, 1202}
  BY <1>1, <1>3 DEF Same, Fields
<1>8. Inv(j) /\ j.m \in {100, 150}
  BY <1>2, <1>4, <1>5, <1>6, <1>7, RebindInv
<1> QED
  BY <1>8 DEF Step, Moves, Creates

LEMMA LoopStep ==
    ASSUME Inv(c), Bound(c) \/ c.tr \in {220, 230} \/ Recovering(c), NEW j, j = evtLOOP(c)
    PROVE  Step(j, c)
<1>1. IsRecord(c) /\ Base(c) /\ Parts(c) /\ InRegions(c)
  BY DEF Inv, Base
<1>2. c.m = 150
  BY <1>1 DEF Parts, Bound, Recovering, None
<1>3. CASE c.w_k # 0 \/ c.tr \in {220, 230} \/ c.ws_m = 503
  <2>1. c.wp_p = 0 /\ c.hs_p = 0 /\ c.hp_m = 0 /\ c.tr # 260
    BY <1>1, <1>3 DEF Parts
  <2>2. j = Rebind(c)
    BY <1>3, <2>1 DEF evtLOOP, Recovering, None
  <2> QED
    BY <1>2, <2>2, NearItself, RebindStep
<1>4. CASE c.wp_p = 611
  <2>1. c.w_k = 0 /\ c.tr = 250 /\ c.ws_m = 0 /\ c.hs_p = 0 /\ c.hp_m = 0
    BY <1>1, <1>4 DEF Parts
  <2>2. CASE isSwitching(c)
    <3>1. j = Rebind(c)
      BY <1>4, <2>1, <2>2 DEF evtLOOP, Recovering, None
    <3> QED
      BY <1>2, <3>1, NearItself, RebindStep
  <2>3. CASE ~isSwitching(c)
    <3>1. j = Schedule(Cancel([c EXCEPT !.wp_p = 612], {"idle"}), "polling")
      BY <1>4, <2>1, <2>3 DEF evtLOOP, Recovering, None
    <3> QED
      BY <1>4, <3>1, PollEndsWS
  <2> QED
    BY <2>2, <2>3
<1>5. CASE c.hs_p = 810
  <2>1. c.w_k = 0 /\ c.tr = 270 /\ c.ws_m = 0 /\ c.wp_p = 0 /\ c.hp_m = 0
    BY <1>1, <1>5 DEF Parts
  <2> DEFINE d == disposeHTTP(c)
             i == [d EXCEPT !.hs_p = 811]
  <2>2. j = evtSwitchTransport(i)
    BY <1>5, <2>1 DEF evtLOOP, Recovering, None
  <2>3. IsRecord(d) /\ Same(d, c, {"conns"}) /\ d.conns = c.conns \ {"http"}
    BY <1>1, HTTPDisposed
  <2> HIDE DEF d
  <2>4. IsRecord(i) /\ Same(i, d, {"hs_p"}) /\ i.hs_p = 811
    BY <2>3 DEF Same, IsRecord, Fields
  <2> HIDE DEF i
  <2>5. /\ Same(i, c, {"conns", "hs_p", "hp_m", "timers"}) /\ i.conns = c.conns \ {"http"}
        /\ i.timers = c.timers /\ i.hp_m = c.hp_m
    BY <2>3, <2>4 DEF Same, Fields
  <2>6. Rebinding(i) /\ i.swt \in {1301, 1302, 1303}
    BY <1>5, <2>1, <2>4, <2>5, EndedRebinding
  <2> QED
    BY <1>2, <2>2, <2>6, SwitchStep
<1>6. CASE c.hp_m = 901
  <2>1. c.w_k = 0 /\ c.tr = 270 /\ c.ws_m = 0 /\ c.wp_p = 0 /\ c.hs_p = 0
    BY <1>1, <1>6 DEF Parts
  <2>2. CASE isSwitching(c)
    <3> DEFINE d == disposeHTTP(c)
               h == [d EXCEPT !.hp_m = 904]
               i == Cancel(h, {"idle"})
    <3>2. j = evtSwitchTransport(i)
      BY <1>6, <2>1, <2>2 DEF evtLOOP, Recovering, None
    <3>3. IsRecord(d) /\ Same(d, c, {"conns"}) /\ d.conns = c.conns \ {"http"}
      BY <1>1, HTTPDisposed
    <3> HIDE DEF d
    <3>4. IsRecord(h) /\ Same(h, d, {"hp_m"}) /\ h.hp_m = 904
      BY <3>3 DEF Same, IsRecord, Fields
    <3> HIDE DEF h
    <3>5. IsRecord(i) /\ Same(i, h, {"timers"}) /\ i.timers = h.timers \ {"idle"}
      BY <3>4, CancelledSame
    <3> HIDE DEF i
    <3>6. /\ Same(i, c, {"conns", "hs_p", "hp_m", "timers"}) /\ i.conns = c.conns \ {"http"}
          /\ i.timers = c.timers \ {"idle"} /\ i.hs_p = c.hs_p /\ i.hp_m = 904
      BY <3>3, <3>4, <3>5 DEF Same, Fields
    <3>7. i.timers \subseteq c.timers /\ ("ctrl" \in i.timers <=> "ctrl" \in c.timers)
      BY <3>6
    <3>8. Rebinding(i) /\ i.swt \in {1301, 1302, 1303}
      BY <1>6, <2>1, <3>5, <3>6, <3>7, EndedRebinding
    <3> QED
      BY <1>2, <3>2, <3>8, SwitchStep
  <2>3. CASE ~isSwitching(c)
    <3>1. j = Schedule(Cancel([disposeHTTP(c) EXCEPT !.hp_m = 902], {"idle"}), "polling")
      BY <1>6, <2>1, <2>3 DEF evtLOOP, Recovering, None
    <3> QED
      BY <1>6, <3>1, PollEndsHTTP
  <2> QED
    BY <2>2, <2>3
<1>7. CASE Recovering(c)
  <2>1. c.w_k = 0 /\ c.ws_m = 0 /\ c.wp_p = 0 /\ c.hs_p = 0 /\ c.hp_m = 0 /\ c.tr = 260
    BY <1>1, <1>7 DEF Parts, Recovering
  <2>2. j = Rebind([c EXCEPT !.rec = None])
    BY <1>7, <2>1 DEF evtLOOP, None
  <2> QED
    BY <1>2, <2>2, RecoveredStep
<1> QED
  BY <1>3, <1>4, <1>5, <1>6, <1>7 DEF Bound, None

-----------------------------------------------------------------------------
(* Lines that tell something, and that the connection is alive.            *)
LEMMA OverStep ==
    ASSUME NEW i, NEW j, NEW k, i.m = k.m, i.status = k.status, Step(j, i)
    PROVE  Step(j, k)
  BY DEF Step, Moves

LEMMA AliveLineStep ==
    ASSUME NEW k, NEW i, Inv(i), i.m = k.m, i.status = k.status, NEW j, j = evtRestartKeepalive(i)
    PROVE  Step(j, k)
<1>1. Step(j, i)
  BY RestartStep
<1> QED
  BY <1>1, OverStep

(* What none of Base, Channel and the requests reads.                      *)
Unread == {"addressKnown", "suspended", "excused", "disabled", "unmanaged"}

LEMMA UnreadKeeps ==
    ASSUME NEW k, Inv(k), NEW j, IsRecord(j), Same(j, k, Unread), j.m = 100 => j.disabled = {}
    PROVE  /\ Base(j) /\ Channel(j) /\ Quiet(j) /\ SwitchSent(j) /\ LimitSent(j) /\ IdleIsDone(j)
           /\ j.m = k.m /\ j.status = k.status
<1>1. /\ j.m = k.m /\ j.du = k.du /\ j.tr = k.tr /\ j.w_k = k.w_k
      /\ j.ws_m = k.ws_m /\ j.ws_k = k.ws_k /\ j.wp_m = k.wp_m /\ j.wp_p = k.wp_p
      /\ j.h = k.h /\ j.hs_m = k.hs_m /\ j.hs_p = k.hs_p /\ j.hs_k = k.hs_k
      /\ j.hp_m = k.hp_m /\ j.rec = k.rec /\ j.slw = k.slw /\ j.nr = k.nr
      /\ j.status = k.status /\ j.sid = k.sid /\ j.attempts = k.attempts
      /\ j.timers = k.timers /\ j.stray = k.stray /\ j.conns = k.conns /\ j.orphans = k.orphans
      /\ j.ctrl = k.ctrl /\ j.rhb = k.rhb /\ j.swt = k.swt /\ j.bw = k.bw
      /\ j.swtAck = k.swtAck /\ j.bwAck = k.bwAck
  BY DEF Same, Fields, Unread
<1>2. InRegions(j) /\ Timers(j) /\ Conns(j)
  BY <1>1 DEF Inv, Base, InRegions, Timers, Conns
<1>3. Parts(j) /\ Attempts(j) /\ Status(j)
  BY <1>1 DEF Inv, Base, Parts, Attempts, Status
<1>4. Channel(j) /\ Quiet(j)
  BY <1>1 DEF Inv, Channel, Hearts, Control, Quiet
<1>5. SwitchSent(j) /\ LimitSent(j) /\ IdleIsDone(j)
  BY <1>1 DEF Inv, SwitchSent, LimitSent, SendsOnWS, IdleIsDone, Pending
<1> QED
  BY <1>1, <1>2, <1>3, <1>4, <1>5 DEF Base

LEMMA AddressStep ==
    ASSUME Inv(c), NEW changed \in BOOLEAN, NEW j, j = evtCLIENTIP(c, changed)
    PROVE  Step(j, c)
<1> DEFINE a == [c EXCEPT !.addressKnown = TRUE]
           d == enableAllTransports(a)
           e == [d EXCEPT !.excused = TRUE]
           i == IF changed /\ c.addressKnown THEN e ELSE a
<1>1. IsRecord(a) /\ Same(a, c, {"addressKnown"})
  BY DEF Inv, IsRecord, Same, Fields
<1>2. j = evtRestartKeepalive(i)
  BY DEF evtCLIENTIP
<1> HIDE DEF a
<1>3. IsRecord(d) /\ Same(d, a, {"disabled", "suspended"}) /\ d.disabled = {}
  <2> DEFINE f == [a EXCEPT !.disabled = {}]
  <2>1. d = [f EXCEPT !.suspended = FALSE]
    BY DEF enableAllTransports
  <2>2. IsRecord(f) /\ Same(f, a, {"disabled"}) /\ f.disabled = {}
    BY <1>1 DEF IsRecord, Same, Fields
  <2> HIDE DEF f
  <2>3. IsRecord(d) /\ Same(d, f, {"suspended"})
    BY <2>1, <2>2 DEF IsRecord, Same, Fields
  <2> HIDE DEF d
  <2> QED
    BY <2>2, <2>3 DEF Same, Fields
<1> HIDE DEF d
<1>4. IsRecord(e) /\ Same(e, d, {"excused"}) /\ e.excused = TRUE
  BY <1>3 DEF IsRecord, Same, Fields
<1> HIDE DEF e
<1>5. Same(a, c, Unread) /\ Same(e, c, Unread) /\ e.disabled = {}
  BY <1>1, <1>3, <1>4 DEF Same, Fields, Unread
<1>6. Inv(a) /\ a.m = c.m /\ a.status = c.status
  <2>1. a.m = 100 => a.disabled = {}
    BY <1>1 DEF Inv, Base, Parts, Same, Fields
  <2>2. Switched(a) /\ Limited(a)
    <3> DEFINE F == {"addressKnown"}
    <3>1. Same(a, c, F) /\ F \cap {"m", "tr", "h", "swt", "bw", "excused", "forced", "disabled",
                                   "bwReq", "bwOpt", "unmanaged"} = {}
      BY <1>1
    <3> HIDE DEF F
    <3> QED
      BY <3>1, Unsteered DEF Inv
  <2> QED
    BY <1>1, <1>5, <2>1, <2>2, UnreadKeeps DEF Inv
<1>7. Inv(e) /\ e.m = c.m /\ e.status = c.status
  <2>1. Limited(e)
    BY <1>1, <1>3, <1>4 DEF Inv, Limited, Same, Fields
  <2>2. Switched(e)
    BY <1>4 DEF Switched
  <2> QED
    BY <1>4, <1>5, <2>1, <2>2, UnreadKeeps DEF Inv
<1>8. Inv(i) /\ i.m = c.m /\ i.status = c.status
  BY <1>6, <1>7
<1> HIDE DEF i
<1> QED
  BY <1>2, <1>8, AliveLineStep

LEMMA UnmanagedStep ==
    ASSUME Inv(c), NEW j, j = evtRestartKeepalive([c EXCEPT !.unmanaged = TRUE])
    PROVE  Step(j, c)
<1> DEFINE i == [c EXCEPT !.unmanaged = TRUE]
<1>1. IsRecord(i) /\ Same(i, c, {"unmanaged"}) /\ i.unmanaged = TRUE
  BY DEF Inv, IsRecord, Same, Fields
<1>2. j = evtRestartKeepalive(i)
  OBVIOUS
<1> HIDE DEF i
<1>3. Same(i, c, Unread) /\ (i.m = 100 => i.disabled = {})
  BY <1>1 DEF Inv, Base, Parts, Same, Fields, Unread
<1>4. Limited(i)
  BY <1>1 DEF Limited
<1>5. Switched(i)
  <2>1. /\ i.tr = c.tr /\ i.h = c.h /\ i.swt = c.swt /\ i.excused = c.excused
        /\ i.forced = c.forced /\ i.disabled = c.disabled
    BY <1>1 DEF Same, Fields
  <2>2. getBestForBinding(i) = getBestForBinding(c) /\ Transport(i) = Transport(c)
    BY <2>1 DEF getBestForBinding, Transport
  <2> QED
    BY <2>1, <2>2 DEF Inv, Switched
<1>6. Inv(i) /\ i.m = c.m /\ i.status = c.status
  BY <1>1, <1>3, <1>4, <1>5, UnreadKeeps DEF Inv
<1> QED
  BY <1>2, <1>6, AliveLineStep

LEMMA LineStep ==
    ASSUME Inv(c), NEW j, j = evtRestartKeepalive(c)
    PROVE  Step(j, c)
  BY RestartStep

(* The session slows down, or not yet.                                     *)
LEMMA SlowerStep ==
    ASSUME Inv(c), c.slw # 0, NEW i, IsRecord(i), Same(i, c, {"slw"}), i.slw \in {331, 333}
    PROVE  Step(i, c)
<1>1. Base(i)
  <2>1. InRegions(i) /\ Timers(i) /\ Conns(i)
    BY DEF Inv, Base, InRegions, Timers, Conns, Same, Fields
  <2>2. Parts(i) /\ Attempts(i) /\ Status(i)
    BY DEF Inv, Base, Parts, Attempts, Status, Same, Fields
  <2> QED
    BY <2>1, <2>2 DEF Base
<1>2. i.hs_m = c.hs_m /\ i.conns = c.conns /\ i.timers = c.timers /\ (SendsOnWS(i) => SendsOnWS(c))
  BY DEF Same, Fields, SendsOnWS
<1> DEFINE F == {"slw"}
<1>3. Same(i, c, F) /\ F \cap Steering = {}
  BY DEF Steering
<1> HIDE DEF F
<1> QED
  BY <1>1, <1>2, <1>3, SteadyStep

(* Streaming is too slow: the session goes to a polling transport.         *)
LEMMA TooSlowStep ==
    ASSUME Inv(c), c.slw # 0,
           NEW j, j = evtRestartKeepalive(RecheckTransport([disableStreaming(c) EXCEPT !.slw = 334]))
    PROVE  Step(j, c)
<1> DEFINE d == disableStreaming(c)
           i == [d EXCEPT !.slw = 334]
           r == RecheckTransport(i)
<1>1. IsRecord(d) /\ Same(d, c, {"disabled"})
  BY DEF Inv, disableStreaming, IsRecord, Same, Fields
<1> HIDE DEF d
<1>2. IsRecord(i) /\ Same(i, d, {"slw"}) /\ i.slw = 334
  BY <1>1 DEF IsRecord, Same, Fields
<1>3. j = evtRestartKeepalive(r)
  BY DEF d
<1> HIDE DEF i
<1>4. c.m = 150 /\ Same(d, c, Unread)
  BY <1>1 DEF Inv, Base, Parts, Same, Fields, Unread
<1>5. d.m = 150
  BY <1>1, <1>4 DEF Same, Fields
<1>6. /\ Base(d) /\ Channel(d) /\ Quiet(d) /\ SwitchSent(d) /\ LimitSent(d) /\ IdleIsDone(d)
      /\ d.m = c.m /\ d.status = c.status
  BY <1>1, <1>4, <1>5, UnreadKeeps
<1>7. d.slw # 0 /\ Limited(d)
  BY <1>1 DEF Inv, Limited, Same, Fields
<1>8. Base(i)
  <2>1. InRegions(i) /\ Timers(i) /\ Conns(i)
    BY <1>2, <1>6 DEF Base, InRegions, Timers, Conns, Same, Fields
  <2>2. Parts(i) /\ Attempts(i) /\ Status(i)
    BY <1>2, <1>6, <1>7 DEF Base, Parts, Attempts, Status, Same, Fields
  <2> QED
    BY <2>1, <2>2 DEF Base
<1>9. Channel(i) /\ Quiet(i)
  BY <1>2, <1>6 DEF Channel, Hearts, Control, Quiet, Same, Fields
<1>10. SwitchSent(i) /\ LimitSent(i) /\ IdleIsDone(i) /\ Limited(i)
  BY <1>2, <1>6, <1>7 DEF SwitchSent, LimitSent, SendsOnWS, IdleIsDone, Pending, Limited, Same, Fields
<1>11. Inv(r) /\ r.m = i.m
  BY <1>2, <1>8, <1>9, <1>10, RecheckInv
<1>12. Core(r, i)
  BY <1>2, <1>8, <1>9, <1>10, RecheckKeeps, BaseOneWay
<1> HIDE DEF r
<1>13. r.m = c.m /\ r.status = c.status
  BY <1>2, <1>6, <1>11, <1>12 DEF Core, Same, Fields
<1> QED
  BY <1>3, <1>11, <1>13, AliveLineStep

LEMMA SyncStep ==
    ASSUME Inv(c), NEW verdict \in {"good", "not_good", "bad"}, NEW j, j = evtSYNC(c, verdict)
    PROVE  Step(j, c)
<1> DEFINE a == [c EXCEPT !.slw = 331]
           b == [c EXCEPT !.slw = 333]
<1>1. /\ IsRecord(a) /\ Same(a, c, {"slw"}) /\ a.slw = 331
      /\ IsRecord(b) /\ Same(b, c, {"slw"}) /\ b.slw = 333
  BY DEF Inv, IsRecord, Same, Fields
<1>2. /\ c.slw = 330 => j = evtRestartKeepalive(a)
      /\ c.slw \in {331, 333} /\ verdict = "good" => j = evtRestartKeepalive(a)
      /\ c.slw \in {331, 333} /\ verdict = "not_good" => j = evtRestartKeepalive(b)
      /\ c.slw \in {331, 333} /\ verdict = "bad" =>
            j = evtRestartKeepalive(RecheckTransport([disableStreaming(c) EXCEPT !.slw = 334]))
      /\ c.slw \notin {330, 331, 333} => j = evtRestartKeepalive(c)
  BY DEF evtSYNC
<1> HIDE DEF a, b
<1>3. c.slw # 0 => Inv(a) /\ Inv(b) /\ a.m = c.m /\ b.m = c.m /\ a.status = c.status /\ b.status = c.status
  BY <1>1, SlowerStep DEF Step, Same, Fields
<1>4. c.slw # 0 => \A i : i = evtRestartKeepalive(a) \/ i = evtRestartKeepalive(b) => Step(i, c)
  BY <1>3, AliveLineStep
<1>5. CASE c.slw = 330 \/ (c.slw \in {331, 333} /\ verdict # "bad")
  BY <1>2, <1>4, <1>5
<1>6. CASE c.slw \in {331, 333} /\ verdict = "bad"
  BY <1>2, <1>6, TooSlowStep
<1>7. CASE c.slw \notin {330, 331, 333}
  BY <1>2, <1>7, LineStep
<1> QED
  BY <1>5, <1>6, <1>7

-----------------------------------------------------------------------------
(* Replies to control requests.                                            *)
LEMMA RegionStep ==
    ASSUME NEW k, NEW i, Inv(i), i.m = k.m, i.status = k.status, NEW j, j = TransportRegion(i)
    PROVE  Step(j, k)
<1>1. CASE i.w_k # None \/ i.ws_m = 503
  <2>1. j = evtRestartKeepalive(i)
    BY <1>1 DEF TransportRegion
  <2> QED
    BY <2>1, AliveLineStep
<1>2. CASE ~(i.w_k # None \/ i.ws_m = 503)
  <2>1. j = i
    BY <1>2 DEF TransportRegion
  <2> QED
    BY <2>1, StepItself, OverStep
<1> QED
  BY <1>1, <1>2

(* What a reply to the request of a switch changes.                        *)
LEMMA AnsweredInv ==
    ASSUME Inv(c), NEW i, IsRecord(i), Same(i, c, {"swtAck", "swt", "excused"}),
           c.swt # 1302 => i.swt = c.swt /\ i.excused = c.excused,
           c.swt = 1302 => i.swt = 1303 \/ (i.swt = 1301 /\ i.excused)
    PROVE  Inv(i) /\ i.m = c.m /\ i.status = c.status
<1>1. /\ i.m = c.m /\ i.du = c.du /\ i.tr = c.tr /\ i.w_k = c.w_k
      /\ i.ws_m = c.ws_m /\ i.ws_k = c.ws_k /\ i.wp_m = c.wp_m /\ i.wp_p = c.wp_p
      /\ i.h = c.h /\ i.hs_m = c.hs_m /\ i.hs_p = c.hs_p /\ i.hs_k = c.hs_k
      /\ i.hp_m = c.hp_m /\ i.rec = c.rec /\ i.slw = c.slw /\ i.nr = c.nr
      /\ i.status = c.status /\ i.sid = c.sid /\ i.disabled = c.disabled /\ i.forced = c.forced
      /\ i.attempts = c.attempts /\ i.timers = c.timers /\ i.stray = c.stray /\ i.conns = c.conns
  BY DEF Same, Fields
<1>2. /\ i.orphans = c.orphans /\ i.ctrl = c.ctrl /\ i.rhb = c.rhb /\ i.bw = c.bw
      /\ i.bwAck = c.bwAck /\ i.bwReq = c.bwReq /\ i.bwOpt = c.bwOpt /\ i.unmanaged = c.unmanaged
  BY DEF Same, Fields
<1>3. InRegions(i) /\ Timers(i) /\ Conns(i)
  BY <1>1 DEF Inv, Base, InRegions, Timers, Conns
<1>4. Parts(i)
  BY <1>1, <1>2 DEF Inv, Base, Parts
<1>5. Attempts(i) /\ Status(i)
  BY <1>1 DEF Inv, Base, Attempts, Status
<1>6. Channel(i) /\ Quiet(i)
  BY <1>1, <1>2 DEF Inv, Channel, Hearts, Control, Quiet
<1>7. SwitchSent(i) /\ LimitSent(i) /\ IdleIsDone(i) /\ Limited(i)
  <2>1. i.swt # 1302
    OBVIOUS
  <2> QED
    BY <1>1, <1>2, <2>1 DEF Inv, SwitchSent, LimitSent, SendsOnWS, IdleIsDone, Pending, Limited
<1>8. Switched(i)
  <2>1. getBestForBinding(i) = getBestForBinding(c) /\ Transport(i) = Transport(c)
    BY <1>1 DEF getBestForBinding, Transport
  <2> QED
    BY <1>1, <2>1 DEF Inv, Switched
<1> QED
  BY <1>1, <1>3, <1>4, <1>5, <1>6, <1>7, <1>8 DEF Inv, Base

SwitchAnswered(k) ==
    TransportRegion([k EXCEPT !.swtAck = "none", !.swt = IF @ = 1302 THEN 1303 ELSE @])

LEMMA SwitchedStep ==
    ASSUME Inv(c), NEW j, j = SwitchAnswered(c)
    PROVE  Step(j, c)
<1> DEFINE s == IF c.swt = 1302 THEN 1303 ELSE c.swt
           d == [c EXCEPT !.swtAck = "none"]
           i == [d EXCEPT !.swt = s]
<1>1. j = TransportRegion(i)
  BY DEF SwitchAnswered, Inv, IsRecord, Fields
<1>2. s = IF c.swt = 1302 THEN 1303 ELSE c.swt
  OBVIOUS
<1> HIDE DEF s
<1>3. IsRecord(d) /\ Same(d, c, {"swtAck"})
  BY DEF Inv, IsRecord, Same, Fields
<1> HIDE DEF d
<1>4. IsRecord(i) /\ Same(i, d, {"swt"}) /\ i.swt = s
  BY <1>3 DEF IsRecord, Same, Fields
<1> HIDE DEF i
<1>5. Same(i, c, {"swtAck", "swt", "excused"}) /\ i.excused = c.excused
  BY <1>3, <1>4 DEF Same, Fields
<1>6. Inv(i) /\ i.m = c.m /\ i.status = c.status
  <2>1. c.swt # 1302 => i.swt = c.swt /\ i.excused = c.excused
    BY <1>2, <1>4, <1>5
  <2>2. c.swt = 1302 => i.swt = 1303 \/ (i.swt = 1301 /\ i.excused)
    BY <1>2, <1>4
  <2> QED
    BY <1>4, <1>5, <2>1, <2>2, AnsweredInv
<1> QED
  BY <1>1, <1>6, RegionStep

SwitchRefused(k) ==
    TransportRegion(IF k.swt = 1302
                      THEN [k EXCEPT !.swtAck = "none", !.swt = 1301, !.excused = TRUE]
                      ELSE [k EXCEPT !.swtAck = "none"])

LEMMA RefusedStep ==
    ASSUME Inv(c), NEW j, j = SwitchRefused(c)
    PROVE  Step(j, c)
<1> DEFINE d == [c EXCEPT !.swtAck = "none"]
           e == [d EXCEPT !.swt = 1301]
           h == [e EXCEPT !.excused = TRUE]
           i == IF c.swt = 1302 THEN h ELSE d
<1>1. j = TransportRegion(i)
  BY DEF SwitchRefused
<1>2. (c.swt = 1302 => i = h) /\ (c.swt # 1302 => i = d)
  OBVIOUS
<1> HIDE DEF i
<1>3. IsRecord(d) /\ Same(d, c, {"swtAck"})
  BY DEF Inv, IsRecord, Same, Fields
<1> HIDE DEF d
<1>4. IsRecord(e) /\ Same(e, d, {"swt"}) /\ e.swt = 1301
  BY <1>3 DEF IsRecord, Same, Fields
<1> HIDE DEF e
<1>5. IsRecord(h) /\ Same(h, e, {"excused"}) /\ h.excused = TRUE
  BY <1>4 DEF IsRecord, Same, Fields
<1> HIDE DEF h
<1>6. /\ Same(h, c, {"swtAck", "swt", "excused"}) /\ h.swt = 1301
      /\ Same(d, c, {"swtAck", "swt", "excused"}) /\ d.swt = c.swt /\ d.excused = c.excused
  BY <1>3, <1>4, <1>5 DEF Same, Fields
<1>7. Inv(i) /\ i.m = c.m /\ i.status = c.status
  <2>1. CASE c.swt = 1302
    <3>0. h.excused
      BY <1>5
    <3>1. Inv(h) /\ h.m = c.m /\ h.status = c.status
      BY <1>5, <1>6, <2>1, <3>0, AnsweredInv
    <3> QED
      BY <1>2, <2>1, <3>1
  <2>2. CASE c.swt # 1302
    <3>1. Inv(d) /\ d.m = c.m /\ d.status = c.status
      BY <1>3, <1>6, <2>2, AnsweredInv
    <3> QED
      BY <1>2, <2>2, <3>1
  <2> QED
    BY <2>1, <2>2
<1> QED
  BY <1>1, <1>7, RegionStep

(* The line of a reply restarts the keepalive timers, whatever was asked.  *)
LEMMA RegionKeeps ==
    ASSUME NEW k, IsRecord(k), Base(k), Channel(k), NEW j, j = TransportRegion(k)
    PROVE  /\ IsRecord(j) /\ Base(j) /\ Channel(j) /\ (SendsOnWS(j) <=> SendsOnWS(k))
           /\ Same(j, k, {"w_k", "ws_k", "hs_k", "timers"})
<1>1. CASE j = k
  BY <1>1 DEF Same
<1>2. CASE j # k
  <2>1. j = evtRestartKeepalive(k)
    BY <1>2 DEF TransportRegion
  <2>2. (k.w_k # 0 \/ k.ws_k # 0 \/ k.hs_k # 0) /\ Alive(j, k, 0)
    BY <1>2, <2>1, BaseStreams, RestartAlive
  <2>3. Base(j)
    BY <2>2, AliveBase
  <2>4. /\ IsRecord(j) /\ Same(j, k, {"w_k", "ws_k", "hs_k", "timers"})
        /\ (j.w_k = 0 <=> k.w_k = 0) /\ (j.ws_k = 0 <=> k.ws_k = 0)
        /\ \A t \in {"rhb", "ctrl"} : t \in j.timers <=> t \in k.timers
    BY <2>2 DEF Alive, Unit, KeepaliveUnit
  <2>5. SendsOnWS(j) <=> SendsOnWS(k)
    BY <2>4 DEF SendsOnWS, Same, Fields, None
  <2>6. /\ j.rhb = k.rhb /\ j.hs_m = k.hs_m /\ j.stray = k.stray /\ j.ctrl = k.ctrl
        /\ j.conns = k.conns /\ j.orphans = k.orphans
    BY <2>4 DEF Same, Fields
  <2>7. Channel(j)
    BY <2>4, <2>6 DEF Channel, Hearts, Control
  <2> QED
    BY <2>3, <2>4, <2>5, <2>7
<1> QED
  BY <1>1, <1>2

LEMMA LimitedStep ==
    ASSUME Inv(c), NEW j, j = evtBandwidthReply(c)
    PROVE  Step(j, c)
<1> DEFINE a == [c EXCEPT !.bwAck = "none"]
           r == TransportRegion(a)
           i == [r EXCEPT !.bw = 1200]
<1>1. (c.bw = 1202 => j = evtCheckBW(i)) /\ (c.bw # 1202 => j = r)
  BY DEF evtBandwidthReply
<1>2. IsRecord(a) /\ Same(a, c, {"bwAck"})
  BY DEF Inv, IsRecord, Same, Fields
<1> HIDE DEF a
<1>3. Base(a)
  <2>1. InRegions(a) /\ Timers(a) /\ Conns(a)
    BY <1>2 DEF Inv, Base, InRegions, Timers, Conns, Same, Fields
  <2>2. Parts(a) /\ Attempts(a) /\ Status(a)
    BY <1>2 DEF Inv, Base, Parts, Attempts, Status, Same, Fields
  <2> QED
    BY <2>1, <2>2 DEF Base
<1>4. Channel(a) /\ Quiet(a)
  BY <1>2 DEF Inv, Channel, Hearts, Control, Quiet, Same, Fields
<1>5. Switched(a) /\ Limited(a)
  <2> DEFINE F == {"bwAck"}
  <2>1. Same(a, c, F) /\ F \cap {"m", "tr", "h", "swt", "bw", "excused", "forced", "disabled",
                                 "bwReq", "bwOpt", "unmanaged"} = {}
    BY <1>2
  <2> HIDE DEF F
  <2> QED
    BY <2>1, Unsteered DEF Inv
<1>6. SwitchSent(a) /\ IdleIsDone(a)
  BY <1>2 DEF Inv, SwitchSent, SendsOnWS, IdleIsDone, Pending, Same, Fields
<1>7. a.m = c.m /\ a.status = c.status /\ a.bw = c.bw
  BY <1>2 DEF Same, Fields
<1>8. CASE c.bw # 1202
  <2>1. LimitSent(a)
    BY <1>7, <1>8 DEF LimitSent
  <2>2. Inv(a)
    BY <1>2, <1>3, <1>4, <1>5, <1>6, <2>1 DEF Inv
  <2>3. j = TransportRegion(a)
    BY <1>1, <1>8
  <2> QED
    BY <1>7, <2>2, <2>3, RegionStep
<1>9. CASE c.bw = 1202
  <2>1. /\ IsRecord(r) /\ Base(r) /\ Channel(r) /\ (SendsOnWS(r) <=> SendsOnWS(a))
        /\ Same(r, a, {"w_k", "ws_k", "hs_k", "timers"})
    BY <1>2, <1>3, <1>4, RegionKeeps
  <2> HIDE DEF r
  <2>2. IsRecord(i) /\ Same(i, r, {"bw"}) /\ i.bw = 1200
    BY <2>1 DEF IsRecord, Same, Fields
  <2> HIDE DEF i
  <2>3. c.m = 150 /\ a.m = 150 /\ r.m = 150 /\ r.bw = 1202 /\ r.status = c.status
    <3>1. c.m = 150
      BY <1>9 DEF Inv, Base, Parts
    <3> QED
      BY <1>7, <1>9, <2>1, <3>1 DEF Same, Fields
  <2>4. Base(i)
    <3>1. InRegions(i) /\ Timers(i) /\ Conns(i)
      BY <2>1, <2>2 DEF Base, InRegions, Timers, Conns, Same, Fields
    <3>2. Parts(i) /\ Attempts(i) /\ Status(i)
      BY <2>1, <2>2, <2>3 DEF Base, Parts, Attempts, Status, Same, Fields
    <3> QED
      BY <3>1, <3>2 DEF Base
  <2>5. Channel(i) /\ OneWay(i)
    BY <2>1, <2>2, <2>4, BaseOneWay DEF Channel, Hearts, Control, Same, Fields
  <2>6. /\ i.tr = a.tr /\ i.h = a.h /\ i.swt = a.swt /\ i.excused = a.excused
        /\ i.forced = a.forced /\ i.disabled = a.disabled /\ i.ctrl = a.ctrl /\ i.rhb = a.rhb
        /\ i.swtAck = a.swtAck /\ i.m = c.m
    BY <2>1, <2>2, <2>3 DEF Same, Fields
  <2>7. SendsOnWS(i) <=> SendsOnWS(r)
    BY <2>2 DEF SendsOnWS, Same, Fields
  <2>8. SwitchSent(i)
    BY <1>6, <2>1, <2>6, <2>7 DEF SwitchSent
  <2>9. i.ctrl # 1100 /\ i.rhb # 320 /\ i.swt \in {0, 1301, 1302, 1303}
    BY <1>4, <2>6 DEF Quiet
  <2>10. i.ctrl = 1101 => i.swt # 1302 /\ i.rhb # 324
    BY <1>6, <2>6 DEF IdleIsDone, Pending
  <2>11. j = evtCheckBW(i)
    BY <1>1, <1>9
  <2>12. /\ Steered(j, i) /\ j.bw \in {1201, 1202} /\ j.swt = i.swt /\ j.excused = i.excused
         /\ SwitchSent(j) /\ LimitSent(j) /\ Limited(j)
    BY <2>2, <2>5, <2>8, <2>9, <2>10, <2>11, CheckBWKeeps
  <2>13. Core(j, i) /\ Channel(j) /\ IdleIsDone(j) /\ j.ctrl # 1100 /\ j.rhb # 320
    BY <2>9, <2>12 DEF Steered
  <2>14. Base(j)
    BY <2>2, <2>4, <2>12, <2>13, CoreBase
  <2>15. Switched(j)
    <3>1. getBestForBinding(j) = getBestForBinding(i) /\ Transport(j) = Transport(i)
      BY <2>13, CoreWays
    <3>2. getBestForBinding(i) = getBestForBinding(a) /\ Transport(i) = Transport(a)
      BY <2>6 DEF getBestForBinding, Transport
    <3>3. j.tr = i.tr
      BY <2>13 DEF Core
    <3> QED
      BY <1>5, <2>6, <2>12, <3>1, <3>2, <3>3 DEF Switched
  <2>16. Quiet(j) /\ IsRecord(j) /\ j.m = c.m
    BY <2>6, <2>9, <2>12, <2>13 DEF Quiet, Core
  <2> QED
    BY <2>3, <2>12, <2>13, <2>14, <2>15, <2>16 DEF Step, Inv, Moves, Creates
<1> QED
  BY <1>8, <1>9

-----------------------------------------------------------------------------
(* Every step of the client.                                               *)
LEMMA InSession ==
    ASSUME NEW k, Inv(k), \/ Binding(k) \/ Bound(k) \/ Recovering(k) \/ k.tr \in {220, 230}
                          \/ SendsOnWS(k) \/ k.ctrl = 1102
    PROVE  k.m = 150
  BY DEF Inv, Base, Parts, Binding, Bound, Recovering, SendsOnWS, None

LEMMA EndStep ==
    ASSUME NEW k, Inv(k), k.m = 150, NEW s \in {111, 112, 113}
    PROVE  Step(EnterRetry(Leave(k), s), k) /\ Step(Terminate(k), k)
<1>1. Near(k, k)
  BY NearItself
<1> QED
  BY <1>1, RetryStep, TerminateStep

LEMMA RefusedCreation ==
    ASSUME NEW k, Inv(k), Creating(k)
    PROVE  /\ Step(EnterRetry(TearDown(k), 112), k) /\ Step(RetryTTL(TearDown(k)), k)
           /\ Step(Terminate(k), k)
<1>1. Near(k, k) /\ k.m # 150
  BY NearItself DEF Creating
<1> QED
  BY <1>1, RetryStep, RetryTTLStep, TerminateStep

LEMMA UnreachableStep ==
    ASSUME Inv(c), c.nr \in {1410, 1412}
    PROVE  Step([c EXCEPT !.nr = 1411], c)
<1> DEFINE i == [c EXCEPT !.nr = 1411]
<1>1. IsRecord(i) /\ Same(i, c, {"nr"}) /\ i.nr = 1411
  BY DEF Inv, IsRecord, Same, Fields
<1> HIDE DEF i
<1>2. Step(i, c)
  BY <1>1, NetworkStep
<1> QED
  BY <1>2 DEF i

LEMMA FailedChannelStep ==
    ASSUME Inv(c), c.ctrl = 1102, NEW j, j = CtrlPause(c)
    PROVE  Step(j, c)
<1>1. IsRecord(c) /\ Same(c, c, {"timers"})
  BY DEF Inv, Same
<1> QED
  BY <1>1, PauseStep

LEMMA TimeoutsStep ==
    ASSUME Inv(c), Timeouts
    PROVE  Step(c', c)
<1>1. ASSUME TransportTimeout PROVE Step(c', c)
  BY <1>1, TransportTimeoutStep DEF TransportTimeout
<1>2. ASSUME RetryTimeout PROVE Step(c', c)
  BY <1>2, RetryTimeoutStep DEF RetryTimeout
<1>3. ASSUME RecoveryTimeout PROVE Step(c', c)
  BY <1>3, RecoveryTimeoutStep DEF RecoveryTimeout
<1>4. ASSUME IdleTimeout PROVE Step(c', c)
  BY <1>4, IdleStep DEF IdleTimeout
<1>5. ASSUME PollingTimeout PROVE Step(c', c)
  BY <1>5, PollingStep DEF PollingTimeout
<1>6. ASSUME CtrlTimeout PROVE Step(c', c)
  BY <1>6, CtrlTimeoutStep DEF CtrlTimeout
<1>7. ASSUME RhbTimeout PROVE Step(c', c)
  BY <1>7, RhbStep DEF RhbTimeout
<1>8. ASSUME KeepaliveTimeout PROVE Step(c', c)
  BY <1>8, KeepaliveStep DEF KeepaliveTimeout
<1>9. ASSUME StalledTimeout PROVE Step(c', c)
  BY <1>9, StalledStep DEF StalledTimeout
<1>10. ASSUME ReconnectTimeout PROVE Step(c', c)
  BY <1>10, ReconnectStep DEF ReconnectTimeout
<1> QED
  BY <1>1, <1>2, <1>3, <1>4, <1>5, <1>6, <1>7, <1>8, <1>9, <1>10 DEF Timeouts

LEMMA LinesStep ==
    ASSUME Inv(c), Lines
    PROVE  Step(c', c)
<1>1. ASSUME WSOpen PROVE Step(c', c)
  BY <1>1, OpenStep DEF WSOpen
<1>2. ASSUME WSOK PROVE Step(c', c)
  BY <1>2, WSOKStep DEF WSOK
<1>3. ASSUME CONOK PROVE Step(c', c)
  <2>1. ASSUME Creating(c), c' = CONOK_Create(c) PROVE Step(c', c)
    <3>1. CASE c.m = 122
      BY <2>1, <3>1, CreatedWSStep
    <3>2. CASE c.m \in {130, 140}
      BY <2>1, <3>2, CreatedHTTPStep
    <3> QED
      BY <2>1, <3>1, <3>2 DEF Creating
  <2>2. ASSUME Binding(c), c' = CONOK_Bind(c) PROVE Step(c', c)
    BY <2>2, BoundStep
  <2> QED
    BY <1>3, <2>1, <2>2 DEF CONOK
<1>4. ASSUME CONERR PROVE Step(c', c)
  <2>1. ASSUME Creating(c),
               c' \in {EnterRetry(TearDown(c), 112), RetryTTL(TearDown(c)), Terminate(c)}
        PROVE  Step(c', c)
    BY <2>1, RefusedCreation
  <2>2. ASSUME Binding(c), c' \in {EnterRetry(Leave(c), 112), Terminate(c)} PROVE Step(c', c)
    BY <2>2, InSession, EndStep
  <2>3. ASSUME Recovering(c), c' \in {EnterRetry(Leave(c), 113), Terminate(c)} PROVE Step(c', c)
    BY <2>3, InSession, EndStep
  <2> QED
    BY <1>4, <2>1, <2>2, <2>3 DEF CONERR
<1>5. ASSUME END PROVE Step(c', c)
  <2>1. c.m = 150
    BY <1>5, InSession DEF END
  <2> QED
    BY <1>5, <2>1, EndStep DEF END
<1>6. ASSUME ERROR PROVE Step(c', c)
  BY <1>6, NearItself, TerminateStep DEF ERROR
<1>7. ASSUME PROG_mismatch PROVE Step(c', c)
  <2>1. c.m = 150
    BY <1>7, InSession DEF PROG_mismatch
  <2> QED
    BY <1>7, <2>1, EndStep DEF PROG_mismatch
<1>8. ASSUME LOOP PROVE Step(c', c)
  BY <1>8, LoopStep DEF LOOP
<1>9. ASSUME Line PROVE Step(c', c)
  BY <1>9, LineStep DEF Line
<1>10. ASSUME CLIENTIP PROVE Step(c', c)
  BY <1>10, AddressStep DEF CLIENTIP
<1>11. ASSUME CONS PROVE Step(c', c)
  BY <1>11, UnmanagedStep DEF CONS
<1>12. ASSUME SYNC PROVE Step(c', c)
  BY <1>12, SyncStep DEF SYNC
<1>13. ASSUME REQOK_switch PROVE Step(c', c)
  <2>1. c' = SwitchAnswered(c)
    BY <1>13 DEF REQOK_switch, SwitchAnswered
  <2> QED
    BY <2>1, SwitchedStep
<1>14. ASSUME REQERR_switch PROVE Step(c', c)
  <2>1. c' = SwitchRefused(c)
    BY <1>14 DEF REQERR_switch, SwitchRefused
  <2> QED
    BY <2>1, RefusedStep
<1>15. ASSUME REQOK_bandwidth PROVE Step(c', c)
  BY <1>15, LimitedStep DEF REQOK_bandwidth
<1>16. ASSUME REQERR_session PROVE Step(c', c)
  <2>1. c.m = 150
    BY <1>16, InSession DEF REQERR_session, CtrlReplies
  <2> QED
    BY <1>16, <2>1, EndStep DEF REQERR_session
<1> QED
  BY <1>1, <1>2, <1>3, <1>4, <1>5, <1>6, <1>7, <1>8, <1>9, <1>10, <1>11, <1>12, <1>13, <1>14,
     <1>15, <1>16 DEF Lines

LEMMA FailuresStep ==
    ASSUME Inv(c), Failures
    PROVE  Step(c', c)
<1>0. Step(Terminate(c), c)
  BY NearItself, TerminateStep
<1>1. ASSUME TransportError PROVE Step(c', c)
  BY <1>1, TransportErrorStep DEF TransportError
<1>2. ASSUME TransportFatalError PROVE Step(c', c)
  BY <1>0, <1>2 DEF TransportFatalError
<1>3. ASSUME CtrlDone PROVE Step(c', c)
  BY <1>3, CtrlDoneStep DEF CtrlDone
<1>4. ASSUME CtrlError PROVE Step(c', c)
  BY <1>4, FailedChannelStep DEF CtrlError
<1>5. ASSUME CtrlFatalError PROVE Step(c', c)
  BY <1>0, <1>5 DEF CtrlFatalError
<1> QED
  BY <1>1, <1>2, <1>3, <1>4, <1>5 DEF Failures

LEMMA ApplicationStep ==
    ASSUME Inv(c), Application
    PROVE  Step(c', c)
<1>1. ASSUME Connect PROVE Step(c', c)
  BY <1>1, ConnectStep DEF Connect
<1>2. ASSUME Disconnect PROVE Step(c', c)
  BY <1>2, NearItself, TerminateStep DEF Disconnect
<1>3. ASSUME SetForcedTransport PROVE Step(c', c)
  BY <1>3, ForcedStep DEF SetForcedTransport
<1>4. ASSUME SetRequestedMaxBandwidth PROVE Step(c', c)
  BY <1>4, BandwidthStep DEF SetRequestedMaxBandwidth
<1>5. ASSUME SetReverseHeartbeatInterval PROVE Step(c', c)
  BY <1>5, HeartbeatStep DEF SetReverseHeartbeatInterval
<1> QED
  BY <1>1, <1>2, <1>3, <1>4, <1>5 DEF Application

LEMMA PlatformStep ==
    ASSUME ~(SessionRecovery /\ Reachability), Inv(c), Platform
    PROVE  Step(c', c)
<1>1. ASSUME PageFrozen PROVE Step(c', c)
  BY <1>1, FrozenStep DEF PageFrozen
<1>2. ASSUME PageResumed PROVE Step(c', c)
  BY <1>2, ResumedStep DEF PageResumed
<1>3. ASSUME NetworkNotReachable PROVE Step(c', c)
  BY <1>3, UnreachableStep DEF NetworkNotReachable
<1>4. ASSUME NetworkReachable PROVE Step(c', c)
  BY <1>4, ReachableStep DEF NetworkReachable
<1> QED
  BY <1>1, <1>2, <1>3, <1>4 DEF Platform

LEMMA InitInv ==
    ASSUME Init
    PROVE  Inv(c)
<1>0. PICK forced \in Forced, bandwidth \in Bandwidths, heartbeat \in Heartbeats :
        c = [ m |-> 100, du |-> 20, tr |-> None, w_k |-> None,
              ws_m |-> None, ws_k |-> None, wp_m |-> None, wp_p |-> None,
              h |-> None, hs_m |-> None, hs_p |-> None, hs_k |-> None,
              hp_m |-> None, rec |-> None, ctrl |-> None, swt |-> None,
              bw |-> None, rhb |-> None, slw |-> None, nr |-> 1400,
              timers |-> {}, stray |-> {}, conns |-> {}, orphans |-> {},
              status |-> DISCONNECTED, sid |-> FALSE,
              suspended |-> FALSE, disabled |-> {},
              forced |-> forced, bwOpt |-> bandwidth, rhbOpt |-> heartbeat,
              bwReq |-> None, unmanaged |-> FALSE, bwAck |-> "none",
              swtAck |-> "none", excused |-> FALSE,
              rhbGranted |-> FALSE, attempts |-> 0, addressKnown |-> FALSE,
              installed |-> FALSE, frozen |-> FALSE, failed |-> FALSE ]
  BY DEF Init
<1>1. IsRecord(c)
  BY <1>0, OptionsAssumption DEF IsRecord, Fields, Statuses, None
<1>2. InRegions(c) /\ Timers(c) /\ Conns(c)
  BY <1>0 DEF InRegions, Timers, Conns, None
<1>3. Parts(c)
  BY <1>0 DEF Parts, None
<1>4. Attempts(c) /\ Status(c)
  BY <1>0, OptionsAssumption DEF Attempts, Status, None
<1>5. Channel(c) /\ Quiet(c)
  BY <1>0 DEF Channel, Hearts, Control, Quiet, None
<1>6. SwitchSent(c) /\ LimitSent(c) /\ IdleIsDone(c) /\ Switched(c) /\ Limited(c)
  BY <1>0 DEF SwitchSent, LimitSent, IdleIsDone, Switched, Limited, None
<1> QED
  BY <1>1, <1>2, <1>3, <1>4, <1>5, <1>6 DEF Inv, Base

LEMMA StepInv ==
    ASSUME ~(SessionRecovery /\ Reachability), Inv(c), [Next]_c
    PROVE  Step(c', c)
<1>1. CASE Next
  BY <1>1, TimeoutsStep, LinesStep, FailuresStep, ApplicationStep, PlatformStep DEF Next
<1>2. CASE c' = c
  BY <1>2, StepItself
<1> QED
  BY <1>1, <1>2

(* The inductive invariant.                                                *)
LEMMA Invariance ==
    ASSUME ~(SessionRecovery /\ Reachability)
    PROVE  Spec => []Inv(c)
<1>1. Inv(c) /\ [Next]_c => Inv(c)'
  <2> SUFFICES ASSUME Inv(c), [Next]_c PROVE Inv(c)'
    OBVIOUS
  <2>1. Inv(c')
    BY StepInv DEF Step
  <2> QED
    BY <2>1
<1> QED
  BY <1>1, InitInv, PTL DEF Spec

-----------------------------------------------------------------------------
(* What the runs check follows from the invariant.                         *)
LEMMA Typed ==
    ASSUME Inv(c)
    PROVE  TypeOK
<1>1. IsRecord(c) /\ InRegions(c) /\ Channel(c) /\ Quiet(c) /\ Attempts(c)
  BY DEF Inv, Base
<1>2. \A region \in DOMAIN Regions : c[region] \in Regions[region]
  <2>1. /\ c.m \in Regions.m /\ c.du \in Regions.du /\ c.tr \in Regions.tr /\ c.w_k \in Regions.w_k
        /\ c.ws_m \in Regions.ws_m /\ c.ws_k \in Regions.ws_k /\ c.wp_m \in Regions.wp_m
        /\ c.wp_p \in Regions.wp_p /\ c.h \in Regions.h /\ c.hs_m \in Regions.hs_m
    BY <1>1 DEF InRegions, Regions, None
  <2>2. /\ c.hs_p \in Regions.hs_p /\ c.hs_k \in Regions.hs_k /\ c.hp_m \in Regions.hp_m
        /\ c.rec \in Regions.rec /\ c.slw \in Regions.slw /\ c.nr \in Regions.nr
    BY <1>1 DEF InRegions, Regions, None
  <2>3. /\ c.ctrl \in Regions.ctrl /\ c.rhb \in Regions.rhb
        /\ c.swt \in Regions.swt /\ c.bw \in Regions.bw
    BY <1>1 DEF Channel, Hearts, Control, Quiet, Regions, None
  <2>4. DOMAIN Regions = {"m", "du", "tr", "w_k", "ws_m", "ws_k", "wp_m", "wp_p", "h", "hs_m",
                          "hs_p", "hs_k", "hp_m", "rec", "ctrl", "swt", "bw", "rhb", "slw", "nr"}
    BY DEF Regions
  <2> QED
    BY <2>1, <2>2, <2>3, <2>4
<1>3. c.attempts \in 0..MaxRecoveryAttempts
  BY <1>1, OptionsAssumption DEF IsRecord, Attempts
<1>4. \A flag \in {"sid", "suspended", "unmanaged", "excused", "rhbGranted", "addressKnown",
                   "installed", "frozen", "failed"} : c[flag] \in BOOLEAN
  BY <1>1 DEF IsRecord
<1> QED
  BY <1>1, <1>2, <1>3, <1>4 DEF IsRecord, TypeOK

LEMMA WaitsMatch ==
    ASSUME Inv(c)
    PROVE  \A t \in TimerNames \ {"rhb"} : t \in c.timers <=> t \in WaitTimer(c) \cup CtrlTimer(c)
<1>1. InRegions(c) /\ Timers(c) /\ Parts(c) /\ Control(c)
  BY DEF Inv, Base, Channel
<1>2. "ctrl" \in c.timers <=> "ctrl" \in CtrlTimer(c)
  BY <1>1 DEF Control, CtrlTimer
<1>3. CtrlTimer(c) \subseteq {"ctrl"}
  BY DEF CtrlTimer
<1> DEFINE Others == {"transport", "retry", "recovery", "keepalive", "stalled", "reconnect",
                      "idle", "polling"}
<1>4. WaitTimer(c) \subseteq Others /\ \A t \in Others : t \in c.timers <=> t \in WaitTimer(c)
  <2>1. CASE c.m # 150
    <3>1. c.tr = 0 /\ c.w_k = 0 /\ c.ws_m = 0 /\ c.ws_k = 0 /\ c.wp_m = 0 /\ c.wp_p = 0
          /\ c.hs_m = 0 /\ c.hs_k = 0 /\ c.hp_m = 0 /\ c.h = 0
      BY <1>1, <2>1 DEF Parts
    <3> QED
      BY <1>1, <2>1, <3>1 DEF WaitTimer, Timers, InRegions
  <2>2. CASE c.tr = 210
    <3>1. c.m = 150 /\ c.w_k \in {310, 311, 312} /\ c.ws_m = 0 /\ c.ws_k = 0 /\ c.wp_m = 0
          /\ c.wp_p = 0 /\ c.hs_m = 0 /\ c.hs_k = 0 /\ c.hp_m = 0 /\ c.h = 0
      BY <1>1, <2>2 DEF Parts, InRegions
    <3> QED
      BY <1>1, <2>2, <3>1 DEF WaitTimer, KeepaliveTimer, Timers
  <2>3. CASE c.tr \in {220, 230}
    <3>1. c.m = 150 /\ c.w_k = 0 /\ c.ws_m = 0 /\ c.ws_k = 0 /\ c.wp_m = 0
          /\ c.wp_p = 0 /\ c.hs_m = 0 /\ c.hs_k = 0 /\ c.hp_m = 0 /\ c.h = 0
      BY <1>1, <2>3 DEF Parts, InRegions
    <3> QED
      BY <1>1, <2>3, <3>1 DEF WaitTimer, Timers
  <2>4. CASE c.tr = 240
    <3>1. c.m = 150 /\ c.w_k = 0 /\ c.ws_m \in {500, 501, 502, 503} /\ c.wp_m = 0
          /\ c.wp_p = 0 /\ c.hs_m = 0 /\ c.hs_k = 0 /\ c.hp_m = 0 /\ c.h = 0
          /\ c.ws_k \in {0, 520, 521, 522} /\ (c.ws_k # 0 <=> c.ws_m = 503)
      BY <1>1, <2>4 DEF Parts, InRegions
    <3> QED
      BY <1>1, <2>4, <3>1 DEF WaitTimer, KeepaliveTimer, Timers
  <2>5. CASE c.tr = 250
    <3>1. c.m = 150 /\ c.w_k = 0 /\ c.ws_m = 0 /\ c.ws_k = 0 /\ c.wp_m \in {600, 601, 602}
          /\ c.hs_m = 0 /\ c.hs_k = 0 /\ c.hp_m = 0 /\ c.h = 0
          /\ c.wp_p \in {0, 610, 611, 612, 613} /\ (c.wp_p # 0 <=> c.wp_m = 602)
      BY <1>1, <2>5 DEF Parts, InRegions
    <3> QED
      BY <1>1, <2>5, <3>1 DEF WaitTimer, Timers
  <2>6. CASE c.tr = 260
    <3>1. c.m = 150 /\ c.w_k = 0 /\ c.ws_m = 0 /\ c.ws_k = 0 /\ c.wp_m = 0 /\ c.wp_p = 0
          /\ c.hs_m = 0 /\ c.hs_k = 0 /\ c.hp_m = 0 /\ c.h = 0 /\ c.rec \in {1000, 1001, 1003}
      BY <1>1, <2>6 DEF Parts, InRegions
    <3> QED
      BY <1>1, <2>6, <3>1 DEF WaitTimer, Timers
  <2>7. CASE c.tr = 270 /\ c.h = 710
    <3>1. c.m = 150 /\ c.w_k = 0 /\ c.ws_m = 0 /\ c.ws_k = 0 /\ c.wp_m = 0 /\ c.wp_p = 0
          /\ c.hs_m \in {800, 801, 802} /\ c.hs_k \in {0, 820, 821, 822} /\ c.hp_m = 0
          /\ (c.hs_k # 0 <=> c.hs_m = 802)
      BY <1>1, <2>7 DEF Parts, InRegions
    <3> QED
      BY <1>1, <2>7, <3>1 DEF WaitTimer, KeepaliveTimer, Timers
  <2>8. CASE c.tr = 270 /\ c.h = 720
    <3>1. c.m = 150 /\ c.w_k = 0 /\ c.ws_m = 0 /\ c.ws_k = 0 /\ c.wp_m = 0 /\ c.wp_p = 0
          /\ c.hs_m = 0 /\ c.hs_k = 0 /\ c.hp_m \in {900, 901, 902, 903}
      BY <1>1, <2>8 DEF Parts, InRegions
    <3> QED
      BY <1>1, <2>8, <3>1 DEF WaitTimer, Timers
  <2> QED
    BY <1>1, <2>1, <2>2, <2>3, <2>4, <2>5, <2>6, <2>7, <2>8 DEF Parts, InRegions
<1>5. TimerNames \ {"rhb"} = Others \cup {"ctrl"} /\ "ctrl" \notin Others
  BY DEF TimerNames
<1> HIDE DEF Others
<1> QED
  BY <1>2, <1>3, <1>4, <1>5

LEMMA TimersMatch ==
    ASSUME Inv(c)
    PROVE  TimersMatchState
<1>1. IsRecord(c) /\ Hearts(c) /\ Parts(c)
  BY DEF Inv, Base, Channel
<1>2. c.timers \ {"rhb"} = WaitTimer(c) \cup CtrlTimer(c)
  <2>1. WaitTimer(c) \cup CtrlTimer(c) \subseteq TimerNames \ {"rhb"}
    BY DEF WaitTimer, CtrlTimer, KeepaliveTimer, TimerNames
  <2>2. c.timers \subseteq TimerNames
    BY <1>1 DEF IsRecord
  <2> QED
    BY <2>1, <2>2, WaitsMatch
<1>3. RhbTimer(c) = IF c.rhb \in {322, 323} THEN {"rhb"} ELSE {}
  BY DEF RhbTimer
<1> QED
  BY <1>1, <1>2, <1>3 DEF Hearts, TimersMatchState, None

LEMMA ConnsMatch ==
    ASSUME Inv(c)
    PROVE  ConnsMatchState
<1>1. IsRecord(c) /\ Conns(c) /\ Control(c)
  BY DEF Inv, Base, Channel
<1>2. c.conns \subseteq {"ws", "http", "ctrl"}
  BY <1>1 DEF IsRecord, Kinds
<1>3. /\ "ws" \in c.conns <=> "ws" \in ExpectedConns(c)
      /\ "http" \in c.conns <=> "http" \in ExpectedConns(c)
      /\ "ctrl" \in c.conns <=> "ctrl" \in ExpectedConns(c)
  BY <1>1 DEF Conns, Control, ExpectedConns
<1>4. ExpectedConns(c) \subseteq {"ws", "http", "ctrl"}
  BY DEF ExpectedConns
<1>5. c.conns = ExpectedConns(c)
  BY <1>2, <1>3, <1>4
<1> QED
  BY <1>1, <1>5 DEF Control, ConnsMatchState

LEMMA RegionsMatch ==
    ASSUME Inv(c)
    PROVE  RegionsMatchTransport
  BY DEF Inv, Base, Parts, RegionsMatchTransport, None

LEMMA StatusMoves ==
    ASSUME Inv(c), Step(c', c)
    PROVE  /\ c'.status \in Connected =>
                 \/ c.status \in Connected \cup {TRYING_RECOVERY}
                 \/ c.status = CONNECTING /\ c'.status \in {WS_STREAMING, STREAM_SENSING}
           /\ c'.status = TRYING_RECOVERY => c.status \in Connected \cup {TRYING_RECOVERY}
           /\ c'.status = CONNECTING => c.status \in {DISCONNECTED, WILL_RETRY, CONNECTING}
<1>1. Status(c) /\ Status(c') /\ InRegions(c) /\ InRegions(c') /\ Moves(c', c)
  BY DEF Step, Inv, Base
<1> DEFINE Running == Connected \cup {TRYING_RECOVERY}
<1>2. /\ {DISCONNECTED, WILL_RETRY, CONNECTING} \cap Running = {}
      /\ CONNECTING \notin {DISCONNECTED, WILL_RETRY}
      /\ TRYING_RECOVERY \notin {WS_STREAMING, STREAM_SENSING}
  BY DEF Connected, DISCONNECTED, WILL_RETRY, CONNECTING, TRYING_RECOVERY, STREAM_SENSING,
         WS_STREAMING, HTTP_STREAMING, WS_POLLING, HTTP_POLLING
<1>3. c.m = 150 => c.status \in Running
  BY <1>1 DEF Status
<1>4. c.m # 150 => c.status \in {DISCONNECTED, WILL_RETRY, CONNECTING}
  BY <1>1 DEF Status, InRegions
<1>5. c'.m = 150 => c'.status \in Running
  BY <1>1 DEF Status
<1>6. /\ c'.m # 150 => c'.status \in {DISCONNECTED, WILL_RETRY, CONNECTING}
      /\ c'.m \notin Creates \cup {150} => c'.status \in {DISCONNECTED, WILL_RETRY}
  BY <1>1 DEF Status, InRegions, Creates
<1>7. /\ c'.m = 150 =>
            c.m = 150 \/ (c.status = CONNECTING /\ c'.status \in {WS_STREAMING, STREAM_SENSING})
      /\ c'.m \in Creates => c.m # 150
  BY <1>1 DEF Moves
<1>8. ASSUME c'.status \in Running
      PROVE  \/ c.status \in Running
             \/ c.status = CONNECTING /\ c'.status \in {WS_STREAMING, STREAM_SENSING}
  <2>1. c'.m = 150
    BY <1>2, <1>6, <1>8
  <2> QED
    BY <2>1, <1>3, <1>7
<1>9. ASSUME c'.status = CONNECTING
      PROVE  c.status \in {DISCONNECTED, WILL_RETRY, CONNECTING}
  <2>1. c'.status \notin Running /\ c'.status \notin {DISCONNECTED, WILL_RETRY}
    BY <1>2, <1>9
  <2>2. c'.m # 150
    BY <2>1, <1>5
  <2>3. c'.m \in Creates
    BY <2>1, <2>2, <1>6
  <2> QED
    BY <2>3, <1>4, <1>7
<1> QED
  BY <1>2, <1>8, <1>9

-----------------------------------------------------------------------------
(* The theorems are about the clients in which recovery and the reports on *)
(* the network do not meet: recovery is off, or the platform does not      *)
(* report whether the server can be reached (of this client's platforms    *)
(* only the web page does).  Where both are there, a recovery that waits   *)
(* for its pause survives the session it was for, as the run StaleRecovery *)
(* shows, and no invariant over the regions can hold.                      *)

(* Whatever the session went through, its timers and its connections are   *)
(* exactly those of the state it is in and its regions agree with its      *)
(* transport: no exit leaves a timer running or a connection open.         *)
THEOREM NothingIsLeftBehind ==
    ASSUME ~(SessionRecovery /\ Reachability)
    PROVE  Spec => []LeavesNothingBehind
<1>1. Inv(c) => LeavesNothingBehind
  BY Typed, TimersMatch, ConnsMatch, RegionsMatch DEF LeavesNothingBehind
<1> QED
  BY <1>1, Invariance, PTL

(* A session that no switch is about to move is on the best transport that *)
(* the options and the failures met so far leave it.                       *)
THEOREM TransportSettles ==
    ASSUME ~(SessionRecovery /\ Reachability)
    PROVE  Spec => []SettledTransportIsBest
<1>1. Inv(c) => SettledTransportIsBest
  BY DEF Inv, Switched, SettledTransportIsBest
<1> QED
  BY <1>1, Invariance, PTL

(* No control request, and no heartbeat, waits while its channel is free.  *)
THEOREM RequestsAreSent ==
    ASSUME ~(SessionRecovery /\ Reachability)
    PROVE  Spec => []PendingIsSent
<1>1. Inv(c) => PendingIsSent
  BY DEF Inv, SwitchSent, LimitSent, IdleIsDone, PendingIsSent
<1> QED
  BY <1>1, Invariance, PTL

(* The limit that the server was last asked for is the one that the        *)
(* application wants, whenever no request about it is under way.           *)
THEOREM LimitConverges ==
    ASSUME ~(SessionRecovery /\ Reachability)
    PROVE  Spec => []BandwidthConverges
<1>1. Inv(c) => BandwidthConverges
  BY DEF Inv, Limited, BandwidthConverges
<1> QED
  BY <1>1, Invariance, PTL

(* The order in which a ClientListener can be told of the statuses.        *)
THEOREM StatusesFollow ==
    ASSUME ~(SessionRecovery /\ Reachability)
    PROVE  Spec => StatusTransitions
<1> DEFINE Told ==
    /\ c'.status \in Connected =>
          \/ c.status \in Connected \cup {TRYING_RECOVERY}
          \/ c.status = CONNECTING /\ c'.status \in {WS_STREAMING, STREAM_SENSING}
    /\ c'.status = TRYING_RECOVERY => c.status \in Connected \cup {TRYING_RECOVERY}
    /\ c'.status = CONNECTING => c.status \in {DISCONNECTED, WILL_RETRY, CONNECTING}
<1>1. ASSUME Inv(c), [Next]_c PROVE Told
  BY <1>1, StepInv, StatusMoves
<1>2. Inv(c) /\ [Next]_c => [Told]_c
  BY <1>1
<1> HIDE DEF Told
<1>3. Spec => [][Told]_c
  BY <1>2, Invariance, PTL DEF Spec
<1> USE DEF Told
<1> QED
  BY <1>3 DEF StatusTransitions
=============================================================================
