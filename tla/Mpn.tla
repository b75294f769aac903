-------------------------------- MODULE Mpn --------------------------------
(***************************************************************************)
(* Mobile push: the registration of a device (MpnClientMachine), the push  *)
(* subscriptions (MpnSubscriptionManager) and the special item SUBS that   *)
(* lists those that the server has, whoever made them.                     *)
(*                                                                         *)
(* A handler runs under the lock of the client and is one step: an         *)
(* operator of this module takes the state of the client and returns the   *)
(* next one, with the requests it sends.  Three streams come back and are  *)
(* not ordered with one another: the replies to requests, the push         *)
(* notifications (MPNREG, MPNOK, MPNDEL), and the updates of the special   *)
(* item, which its listener gets on the thread of the user, each status    *)
(* from the second level, some time after the key.                         *)
(*                                                                         *)
(* Not modelled: the item DEV and the states that only relay (suspended    *)
(* device, TRIGGERED), and the properties that are shown but not sent.     *)
(***************************************************************************)
EXTENDS Positions

CONSTANTS
    MaxDevices,     \* bound: calls of registerForMpn, each with a token of its own
    Existing,       \* push subscriptions that the server has from the past
    MaxSubscribes,  \* bound: calls of subscribeMpn
    MaxManagers,    \* bound: managers at the same time
    MaxEvents,      \* bound: other calls of the application, connections and
                    \* sessions lost, devices changed, requests and items refused
    Avoided         \* situations left out, in which the client is known to fail

ASSUME MpnAssumption ==
    /\ {MaxDevices, MaxSubscribes, MaxManagers, MaxEvents} \subseteq Nat
    /\ Existing \subseteq Nat /\ IsFiniteSet(Existing) /\ Existing \cap 1..MaxSubscribes = {}
    /\ Avoided \subseteq {"stale_registration", "late_id", "device_lost", "unlisted"}

VARIABLES
    c,          \* the client
    conn,       \* "off", "retry" no session, "down" a session with no channel, "up"
    server,     \* token and device it knows, its push subscriptions (values by
                \* id), the subIds activated and the token registered in this session
    push,       \* notifications on their way
    used        \* how much of each bound is used

vars == <<c, conn, server, push, used>>

None == 0
Parts == {"format", "trigger"}
NoValues == [part \in Parts |-> None]

(* A manager: m, uu, ct and ab are the states of the code; upd[part] is    *)
(* s20..s23 (s30..s33) less 20 (30); req and cur are what was requested    *)
(* last and what was put in the last pn_reconf; id is the subId until the  *)
(* server gives one; app: not made by the server.                          *)
Manager(m, id, app) ==
    [m |-> m, uu |-> 10, ct |-> None, ab |-> None, upd |-> NoValues, req |-> NoValues,
     cur |-> NoValues, id |-> id, app |-> app]

mpnSubId(mgr) == IF mgr.m \in {44, 45} THEN mgr.id ELSE None
isPending(mgr) == mgr.m = 42 \/ mgr.ct \in {72, 73, 74}

InOrder(S) == [r \in 1..Cardinality(S) |-> Nth(S, r)]

(* What the managers are told, and what the server sends: an id (if any).  *)
Item(kind, id) == [kind |-> kind, id |-> id]

Becomes(s, n, mgr) == [s EXCEPT !.mgr[n] = mgr]

exists(s, id) == \E n \in DOMAIN s.mgr : mpnSubId(s.mgr[n]) = id

(* getMpnSubscriptions: those with status SUBSCRIBED.                      *)
Listed(s) == {s.mgr[n].id : n \in {k \in DOMAIN s.mgr : s.mgr[k].m = 44}}

fireOnSubscriptionsUpdated(s) == [s EXCEPT !.listed = Listed(s)]

-----------------------------------------------------------------------------
(* Requests.  A request is known by its last number: the reply to an       *)
(* earlier copy is ignored.                                                *)

Request(s, kind, n) ==
    [kind |-> kind, n |-> n, last |-> TRUE, dev |-> s.id, token |-> s.device,
     id |-> IF n = None THEN None ELSE s.mgr[n].id,
     values |-> IF n = None THEN NoValues ELSE s.mgr[n].cur,
     part |-> IF kind # "configure" THEN "none"
              ELSE IF s.mgr[n].ct = 74 THEN "format" ELSE "trigger"]

SameRequest(a, b) == a.kind = b.kind /\ a.n = b.n

(* A batch of requests, different from one another.                        *)
encode(s, reqs) ==
    LET Replaced(req) == \E j \in DOMAIN reqs : SameRequest(reqs[j], req)
    IN [s EXCEPT !.out = [i \in DOMAIN s.out |->
                             [s.out[i] EXCEPT !.last = @ /\ ~Replaced(s.out[i])]] \o reqs,
                 !.replies = {r \in @ : ~Replaced(r)},
                 !.failed = @ \/ (s.id = None
                                  /\ \E j \in DOMAIN reqs : reqs[j].kind # "register")]

evtSendControl(s, req) == IF s.up THEN encode(s, <<req>>) ELSE s

ManagerRequest(s, n) ==
    Request(s, IF s.mgr[n].m = 42 THEN "activate"
               ELSE IF s.mgr[n].ct = 72 THEN "deactivate" ELSE "configure", n)

isPendingRegister(s) == s.m \in {403, 406} \/ s.tk = 453

getPendingControls(s) ==
    LET If(cond, req) == IF cond THEN <<req>> ELSE <<>>
        ns == InOrder({n \in DOMAIN s.mgr : isPending(s.mgr[n])})
    IN If(isPendingRegister(s), Request(s, "register", None))
       \o [i \in DOMAIN ns |-> ManagerRequest(s, ns[i])]
       \o If(s.ft = 432, Request(s, "filter", None))
       \o If(s.bg = 442, Request(s, "badge", None))

evtSendPendingControls(s) == encode([s EXCEPT !.up = TRUE], getPendingControls(s))

-----------------------------------------------------------------------------
(* MpnSubscriptionManager                                                  *)

finalize(s, n) ==
    [s EXCEPT !.mgr = [k \in DOMAIN s.mgr \ {n} |-> s.mgr[k]],
              !.replies = {r \in s.replies : r.n # n},
              !.out = [i \in DOMAIN s.out |-> [s.out[i] EXCEPT !.last = @ /\ s.out[i].n # n]]]

Unsubscribed(s, n) == fireOnSubscriptionsUpdated(finalize(s, n))

Sent(s, n) == evtSendControl(s, ManagerRequest(s, n))

(* What is next for a subscription that is confirmed (s70).                *)
ChangePart(mgr, part, ct) ==
    [mgr EXCEPT !.ct = ct, !.upd[part] = 2, !.cur[part] = mgr.req[part]]
Checked(mgr) ==
    CASE mgr.uu = 11 -> [mgr EXCEPT !.ct = 72]
      [] mgr.uu # 11 /\ mgr.upd["format"] = 1 -> ChangePart(mgr, "format", 74)
      [] mgr.uu # 11 /\ mgr.upd["format"] # 1 /\ mgr.upd["trigger"] = 1 ->
             ChangePart(mgr, "trigger", 73)
      [] OTHER -> [mgr EXCEPT !.ct = 71]
evtCheck(s, n, mgr) ==
    LET t == Becomes(s, n, Checked(mgr))
    IN IF Checked(mgr).ct = 71 THEN t ELSE Sent(t, n)

CheckIfIdle(s, n, mgr) == IF mgr.ct = 71 THEN evtCheck(s, n, mgr) ELSE Becomes(s, n, mgr)

evtExtMpnUnsubscribe(s, n) ==
    IF s.mgr[n].m = 41 THEN finalize(s, n)
    ELSE CheckIfIdle(s, n, [s.mgr[n] EXCEPT !.uu = 11])

evtExtMpnSet(s, n, part, value) ==
    LET next(u) == IF u \in {0, 2} THEN u + 1 ELSE u
    IN CheckIfIdle(s, n, [s.mgr[n] EXCEPT !.req[part] = value, !.upd[part] = next(@)])

(* The listener is told that these modifications are not made.             *)
Cleared(f, parts) == [part \in Parts |-> IF part \in parts THEN None ELSE f[part]]
ModificationError(mgr, parts) ==
    [mgr EXCEPT !.upd = Cleared(@, parts), !.req = Cleared(@, parts), !.cur = Cleared(@, parts)]

Aborted(mgr) ==
    LET quiet == ModificationError(mgr, {part \in Parts : mgr.upd[part] # 0})
    IN [quiet EXCEPT !.ab = 81, !.ct = 76, !.uu = IF @ = 11 THEN 12 ELSE @]

(* Fault: a push subscription does not wait for the next session. *)
evtAbort_Kept(s, n) == s
evtAbort(s, n) ==
    CASE s.mgr[n].m \in {41, 42, 43} -> finalize(s, n)
      [] s.mgr[n].m = 44 /\ s.mgr[n].ct # 76 -> Becomes(s, n, Aborted(s.mgr[n]))
      [] OTHER -> s

evtDeviceActive(s, n) ==
    IF s.mgr[n].m = 41 THEN Sent(Becomes(s, n, [s.mgr[n] EXCEPT !.m = 42]), n) ELSE s

Subscribed(mgr) == [mgr EXCEPT !.m = 44, !.ab = 80]

evtMPNOK(s, n) ==
    LET mgr == Subscribed(s.mgr[n])
    IN IF s.mgr[n].m \in {42, 43}
         THEN evtCheck(fireOnSubscriptionsUpdated(Becomes(s, n, mgr)), n, mgr)
         ELSE s

evtMPNDEL(s, n) == IF s.mgr[n].ct = 72 THEN Unsubscribed(s, n) ELSE s

(* DELETE, an update with the status (STATUS, always ACTIVE) or without.   *)
evtMpnUpdate(s, n, kind) ==
    LET mgr == s.mgr[n] IN
    CASE mgr.m = 44 /\ kind = "DELETE" -> Unsubscribed(s, n)
      [] mgr.m = 45 /\ kind = "STATUS" -> evtCheck(s, n, Subscribed(mgr))
      [] mgr.m = 44 /\ kind # "DELETE" /\ mgr.ab = 81 ->
             IF mgr.ct = 76 THEN evtCheck(s, n, Subscribed(mgr))
             ELSE Becomes(s, n, Subscribed(mgr))
      [] OTHER -> s

(* Fault: what the snapshot does not list is kept. *)
evtMpnEOS_Keeps(s, n) == s
evtMpnEOS(s, n) == IF s.mgr[n].ab = 81 THEN Unsubscribed(s, n) ELSE s

(* A reply to a pn_reconf: the part sent, which was changed meanwhile (3)  *)
(* or not (2), and then the control region.                                *)
PartAnswered(mgr, ok) ==
    LET parts == {part \in Parts : mgr.upd[part] = 2}
        after == IF ok THEN [mgr EXCEPT !.upd = Cleared(@, parts)] ELSE ModificationError(mgr, parts)
    IN [after EXCEPT !.upd = [part \in Parts |-> IF mgr.upd[part] = 3 THEN 1 ELSE @[part]]]
Configured(s, n, ok) ==
    LET mgr == PartAnswered(s.mgr[n], ok)
    IN IF mgr.ct \in {73, 74} THEN evtCheck(s, n, mgr) ELSE Becomes(s, n, mgr)

ManagerREQOK(s, r) ==
    LET mgr == s.mgr[r.n] IN
    CASE r.kind = "activate" /\ mgr.m = 42    -> Becomes(s, r.n, [mgr EXCEPT !.m = 43])
      [] r.kind = "deactivate" /\ mgr.ct = 72 -> Unsubscribed(s, r.n)
      [] r.kind = "configure"                 -> Configured(s, r.n, TRUE)
      [] OTHER -> s

UnsubscribeFailed(mgr) == [mgr EXCEPT !.uu = IF @ = 11 THEN 12 ELSE @]

ManagerREQERR(s, r) ==
    LET mgr == s.mgr[r.n] IN
    CASE r.kind = "activate" /\ mgr.m = 42    -> finalize(s, r.n)
      [] r.kind = "deactivate" /\ mgr.ct = 72 -> evtCheck(s, r.n, UnsubscribeFailed(mgr))
      [] r.kind = "deactivate" /\ mgr.ct # 72 -> Becomes(s, r.n, UnsubscribeFailed(mgr))
      [] r.kind = "configure"                 -> Configured(s, r.n, FALSE)
      [] OTHER -> s

(* One manager after the other is told what concerns it.                   *)
Hears(s, n, msg) ==
    CASE msg.kind = "ACTIVE" -> evtDeviceActive(s, n)
      [] msg.kind = "ABORT"  -> evtAbort(s, n)
      [] msg.kind = "EOS"    -> evtMpnEOS(s, n)
      [] msg.kind = "OK" /\ s.mgr[n].app /\ s.mgr[n].id = msg.id -> evtMPNOK(s, n)
      [] msg.kind = "DEL" /\ mpnSubId(s.mgr[n]) = msg.id          -> evtMPNDEL(s, n)
      [] msg.kind \in {"ADD", "STATUS", "DELETE"} /\ mpnSubId(s.mgr[n]) = msg.id ->
             evtMpnUpdate(s, n, msg.kind)
      [] OTHER -> s

EachManager(s, msg) ==
    LET ns == InOrder(DOMAIN s.mgr)
        told[k \in 0..Len(ns)] == IF k = 0 THEN s ELSE Hears(told[k - 1], ns[k], msg)
    IN told[Len(ns)]

-----------------------------------------------------------------------------
(* MpnClientMachine: the device                                            *)

NoItem == [state |-> "none", queue |-> <<>>, second |-> {}]

(* doRemoveMpnSpecialListeners, genUnsubscribeMpnSpecialItems and the      *)
(* regions of an active device.                                            *)
LeaveActive(s, m) ==
    [s EXCEPT !.m = m, !.tk = None, !.sbs = None, !.ft = None, !.bg = None, !.item = NoItem]

doResetMpnDevice(s) ==
    [s EXCEPT !.m = 401, !.id = None, !.token = None, !.snapshot = {}, !.filters = 0,
              !.badge = FALSE]

doRegisterMpnDevice(s) == [s EXCEPT !.device = Head(s.candidates), !.candidates = Tail(@)]

Register(s) == evtSendControl(s, Request(s, "register", None))

evtMpnCheckNext(s) ==
    LET next == doRegisterMpnDevice(s) IN
    CASE s.m \in {402, 408} /\ s.candidates = <<>> -> doResetMpnDevice(s)
      [] s.m = 402 /\ s.candidates # <<>> -> Register([next EXCEPT !.m = 403])
      [] s.m = 408 /\ s.candidates # <<>> -> Register([next EXCEPT !.m = 406])
      [] s.tk = 452 /\ s.candidates = <<>> -> doResetMpnDevice(LeaveActive(s, 401))
      [] s.tk = 452 /\ s.candidates # <<>> -> Register([next EXCEPT !.tk = 453])
      [] OTHER -> s

(* Fault: what was queued while the device was being registered waits for  *)
(* the next call of registerForMpn.                                        *)
evtMpnCheckPending_Later(s) == IF s.tk = 450 THEN [s EXCEPT !.tk = 451] ELSE s

evtMpnCheckPending(s) ==
    CASE s.tk # 450                        -> s
      [] s.tk = 450 /\ s.candidates = <<>> -> [s EXCEPT !.tk = 451]
      [] s.tk = 450 /\ s.candidates # <<>> -> evtMpnCheckNext([s EXCEPT !.tk = 452])

evtMpnCheckFilter(s) ==
    CASE s.ft # 430                   -> s
      [] s.ft = 430 /\ s.filters = 0  -> [s EXCEPT !.ft = 431]
      [] s.ft = 430 /\ s.filters > 0  ->
             LET t == [s EXCEPT !.ft = 432] IN evtSendControl(t, Request(t, "filter", None))

evtMpnCheckReset(s) ==
    CASE s.bg # 440             -> s
      [] s.bg = 440 /\ ~s.badge -> [s EXCEPT !.bg = 441]
      [] s.bg = 440 /\ s.badge  ->
             LET t == [s EXCEPT !.bg = 442] IN evtSendControl(t, Request(t, "badge", None))

Activated(s, dev) ==
    [s EXCEPT !.id = dev, !.token = s.device, !.m = 405, !.sbs = 420, !.ft = 430,
              !.bg = 440, !.tk = 450]

evtSUBS_Init(s) == [s EXCEPT !.snapshot = {}, !.sbs = 421]

BecomeActive(s, dev) ==
    LET active == EachManager(Activated(s, dev), Item("ACTIVE", None))
        asked == [active EXCEPT !.item = [NoItem EXCEPT !.state = "asked"]]
    IN evtMpnCheckReset(evtMpnCheckFilter(evtSUBS_Init(evtMpnCheckPending(asked))))

(* Fault: a refresh that is over does not store its token. *)
evtMPNREG_Stale(s, dev) ==
    CASE s.m \in {403, 404}                  -> BecomeActive(s, dev)
      [] s.m \in {406, 407} /\ dev = s.id    -> BecomeActive(s, dev)
      [] s.m \in {406, 407} /\ dev # s.id    -> evtMpnCheckNext([s EXCEPT !.m = 408])
      [] s.tk \in {453, 454} /\ dev = s.id   -> evtMpnCheckPending([s EXCEPT !.tk = 450])
      [] s.tk \in {453, 454} /\ dev # s.id   -> evtMpnCheckNext([s EXCEPT !.tk = 452])
      [] OTHER -> s

evtMPNREG(s, dev) ==
    CASE s.m \in {403, 404}                  -> BecomeActive(s, dev)
      [] s.m \in {406, 407} /\ dev = s.id    -> BecomeActive(s, dev)
      [] s.m \in {406, 407} /\ dev # s.id    -> evtMpnCheckNext([s EXCEPT !.m = 408])
      [] s.tk \in {453, 454} /\ dev = s.id   ->
             evtMpnCheckPending([s EXCEPT !.token = s.device, !.tk = 450])
      [] s.tk \in {453, 454} /\ dev # s.id   -> evtMpnCheckNext([s EXCEPT !.tk = 452])
      [] OTHER -> s

DeviceREQOK(s) ==
    CASE s.m = 403   -> [s EXCEPT !.m = 404]
      [] s.m = 406   -> [s EXCEPT !.m = 407]
      [] s.tk = 453  -> [s EXCEPT !.tk = 454]
      [] OTHER -> s

DeviceREQERR(s) ==
    CASE s.m = 403   -> evtMpnCheckNext([s EXCEPT !.m = 402])
      [] s.m = 406   -> evtMpnCheckNext([s EXCEPT !.m = 408])
      [] s.tk = 453  -> evtMpnCheckNext([s EXCEPT !.tk = 452])
      [] OTHER -> s

FilterDone(s) ==
    IF s.ft = 432 THEN evtMpnCheckFilter([s EXCEPT !.ft = 430, !.filters = @ - 1]) ELSE s
BadgeDone(s) ==
    IF s.bg = 442 THEN evtMpnCheckReset([s EXCEPT !.bg = 440, !.badge = FALSE]) ELSE s

evtReply(s, r) ==
    CASE r.kind = "register" -> IF r.ok THEN DeviceREQOK(s) ELSE DeviceREQERR(s)
      [] r.kind = "filter"   -> FilterDone(s)
      [] r.kind = "badge"    -> BadgeDone(s)
      [] OTHER               -> IF r.ok THEN ManagerREQOK(s, r) ELSE ManagerREQERR(s, r)

evtRetry_MpnRegion(s) ==
    CASE s.m \in {403, 404} -> [s EXCEPT !.m = 403]
      [] s.m \in {406, 407} -> [s EXCEPT !.m = 406]
      [] s.m = 405          -> LeaveActive(s, 406)
      [] OTHER              -> s

evtTerminate_MpnRegion(s) ==
    IF s.m \in 403..407 THEN doResetMpnDevice(LeaveActive(s, 401)) ELSE s

evtMpnError(s) == IF s.m = 405 THEN doResetMpnDevice(LeaveActive(s, 401)) ELSE s

-----------------------------------------------------------------------------
(* MpnClientMachine: the special item                                      *)

FreeNumbers(s) == (1..MaxManagers) \ DOMAIN s.mgr
FreeNumber(s) == Nth(FreeNumbers(s), 1)
AddManager(s, mgr) ==
    LET n == FreeNumber(s)
    IN [s EXCEPT !.mgr = [k \in DOMAIN s.mgr \cup {n} |-> IF k = n THEN mgr ELSE s.mgr[k]]]

genSUBS_update(s, id, kind) == EachManager(s, Item(kind, id))

(* A subscription of the server, known with its status.                    *)
Added(s, id) ==
    genSUBS_update(AddManager([s EXCEPT !.snapshot = @ \ {id}], Manager(45, id, FALSE)),
                   id, "STATUS")

(* A subscription that no manager has: in the snapshot and after it, where *)
(* the last of those that the snapshot announced completes it.             *)
InSnapshot(s, id, kind) ==
    CASE kind = "ADD"    -> [s EXCEPT !.sbs = 423, !.snapshot = @ \cup {id}]
      [] kind = "STATUS" -> Added([s EXCEPT !.sbs = 423], id)
      [] OTHER           -> s
AfterSnapshot(s, id, kind) ==
    LET told(t) == IF s.snapshot \subseteq {id} THEN fireOnSubscriptionsUpdated(t) ELSE t
    IN CASE kind = "DELETE" /\ id \in s.snapshot -> told([s EXCEPT !.snapshot = @ \ {id}])
         [] kind = "STATUS"                      -> told(Added(s, id))
         [] OTHER                                -> s

evtSUBS_Update(s, id, kind) ==
    CASE s.sbs = None                               -> s
      [] s.sbs # None /\ exists(s, id)              -> genSUBS_update(s, id, kind)
      [] s.sbs \in {421, 423} /\ ~exists(s, id)     -> InSnapshot(s, id, kind)
      [] s.sbs = 424 /\ ~exists(s, id)              -> AfterSnapshot(s, id, kind)
      [] OTHER                                      -> s

evtSUBS_EOS(s) ==
    IF s.sbs \notin {421, 423} THEN s
    ELSE LET t == EachManager([s EXCEPT !.sbs = 424], Item("EOS", None))
         IN IF s.sbs = 421 \/ s.snapshot = {} THEN fireOnSubscriptionsUpdated(t) ELSE t

-----------------------------------------------------------------------------
Unused == [devices |-> 0, subscribes |-> 0, events |-> 0]

Init ==
    /\ c = [m |-> 400, tk |-> None, sbs |-> None, ft |-> None, bg |-> None,
            id |-> None, token |-> None, device |-> None, candidates |-> <<>>,
            snapshot |-> {}, filters |-> 0, badge |-> FALSE, mgr |-> <<>>,
            item |-> NoItem, listed |-> {}, up |-> FALSE, out |-> <<>>, replies |-> {},
            failed |-> FALSE]
    /\ conn = "off" /\ push = <<>>
    /\ server = [token |-> None, dev |-> 1, subs |-> [id \in Existing |-> NoValues],
                 seen |-> {}, registered |-> None]
    /\ used = Unused

Use(what, max) == used[what] < max /\ used' = [used EXCEPT ![what] = @ + 1]
Outside == <<conn, server, push>>

-----------------------------------------------------------------------------
(* Calls of the application                                                *)

registerForMpn ==
    /\ Use("devices", MaxDevices)
    /\ LET s == [c EXCEPT !.candidates = Append(@, used'.devices)]
       IN c' = CASE s.m \in {400, 401} -> evtMpnCheckNext([s EXCEPT !.m = 402])
                 [] s.tk = 451         -> evtMpnCheckNext([s EXCEPT !.tk = 452])
                 [] OTHER              -> s
    /\ UNCHANGED Outside

(* One MPNSubscription, which is subscribed again when it is not active.   *)
subscribeMpn ==
    /\ c.device # None /\ FreeNumbers(c) # {}
    /\ ~\E n \in DOMAIN c.mgr : c.mgr[n].app
    /\ Use("subscribes", MaxSubscribes)
    /\ LET n == FreeNumber(c)
           s(m) == AddManager(c, Manager(m, used'.subscribes, TRUE))
       IN c' = IF c.m = 405 THEN Sent(s(42), n) ELSE s(41)
    /\ UNCHANGED Outside

unsubscribeMpn ==
    /\ Use("events", MaxEvents)
    /\ \E n \in DOMAIN c.mgr : c' = evtExtMpnUnsubscribe(c, n)
    /\ UNCHANGED Outside

(* The application modifies a push subscription through one object.        *)
setProperty ==
    /\ Use("events", MaxEvents)
    /\ \E n \in DOMAIN c.mgr, part \in Parts :
          /\ \A k \in DOMAIN c.mgr \ {n} : c.mgr[k].id # c.mgr[n].id
          /\ c' = evtExtMpnSet(c, n, part, used'.events)
    /\ UNCHANGED Outside

unsubscribeMpnSubscriptions ==
    /\ c.device # None /\ Use("events", MaxEvents)
    /\ LET s == [c EXCEPT !.filters = @ + 1]
       IN c' = IF s.ft = 431 THEN evtMpnCheckFilter([s EXCEPT !.ft = 430]) ELSE s
    /\ UNCHANGED Outside

resetBadge ==
    /\ c.device # None /\ Use("events", MaxEvents)
    /\ LET s == [c EXCEPT !.badge = TRUE]
       IN c' = IF s.bg = 441 THEN evtMpnCheckReset([s EXCEPT !.bg = 440]) ELSE s
    /\ UNCHANGED Outside

-----------------------------------------------------------------------------
(* The session                                                             *)

NoChannel(s) == [s EXCEPT !.up = FALSE, !.out = <<>>, !.replies = {}]

evtExtConnect ==
    /\ conn = "off" /\ conn' = "retry"
    /\ c' = IF c.m = 401 /\ c.device # None THEN [c EXCEPT !.m = 403] ELSE c
    /\ UNCHANGED <<server, push, used>>

evtCONOK ==
    /\ conn = "retry" /\ conn' = "up" /\ UNCHANGED used
    /\ c' = evtSendPendingControls(c)
    /\ push' = <<>>
    /\ server' = [server EXCEPT !.seen = {}, !.registered = None]

LoseChannel ==
    /\ conn = "up" /\ conn' = "down" /\ Use("events", MaxEvents)
    /\ c' = NoChannel(c)
    /\ UNCHANGED <<server, push>>

(* After a recovery the stream may start from a notification already read: *)
(* only a MPNREG is handled again.                                         *)
Repeated ==
    IF "stale_registration" \in Avoided \/ server.registered = None THEN {<<>>}
    ELSE {<<>>, <<Item("REG", server.dev)>>}

Rebind ==
    /\ conn = "down" /\ conn' = "up"
    /\ c' = evtSendPendingControls(c)
    /\ \E again \in Repeated : push' = again \o push
    /\ UNCHANGED <<server, used>>

AbortSubscriptions(s) == EachManager(s, Item("ABORT", None))

evtRetry ==
    /\ conn \in {"up", "down"} /\ conn' = "retry"
    /\ c' = AbortSubscriptions(evtRetry_MpnRegion(NoChannel(c)))
    /\ push' = <<>> /\ Use("events", MaxEvents)
    /\ UNCHANGED server

evtTerminate ==
    /\ conn # "off" /\ conn' = "off" /\ Use("events", MaxEvents)
    /\ LET s == evtTerminate_MpnRegion(NoChannel(c))
       IN c' = IF conn = "retry" THEN s ELSE AbortSubscriptions(s)
    /\ push' = <<>>
    /\ UNCHANGED server

-----------------------------------------------------------------------------
(* What comes from the server                                              *)

(* The device is not given up while push subscriptions depend on it.       *)
NoOrphans ==
    "device_lost" \in Avoided =>
        (c.m = 405 /\ c'.m = 401 => \A n \in DOMAIN c.mgr : c.mgr[n].m = 41)

ReplyIsRead ==
    \E r \in c.replies :
        /\ c' = evtReply([c EXCEPT !.replies = @ \ {r}], r) /\ NoOrphans
        /\ UNCHANGED <<conn, server, push, used>>

NotificationIsRead ==
    /\ conn = "up" /\ push # <<>>
    /\ LET msg == Head(push) IN
       /\ "late_id" \in Avoided => msg.kind # "OK" \/ msg.id \notin c.snapshot
       /\ c' = CASE msg.kind = "REG" -> evtMPNREG(c, msg.id)
                 [] msg.kind # "REG" -> EachManager(c, msg)
       /\ NoOrphans
    /\ push' = Tail(push)
    /\ UNCHANGED <<conn, server, used>>

(* The listener of the special item is called: with a key that is added    *)
(* (its status comes later) or deleted, or with the end of the snapshot.   *)
KeyIsListened ==
    /\ c.item.queue # <<>> /\ FreeNumbers(c) # {}
    /\ Head(c.item.queue).kind = "DELETE" =>
          Item("OK", Head(c.item.queue).id) \notin {push[i] : i \in DOMAIN push}
    /\ LET msg == Head(c.item.queue)
           s == [c EXCEPT !.item.queue = Tail(@),
                          !.item.second = IF msg.kind = "ADD" THEN @ \cup {msg.id}
                                          ELSE @ \ {msg.id}]
       IN c' = IF msg.kind = "EOS" THEN evtSUBS_EOS(s)
               ELSE evtSUBS_Update(s, msg.id, msg.kind)
    /\ UNCHANGED <<conn, server, push, used>>

StatusIsListened ==
    /\ FreeNumbers(c) # {}
    /\ \E id \in c.item.second :
          c' = evtSUBS_Update([c EXCEPT !.item.second = @ \ {id}], id, "STATUS")
    /\ UNCHANGED <<conn, server, push, used>>

(* onSubscriptionError and onUnsubscription of a special item.             *)
SpecialItemFails ==
    /\ c.m = 405 /\ Use("events", MaxEvents)
    /\ "stale_registration" \in Avoided => c.tk = 451
    /\ c' = evtMpnError(c) /\ NoOrphans
    /\ UNCHANGED Outside

-----------------------------------------------------------------------------
(* The server                                                              *)

Listen(s, msgs) == IF s.item.state = "live" THEN [s EXCEPT !.item.queue = @ \o msgs] ELSE s

Answer(req, ok) ==
    LET s == [c EXCEPT !.out = Tail(@)]
    IN IF req.last THEN [s EXCEPT !.replies = @ \cup {[kind |-> req.kind, n |-> req.n, ok |-> ok]}]
       ELSE s

Ids(S) == InOrder(S)
Items(kind, S) == [i \in DOMAIN Ids(S) |-> Item(kind, Ids(S)[i])]

(* The special item lists the subscriptions, and then those that come.     *)
Snapshot ==
    /\ conn = "up" /\ c.item.state = "asked"
    /\ c' = [c EXCEPT !.item = [@ EXCEPT !.state = "live",
                  !.queue = Items("ADD", DOMAIN server.subs) \o <<Item("EOS", None)>>]]
    /\ UNCHANGED <<conn, server, push, used>>

IsLegal(req) ==
    \/ req.kind = "register"
    \/ req.dev = server.dev /\ (req.kind \in {"deactivate", "configure"} => req.id \in DOMAIN server.subs)

(* The server is asked to register what it registered in this session.     *)
Again(req) ==
    /\ "stale_registration" \in Avoided
    /\ req.kind = "register" /\ server.registered = req.token

Refuse(req) ==
    /\ \/ ~IsLegal(req) /\ UNCHANGED used
       \/ IsLegal(req) /\ ~Again(req) /\ Use("events", MaxEvents)
    /\ c' = Answer(req, FALSE)
    /\ UNCHANGED <<server, push>>

Without(ids) == [id \in DOMAIN server.subs \ ids |-> server.subs[id]]

Grant(req) ==
    /\ IsLegal(req)
    /\ CASE req.kind = "register" ->
            /\ \/ server' = [server EXCEPT !.token = req.token, !.registered = req.token]
                  /\ UNCHANGED used
               \/ /\ Use("events", MaxEvents) /\ ~Again(req)
                  /\ server' = [server EXCEPT !.token = req.token, !.registered = req.token,
                                              !.dev = @ + 1, !.subs = <<>>]
            /\ push' = IF Again(req) THEN push ELSE Append(push, Item("REG", server'.dev))
            /\ c' = Answer(req, TRUE)
         [] req.kind = "activate" ->
            /\ IF req.id \in server.seen THEN UNCHANGED <<server, push>> /\ c' = Answer(req, TRUE)
               ELSE /\ server' = [server EXCEPT !.subs = [id \in DOMAIN @ \cup {req.id} |->
                                                    IF id \in DOMAIN @ THEN @[id] ELSE NoValues],
                                                !.seen = @ \cup {req.id}]
                    /\ push' = Append(push, Item("OK", req.id))
                    /\ c' = Listen(Answer(req, TRUE), <<Item("ADD", req.id)>>)
            /\ UNCHANGED used
         [] req.kind = "deactivate" ->
            /\ server' = [server EXCEPT !.subs = Without({req.id})]
            /\ push' = Append(push, Item("DEL", req.id))
            /\ c' = Listen(Answer(req, TRUE), <<Item("DELETE", req.id)>>)
            /\ UNCHANGED used
         [] req.kind = "configure" ->
            /\ server' = [server EXCEPT !.subs[req.id][req.part] = req.values[req.part]]
            /\ c' = Answer(req, TRUE)
            /\ UNCHANGED <<push, used>>
         [] req.kind = "filter" ->
            /\ server' = [server EXCEPT !.subs = <<>>]
            /\ push' = push \o Items("DEL", DOMAIN server.subs)
            /\ c' = Listen(Answer(req, TRUE), Items("DELETE", DOMAIN server.subs))
            /\ UNCHANGED used
         [] req.kind = "badge" -> c' = Answer(req, TRUE) /\ UNCHANGED <<server, push, used>>

(* Nothing that was activated in this session is deactivated before the    *)
(* special item lists it.                                                  *)
ListedFirst(req) ==
    "unlisted" \in Avoided /\ req.kind \in {"deactivate", "filter"} =>
        c.item.state = "live" \/ server.seen = {}

ServerHandles ==
    /\ conn = "up" /\ c.out # <<>> /\ ListedFirst(Head(c.out))
    /\ Refuse(Head(c.out)) \/ Grant(Head(c.out))
    /\ UNCHANGED conn

-----------------------------------------------------------------------------
Next ==
    \/ registerForMpn \/ subscribeMpn \/ unsubscribeMpn \/ setProperty
    \/ unsubscribeMpnSubscriptions \/ resetBadge
    \/ evtExtConnect \/ evtCONOK \/ LoseChannel \/ Rebind \/ evtRetry \/ evtTerminate
    \/ ReplyIsRead \/ NotificationIsRead \/ KeyIsListened \/ StatusIsListened
    \/ SpecialItemFails \/ Snapshot \/ ServerHandles

Spec == Init /\ [][Next]_vars

-----------------------------------------------------------------------------
(* Properties                                                              *)

InFlight(req) ==
    \/ \E i \in DOMAIN c.out : c.out[i].last /\ SameRequest(c.out[i], req)
    \/ \E r \in c.replies : SameRequest(r, req)

(* What the application asked is never forgotten: no region of the device  *)
(* or of a push subscription rests while it has something to do, and while *)
(* the connection is there every request that is pending is on its way, or *)
(* its reply, or (a registration) its notification, is.                    *)
NothingForgotten ==
    /\ c.tk = 451 => c.candidates = <<>>
    /\ c.ft = 431 => c.filters = 0
    /\ c.bg = 441 => ~c.badge
    /\ \A n \in DOMAIN c.mgr :
          /\ c.mgr[n].ct = 71 => c.mgr[n].uu # 11 /\ \A part \in Parts : c.mgr[n].upd[part] # 1
          /\ c.m = 405 => c.mgr[n].m # 41
    /\ c.up => LET pending == getPendingControls(c)
               IN \A i \in DOMAIN pending : InFlight(pending[i])

(* A pending request can always be written: the identifier of the device,  *)
(* which each of them but the registration carries, is there.              *)
RequestsCanBeEncoded == ~c.failed

Settled ==
    /\ conn = "up" /\ c.m = 405 /\ c.sbs = 424 /\ c.tk = 451
    /\ c.out = <<>> /\ c.replies = {} /\ push = <<>>
    /\ c.item.queue = <<>> /\ c.item.second = {}

(* An active device that registers nothing has the token and the           *)
(* identifier that the server has for it, whatever else is under way.      *)
DeviceAgrees == c.m = 405 /\ c.tk = 451 => c.token = server.token /\ c.id = server.dev

(* When nothing is on its way, the push subscriptions that the client      *)
(* shows are those that the server has, however each of them was learnt;   *)
(* the application was told after the last change; none is half way; and   *)
(* the last format and trigger asked are those in force, unless the        *)
(* listener was told of an error.                                          *)
PushSubscriptionsAgree ==
    Settled =>
        /\ Listed(c) = DOMAIN server.subs
        /\ c.listed = Listed(c)
        /\ \A n \in DOMAIN c.mgr :
              /\ c.mgr[n].m = 44 /\ c.mgr[n].ab = 80 /\ c.mgr[n].ct = 71
              /\ \A part \in Parts : c.mgr[n].req[part] # None =>
                    server.subs[c.mgr[n].id][part] = c.mgr[n].req[part]
=============================================================================
