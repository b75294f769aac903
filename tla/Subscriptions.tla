---------------------------- MODULE Subscriptions ----------------------------
(***************************************************************************)
(* The life of a Subscription: the managers that follow it through one or  *)
(* more sessions (SubscriptionManagerLiving), those that get rid of what   *)
(* the server still sends for a subscription nobody wants any more         *)
(* (SubscriptionManagerZombie), and the requests they exchange with the    *)
(* server over a control channel that comes and goes.                      *)
(*                                                                         *)
(* One Subscription object is subscribed and unsubscribed again and again; *)
(* each time it gets a new manager, with a new subId.  The old one may     *)
(* still be waiting for the server when the new one starts.                *)
(*                                                                         *)
(* A handler runs under the lock of the client and is one step.  Only      *)
(* setRequestedMaxFrequency takes two: it writes the new value under the   *)
(* lock of the Subscription, releases it, and then calls evtExtConfigure.  *)
(*                                                                         *)
(* Notifications reach the client once and in order, however connections   *)
(* change: that is what Recovery shows.  Requests and replies, instead,    *)
(* are lost with the connection that carries them.                         *)
(***************************************************************************)
EXTENDS Naturals, Sequences, FiniteSets

CONSTANTS
    Frequencies,          \* values the application gives to requestedMaxFrequency
    RefusedFrequencies,   \* those that the server never grants to a reconf
    MaxSubId,             \* bound: times the Subscription is subscribed
    MaxLosses,            \* bound: control channels lost while a session lasts
    MaxStream             \* bound: no update is sent when this many are on their way

ASSUME FrequencyAssumption ==
    /\ Frequencies \subseteq Nat \ {0} /\ Frequencies # {}
    /\ RefusedFrequencies \subseteq Frequencies
ASSUME SubscriptionBounds == MaxSubId \in Nat /\ MaxLosses \in Nat /\ MaxStream \in Nat

VARIABLES
    subscription,   \* the Subscription: state, manager (a subId or None), freq
    manager,        \* the managers of the client, by subId
    nextSubId,      \* the last subId that was given
    listening,      \* the last of onSubscription and onUnsubscription was the former
    configuring,    \* managers whose evtExtConfigure is about to be called
    channel,        \* where control requests go: "off" no session, "none" not
                    \* now, "ws" the stream connection, "http" one of its own
    ctrl,           \* the HTTP channel: "idle", "busy", "pause" (s1101 .. s1103)
    flight,         \* requests that the server has not received yet
    replies,        \* replies on their way
    stream,         \* notifications on their way
    server,         \* frequency of each subscription that the server has, or None
    losses          \* control channels lost in this session

client == <<subscription, manager, nextSubId, listening, configuring>>
network == <<flight, replies, ctrl>>
vars == <<client, network, channel, stream, server, losses>>

None == 0

SubIds == 1..MaxSubId

(* Managers: m is the state of the code (s2 subscribing, s3 accepted, s4   *)
(* subscribed, s5 unsubscribing), c the state of the reconfiguration, cur  *)
(* and req are m_currentMaxFrequency and m_reqMaxFrequency.  A manager of  *)
(* kind "none" does not exist.  refused: the last reconf was.              *)
Managers ==
    [kind : {"none", "living", "zombie"}, m : {None, 2, 3, 4, 5}, c : {None, 21, 22},
     cur : Frequencies \cup {None}, req : Frequencies \cup {None}, refused : BOOLEAN]

Gone == [kind |-> "none", m |-> None, c |-> None, cur |-> None, req |-> None,
         refused |-> FALSE]
Living(freq) == [Gone EXCEPT !.kind = "living", !.m = 2, !.cur = freq]
Zombie == [Gone EXCEPT !.kind = "zombie", !.m = 2]

Exists(id) == manager[id].kind # "none"

isPending(mgr) == mgr.m = 2 \/ mgr.m = 5 \/ mgr.c = 22

-----------------------------------------------------------------------------
(* Control requests. *)

encode(id, mgr) ==
    CASE mgr.kind = "zombie"                -> [op |-> "delete", id |-> id, freq |-> None]
      [] mgr.kind = "living" /\ mgr.m = 2   -> [op |-> "add", id |-> id, freq |-> mgr.cur]
      [] mgr.kind = "living" /\ mgr.m = 5   -> [op |-> "delete", id |-> id, freq |-> None]
      [] mgr.kind = "living" /\ mgr.c = 22  -> [op |-> "reconf", id |-> id, freq |-> mgr.req]

PendingIds(mgrs) == {id \in SubIds : isPending(mgrs[id])}

(* Over HTTP a batch takes what fits in the limit set by the server.       *)
sendPendingControlsHTTP ==
    IF PendingIds(manager') = {}
      THEN ctrl' = "idle" /\ flight' = {}
      ELSE /\ ctrl' = "busy"
           /\ \E batch \in (SUBSET PendingIds(manager')) \ {{}} :
                  flight' = {encode(id, manager'[id]) : id \in batch}

genSendControl(id) ==
    \/ /\ channel = "ws"
       /\ flight' = flight \cup {encode(id, manager'[id])}
       /\ UNCHANGED ctrl
    \/ /\ channel = "http" /\ ctrl = "idle"
       /\ sendPendingControlsHTTP
    \/ /\ channel \in {"off", "none"} \/ (channel = "http" /\ ctrl # "idle")
       /\ UNCHANGED <<flight, ctrl>>

(* Fault: what was asked while there was no WebSocket is not sent. *)
evtSendPendingControls_Never == flight' = {}

evtSendPendingControls == flight' = {encode(id, manager[id]) : id \in PendingIds(manager)}

-----------------------------------------------------------------------------
Init ==
    /\ \E freq \in Frequencies :
          subscription = [state |-> "Inactive", manager |-> None, freq |-> freq]
    /\ manager = [id \in SubIds |-> Gone]
    /\ nextSubId = 0 /\ listening = FALSE /\ configuring = {}
    /\ channel = "off" /\ ctrl = "idle"
    /\ flight = {} /\ replies = {} /\ stream = <<>>
    /\ server = [id \in SubIds |-> None]
    /\ losses = 0

-----------------------------------------------------------------------------
(* Calls of the application. *)

(* setActive, setInactive (with the end of the relation), setSubscribed. *)
Activate == [subscription EXCEPT !.state = "Active"]
Inactivate == [subscription EXCEPT !.state = "Inactive", !.manager = None]

evtExtSubscribe ==
    /\ subscription.state = "Inactive" /\ nextSubId < MaxSubId
    /\ nextSubId' = nextSubId + 1
    /\ subscription' = [Activate EXCEPT !.manager = nextSubId']
    /\ manager' = [manager EXCEPT ![nextSubId'] = Living(subscription.freq)]
    /\ genSendControl(nextSubId')
    /\ UNCHANGED <<listening, configuring, channel, replies, stream, server, losses>>

(* The manager m_manager of the Subscription, if there is one.             *)
evtExtUnsubscribe ==
    \E id \in SubIds \cap {subscription.manager} :
        /\ subscription' = Inactivate
        /\ \/ /\ manager[id].m = 2
              /\ manager' = [manager EXCEPT ![id] = Gone]
              /\ UNCHANGED <<listening, flight, ctrl>>
           \/ /\ manager[id].m \in {3, 4}
              /\ manager' = [manager EXCEPT ![id] = [@ EXCEPT !.m = 5, !.c = None]]
              /\ IF manager[id].m = 4 THEN listening' = FALSE ELSE UNCHANGED listening
              /\ genSendControl(id)
        /\ UNCHANGED <<nextSubId, configuring, channel, replies, stream, server, losses>>

(* First half, under the lock of the Subscription ... *)
setRequestedMaxFrequency ==
    \E freq \in Frequencies \ {subscription.freq} :
        /\ subscription' = [subscription EXCEPT !.freq = freq]
        /\ configuring' = configuring \cup (SubIds \cap {subscription.manager})
        /\ UNCHANGED <<manager, nextSubId, listening, network, channel, stream, server, losses>>

(* evtCheckFrequency, on the manager as it is when it enters s20.          *)
evtCheckFrequency(mgr) ==
    IF mgr.cur # subscription.freq
      THEN [mgr EXCEPT !.c = 22, !.req = subscription.freq, !.refused = FALSE]
      ELSE [mgr EXCEPT !.c = 21, !.refused = FALSE]

(* A manager that changes and then sends its request, if it has one.       *)
Reconfigure(id, mgr) ==
    /\ manager' = [manager EXCEPT ![id] = mgr]
    /\ IF mgr.c = 22 THEN genSendControl(id) ELSE UNCHANGED <<flight, ctrl>>

(* ... and second half, under the lock of the client.                      *)
evtExtConfigure ==
    \E id \in configuring :
        /\ configuring' = configuring \ {id}
        /\ IF manager[id].c = 21
             THEN Reconfigure(id, evtCheckFrequency(manager[id]))
             ELSE UNCHANGED <<manager, flight, ctrl>>
        /\ UNCHANGED <<subscription, nextSubId, listening, channel, replies, stream, server, losses>>

-----------------------------------------------------------------------------
(* Notifications.  Each handler says what becomes of the Subscription, of  *)
(* the managers and of the requests.                                       *)

(* Fault: only data can come for a subscription that nobody wants. *)
NewZombie_NotOnSUBOK(id, type) ==
    IF type = "U"
      THEN manager' = [manager EXCEPT ![id] = Zombie] /\ genSendControl(id)
      ELSE UNCHANGED <<manager, flight, ctrl>>

(* A notification for an unknown subscription makes a zombie, that deletes *)
(* it.  "U" stands for EOS, CS, OV and CONF too.                           *)
NewZombie(id, type) ==
    IF type \in {"SUBOK", "U"}
      THEN manager' = [manager EXCEPT ![id] = Zombie] /\ genSendControl(id)
      ELSE UNCHANGED <<manager, flight, ctrl>>

(* matches: the counts of items and fields are the ones expected.          *)
evtSUBOK(id, matches) ==
    IF matches
      THEN /\ subscription' = [subscription EXCEPT !.state = "Subscribed"]
           /\ listening' = TRUE
           /\ Reconfigure(id, evtCheckFrequency([manager[id] EXCEPT !.m = 4]))
      ELSE /\ subscription' = Inactivate
           /\ manager' = [manager EXCEPT ![id].m = 5]
           /\ genSendControl(id)
           /\ UNCHANGED listening

evtUNSUB(id) ==
    /\ manager' = [manager EXCEPT ![id] = Gone]
    /\ IF manager[id].m = 4
         THEN subscription' = Inactivate /\ listening' = FALSE
         ELSE UNCHANGED <<subscription, listening>>
    /\ UNCHANGED <<flight, ctrl>>

Notification ==
    /\ channel # "off" /\ stream # <<>>
    /\ stream' = Tail(stream)
    /\ LET id == Head(stream).id
           type == Head(stream).type
           mgr == manager[id]
       IN \/ /\ mgr.kind = "none"
             /\ NewZombie(id, type)
             /\ UNCHANGED <<subscription, listening>>
          \/ /\ mgr.kind = "living" /\ type = "SUBOK" /\ mgr.m \in {2, 3}
             /\ \E matches \in BOOLEAN : evtSUBOK(id, matches)
          \/ /\ \/ mgr.kind = "living" /\ mgr.m \in {4, 5}
                \/ mgr.kind = "zombie"
             /\ type = "UNSUB"
             /\ evtUNSUB(id)
          \/ /\ \/ mgr.kind = "living" /\ type = "SUBOK" /\ mgr.m \in {4, 5}
                \/ mgr.kind = "living" /\ type = "UNSUB" /\ mgr.m \in {2, 3}
                \/ mgr.kind = "zombie" /\ type = "SUBOK"
                \/ mgr.kind # "none" /\ type = "U"
             /\ UNCHANGED <<subscription, listening, manager, flight, ctrl>>
    /\ UNCHANGED <<nextSubId, configuring, channel, replies, server, losses>>

-----------------------------------------------------------------------------
(* Replies.  Every reply on its way is to the last request of its kind:    *)
(* the ones to earlier requests went with the connection they were sent on. *)

(* Fault: the frequency is not checked against a change made meanwhile. *)
evtREQOK_NoCheck(id, op) ==
    CASE op = "add" /\ manager[id].m = 2 /\ manager[id].kind = "living" ->
             /\ manager' = [manager EXCEPT ![id].m = 3] /\ UNCHANGED <<flight, ctrl>>
      [] op = "delete" /\ (manager[id].m = 5 \/ manager[id].kind = "zombie") ->
             /\ manager' = [manager EXCEPT ![id] = Gone] /\ UNCHANGED <<flight, ctrl>>
      [] op = "reconf" /\ manager[id].c = 22 ->
             /\ manager' = [manager EXCEPT ![id].c = 21, ![id].cur = manager[id].req]
             /\ UNCHANGED <<flight, ctrl>>
      [] OTHER -> UNCHANGED <<manager, flight, ctrl>>

evtREQOK(id, op) ==
    CASE op = "add" /\ manager[id].m = 2 /\ manager[id].kind = "living" ->
             /\ manager' = [manager EXCEPT ![id].m = 3] /\ UNCHANGED <<flight, ctrl>>
      [] op = "delete" /\ (manager[id].m = 5 \/ manager[id].kind = "zombie") ->
             /\ manager' = [manager EXCEPT ![id] = Gone] /\ UNCHANGED <<flight, ctrl>>
      [] op = "reconf" /\ manager[id].c = 22 ->
             Reconfigure(id, evtCheckFrequency([manager[id] EXCEPT !.cur = manager[id].req]))
      [] OTHER -> UNCHANGED <<manager, flight, ctrl>>

(* The same frequency is not asked again; another one is.                  *)
evtREQERR(id, op) ==
    CASE op = "add" /\ manager[id].m = 2 /\ manager[id].kind = "living" ->
             /\ subscription' = Inactivate
             /\ manager' = [manager EXCEPT ![id] = Gone] /\ UNCHANGED <<flight, ctrl>>
      [] op = "delete" /\ (manager[id].m = 5 \/ manager[id].kind = "zombie") ->
             /\ manager' = [manager EXCEPT ![id] = Gone]
             /\ UNCHANGED <<subscription, flight, ctrl>>
      [] op = "reconf" /\ manager[id].c = 22 ->
             /\ IF manager[id].req = subscription.freq
                  THEN /\ manager' = [manager EXCEPT ![id] = [@ EXCEPT !.c = 21, !.refused = TRUE]]
                       /\ UNCHANGED <<flight, ctrl>>
                  ELSE Reconfigure(id, evtCheckFrequency(manager[id]))
             /\ UNCHANGED subscription
      [] OTHER -> UNCHANGED <<subscription, manager, flight, ctrl>>

Reply ==
    \E reply \in replies :
        /\ replies' = replies \ {reply}
        /\ IF reply.ok THEN evtREQOK(reply.id, reply.op) /\ UNCHANGED subscription
                       ELSE evtREQERR(reply.id, reply.op)
        /\ UNCHANGED <<nextSubId, listening, configuring, channel, stream, server, losses>>

-----------------------------------------------------------------------------
(* The session and its control channel. *)

(* The session starts: over a WebSocket requests can go at once, over HTTP *)
(* not before the session is bound.                                        *)
StartSession ==
    /\ channel = "off"
    /\ \/ channel' = "ws" /\ evtSendPendingControls
       \/ channel' = "none" /\ UNCHANGED flight
    /\ UNCHANGED <<client, ctrl, replies, stream, server, losses>>

(* The session is bound to a new connection.                               *)
Bind ==
    /\ channel = "none"
    /\ UNCHANGED client
    /\ \/ channel' = "ws" /\ evtSendPendingControls /\ UNCHANGED ctrl
       \/ channel' = "http" /\ sendPendingControlsHTTP
    /\ UNCHANGED <<replies, stream, server, losses>>

(* The channel is left, by a rebind to another transport or a failure.     *)
LoseChannel ==
    /\ channel \in {"ws", "http"} /\ losses < MaxLosses
    /\ losses' = losses + 1
    /\ channel' = "none" /\ ctrl' = "idle" /\ flight' = {} /\ replies' = {}
    /\ UNCHANGED <<client, stream, server>>

CtrlDone ==
    /\ channel = "http" /\ ctrl = "busy" /\ flight = {} /\ replies = {}
    /\ UNCHANGED client
    /\ sendPendingControlsHTTP
    /\ UNCHANGED <<channel, replies, stream, server, losses>>

(* evtCtrlError, and evtCtrlTimeout in s1102: pause and then try again.    *)
CtrlError ==
    /\ channel = "http" /\ ctrl = "busy" /\ losses < MaxLosses
    /\ losses' = losses + 1
    /\ ctrl' = "pause" /\ flight' = {} /\ replies' = {}
    /\ UNCHANGED <<client, channel, stream, server>>

CtrlTimeout ==
    /\ channel = "http" /\ ctrl = "pause"
    /\ UNCHANGED client
    /\ sendPendingControlsHTTP
    /\ UNCHANGED <<channel, replies, stream, server, losses>>

(* A request of someone else takes the HTTP channel: messages, switch, ... *)
OtherRequest ==
    /\ channel = "http" /\ ctrl = "idle"
    /\ ctrl' = "busy"
    /\ UNCHANGED <<client, flight, channel, replies, stream, server, losses>>

(* Fault: the listener is not told that the session took the subscription. *)
evtExtAbort_Silent(told) == listening' = listening

(* told: the Subscription was subscribed.                                  *)
evtExtAbort(told) == IF told THEN listening' = FALSE ELSE UNCHANGED listening

(* genAbortSubscriptions: the living go back to the start, to be           *)
(* subscribed in the next session, and the others are done.                *)
EndSession ==
    LET aborted(mgr) ==
            CASE mgr.kind = "living" /\ mgr.m = 2 -> mgr
              [] mgr.kind = "living" /\ mgr.m \in {3, 4} -> Living(subscription.freq)
              [] OTHER -> Gone
    IN /\ channel # "off"
       /\ manager' = [id \in SubIds |-> aborted(manager[id])]
       /\ subscription' = IF subscription.state = "Inactive" THEN subscription ELSE Activate
       /\ evtExtAbort(subscription.state = "Subscribed")
       /\ channel' = "off" /\ ctrl' = "idle" /\ flight' = {} /\ replies' = {}
       /\ stream' = <<>> /\ server' = [id \in SubIds |-> None] /\ losses' = 0
       /\ UNCHANGED <<nextSubId, configuring>>

-----------------------------------------------------------------------------
(* The server. *)

(* Over the WebSocket add and delete are sent with LS_ack=false: only a    *)
(* refusal is answered.                                                    *)
Answer(req, ok) ==
    replies' = IF ok /\ channel = "ws" /\ req.op # "reconf"
                 THEN replies
                 ELSE replies \cup {[ok |-> ok, op |-> req.op, id |-> req.id]}

Notify(id, type) == stream' = Append(stream, [type |-> type, id |-> id])

ServerAdds(req) ==
    \/ /\ server[req.id] = None
       /\ server' = [server EXCEPT ![req.id] = req.freq]
       /\ Notify(req.id, "SUBOK")
       /\ Answer(req, TRUE)
    \/ /\ Answer(req, FALSE)
       /\ UNCHANGED <<server, stream>>
    \/ /\ server[req.id] # None
       /\ Answer(req, TRUE)
       /\ UNCHANGED <<server, stream>>

ServerDeletes(req) ==
    IF server[req.id] # None
      THEN /\ server' = [server EXCEPT ![req.id] = None]
           /\ Notify(req.id, "UNSUB")
           /\ Answer(req, TRUE)
      ELSE Answer(req, FALSE) /\ UNCHANGED <<server, stream>>

ServerReconfigures(req) ==
    /\ LET granted == server[req.id] # None /\ req.freq \notin RefusedFrequencies
       IN /\ server' = IF granted THEN [server EXCEPT ![req.id] = req.freq] ELSE server
          /\ Answer(req, granted)
    /\ UNCHANGED stream

(* The requests of one manager are received in the order they were sent.   *)
Earlier(op) ==
    CASE op = "add" -> {} [] op = "reconf" -> {"add"} [] op = "delete" -> {"add", "reconf"}

ServerReceives ==
    \E req \in flight :
        /\ \A other \in flight : other.id = req.id => other.op \notin Earlier(req.op)
        /\ flight' = flight \ {req}
        /\ \/ req.op = "add" /\ ServerAdds(req)
           \/ req.op = "delete" /\ ServerDeletes(req)
           \/ req.op = "reconf" /\ ServerReconfigures(req)
        /\ UNCHANGED <<client, ctrl, channel, losses>>

ServerUpdates ==
    \E id \in SubIds :
        /\ server[id] # None /\ Len(stream) < MaxStream
        /\ Notify(id, "U")
        /\ UNCHANGED <<client, network, channel, server, losses>>

(* The server, or its adapter, may close a subscription.                   *)
ServerCloses ==
    \E id \in SubIds :
        /\ server[id] # None
        /\ server' = [server EXCEPT ![id] = None]
        /\ Notify(id, "UNSUB")
        /\ UNCHANGED <<client, network, channel, losses>>

-----------------------------------------------------------------------------
Application == evtExtSubscribe \/ evtExtUnsubscribe \/ setRequestedMaxFrequency

Session ==
    \/ evtExtConfigure \/ Notification \/ Reply
    \/ StartSession \/ Bind \/ LoseChannel \/ EndSession
    \/ CtrlDone \/ CtrlError \/ CtrlTimeout \/ OtherRequest

Server == ServerReceives \/ ServerUpdates \/ ServerCloses

Next == Application \/ Session \/ Server

Spec == Init /\ [][Next]_vars

(* The network carries what is sent, the server answers, the client binds  *)
(* and tries again after a pause.  Nothing forces the application to call, *)
(* the server to send updates, a loss, or the end of the session.          *)
Fairness ==
    /\ WF_vars(Notification) /\ WF_vars(Reply) /\ WF_vars(ServerReceives)
    /\ WF_vars(Bind) /\ WF_vars(CtrlDone) /\ WF_vars(CtrlTimeout)

FairSpec == Spec /\ Fairness

-----------------------------------------------------------------------------
Requests == [op : {"add", "delete", "reconf"}, id : SubIds, freq : Frequencies \cup {None}]
Replies == [ok : BOOLEAN, op : {"add", "delete", "reconf"}, id : SubIds]
Notifications == [type : {"SUBOK", "U", "UNSUB"}, id : SubIds]

TypeOK ==
    /\ subscription \in [state : {"Inactive", "Active", "Subscribed"},
                         manager : SubIds \cup {None}, freq : Frequencies]
    /\ manager \in [SubIds -> Managers]
    /\ nextSubId \in 0..MaxSubId /\ listening \in BOOLEAN /\ configuring \subseteq SubIds
    /\ channel \in {"off", "none", "ws", "http"} /\ ctrl \in {"idle", "busy", "pause"}
    /\ flight \subseteq Requests /\ replies \subseteq Replies
    /\ stream \in Seq(Notifications)
    /\ server \in [SubIds -> Frequencies \cup {None}]
    /\ losses \in 0..MaxLosses

(* The state that the application sees is that of the one manager that     *)
(* works for the Subscription, whatever older managers are still doing,    *)
(* and its listener was told of every change: it is listening exactly      *)
(* while the Subscription is subscribed.                                   *)
SubscriptionAgrees ==
    /\ listening <=> subscription.state = "Subscribed"
    /\ subscription.state = "Inactive" <=> subscription.manager = None
    /\ \A id \in SubIds :
          /\ manager[id].kind = "living" /\ manager[id].m \in {2, 3}
                <=> subscription.manager = id /\ subscription.state = "Active"
          /\ manager[id].kind = "living" /\ manager[id].m = 4
                <=> subscription.manager = id /\ subscription.state = "Subscribed"

(* A manager never waits for nothing: while its request is pending, either *)
(* it waits for a channel, or the request, its reply or the notification   *)
(* that settles it is on its way.                                          *)
Coming(id, type) == \E i \in DOMAIN stream : stream[i] = [type |-> type, id |-> id]

RequestsUnderWay ==
    /\ channel = "http" /\ ctrl = "idle" => PendingIds(manager) = {}
    /\ channel = "ws" => \A id \in PendingIds(manager) :
          \/ encode(id, manager[id]) \in flight
          \/ \E reply \in replies : reply.id = id /\ reply.op = encode(id, manager[id]).op
          \/ encode(id, manager[id]).op = "add" /\ Coming(id, "SUBOK")
          \/ encode(id, manager[id]).op = "delete" /\ Coming(id, "UNSUB")
    /\ \A id \in SubIds : manager[id].m = 3 => Coming(id, "SUBOK")

(* The server never goes on with a subscription that the client has        *)
(* forgotten: either a manager follows it, or a notification is coming     *)
(* that makes one.                                                         *)
NoOrphan ==
    \A id \in SubIds : server[id] # None => Exists(id) \/ Coming(id, "SUBOK")

(* No request waits for nothing and no subscription of the server is       *)
(* without a manager: what one side began, the other knows of or will.     *)
NothingIsForgotten == TypeOK /\ RequestsUnderWay /\ NoOrphan

(* When no reconfiguration is under way, the server uses the frequency the *)
(* client believes it uses, and it is the one that the application wants   *)
(* unless the server refused that one.                                     *)
FrequencyAgrees ==
    \A id \in SubIds : manager[id].c = 21 =>
        /\ server[id] \in {manager[id].cur, None}
        /\ manager[id].cur = subscription.freq \/ manager[id].refused \/ id \in configuring

(* A subscription that the application has given up is deleted on the      *)
(* server, if the session lasts, even when the request to add it had not   *)
(* been answered.                                                          *)
Unwanted(id) == server[id] # None /\ subscription.manager # id
UnwantedIsDeleted == \A id \in SubIds : Unwanted(id) ~> ~Unwanted(id)

(* One that the application wants is subscribed or refused in the end,     *)
(* whenever it asked, as long as the session lasts.                        *)
WantedIsSubscribed ==
    (subscription.state = "Active" /\ channel # "off")
        ~> (subscription.state # "Active" \/ channel = "off")
=============================================================================
