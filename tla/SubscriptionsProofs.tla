------------------------ MODULE SubscriptionsProofs ------------------------
(***************************************************************************)
(* Proofs about the managers of a Subscription (Subscriptions), for any    *)
(* number of subscriptions, losses and updates on their way, and any set   *)
(* of frequencies that the server refuses.                                 *)
(*                                                                         *)
(* What each invariant of the runs needs is known of one subId at a time:  *)
(* which requests, replies and notifications about it are on their way,    *)
(* and what they may say given its manager and the server (Agrees).  A     *)
(* handler concerns one subId and leaves the others as they are            *)
(* (OthersAgree, AfterHandler); a lost channel or the end of the session   *)
(* concern all of them (ResendInv, EndSessionInv).                         *)
(***************************************************************************)
EXTENDS Subscriptions, TLAPS

(* What is on its way for one subId. *)
Asks(id) == {req \in flight : req.id = id}
Answers(id) == {reply \in replies : reply.id = id}
Asked(op, id) == \E req \in Asks(id) : req.op = op
Answered(op, id) == \E reply \in Answers(id) : reply.op = op

(* A living manager in one of these states. *)
Works(mgr, states) == mgr.kind = "living" /\ mgr.m \in states

(* The fields of a manager go together. *)
WellFormed(mgr) ==
    /\ mgr.kind = "none" => mgr = Gone
    /\ mgr.kind = "zombie" => mgr = Zombie
    /\ mgr.kind = "living" =>
          /\ mgr.m # None /\ mgr.cur # None
          /\ mgr.c # None <=> mgr.m = 4
          /\ mgr.c = 22 => mgr.req # None

(* RequestsUnderWay, for one manager. *)
UnderWay(id) ==
    /\ channel = "ws" /\ isPending(manager[id]) =>
          \/ encode(id, manager[id]) \in Asks(id)
          \/ Answered(encode(id, manager[id]).op, id)
          \/ encode(id, manager[id]).op = "add" /\ Coming(id, "SUBOK")
          \/ encode(id, manager[id]).op = "delete" /\ Coming(id, "UNSUB")
    /\ manager[id].m = 3 => Coming(id, "SUBOK")

(* What the server has is followed by a manager, or its SUBOK is coming to *)
(* one that will: a new one, or one that waits for it.                     *)
Followed(id) ==
    server[id] # None =>
        \/ Coming(id, "SUBOK")
        \/ manager[id].kind = "zombie"
        \/ Works(manager[id], {4, 5})

(* When the server has a subscription whose end is coming, it took it      *)
(* again later, and that SUBOK is coming too.                              *)
EndsFirst(id) ==
    server[id] # None =>
        \A i \in DOMAIN stream : stream[i] = [type |-> "UNSUB", id |-> id] =>
            \E j \in DOMAIN stream : i < j /\ stream[j] = [type |-> "SUBOK", id |-> id]

(* A request to add, and the reply to one, for a manager that lives: it    *)
(* asks for the frequency that the manager believes in, before any other   *)
(* was asked for, and what was accepted is announced.                      *)
AddAgrees(id) ==
    /\ [ok |-> TRUE, op |-> "add", id |-> id] \in Answers(id) /\ Works(manager[id], {2})
          => Coming(id, "SUBOK")
    /\ Asked("add", id) /\ Works(manager[id], {2, 3, 4}) =>
          /\ ~Answered("reconf", id)
          /\ server[id] \in {manager[id].cur, None}
          /\ \A req \in Asks(id) : req.op = "add" => req.freq = manager[id].cur
    /\ Works(manager[id], {2, 3}) => server[id] \in {manager[id].cur, None}
    /\ \A req \in Asks(id) : req.op # "delete" => req.freq # None

(* What was deleted stays so: no request to add it is left.                *)
DeleteAgrees(id) ==
    Answered("delete", id) => server[id] = None /\ ~Asked("add", id)

(* At most one reconfiguration is under way, for a manager that waits for  *)
(* it; the server has the old frequency or, when it granted it, the new.   *)
ReconfAgrees(id) ==
    /\ (Asked("reconf", id) \/ Answered("reconf", id)) /\ Works(manager[id], {2, 3, 4})
          => manager[id].c = 22
    /\ manager[id].c = 21 => server[id] \in {manager[id].cur, None}
    /\ manager[id].c = 22 =>
          /\ \/ server[id] \in {manager[id].cur, None}
             \/ server[id] = manager[id].req /\ manager[id].req \notin RefusedFrequencies
          /\ \A req \in Asks(id) : req.op = "reconf" => req.freq = manager[id].req
          /\ Answered("reconf", id) => ~Asked("reconf", id)
          /\ [ok |-> TRUE, op |-> "reconf", id |-> id] \in Answers(id) =>
                /\ server[id] \in {manager[id].req, None}
                /\ [ok |-> FALSE, op |-> "reconf", id |-> id] \notin Answers(id)
          /\ [ok |-> FALSE, op |-> "reconf", id |-> id] \in Answers(id) =>
                server[id] \in {manager[id].cur, None}

(* All that is said of one subId. *)
Agrees(id) ==
    /\ WellFormed(manager[id])
    /\ UnderWay(id) /\ Followed(id) /\ EndsFirst(id)
    /\ AddAgrees(id) /\ DeleteAgrees(id) /\ ReconfAgrees(id)

(* Nothing is known anywhere of a subId that has not been given yet.       *)
Fresh ==
    \A id \in SubIds : id > nextSubId =>
        /\ manager[id] = Gone /\ server[id] = None /\ id \notin configuring
        /\ Asks(id) = {} /\ Answers(id) = {}
        /\ \A type \in {"SUBOK", "U", "UNSUB"} : ~Coming(id, type)

(* Requests and replies need a channel. *)
Clean ==
    /\ \/ channel \in {"off", "none"}
       \/ channel = "http" /\ ctrl \in {"idle", "pause"}
       => flight = {} /\ replies = {}
    /\ channel = "http" /\ ctrl = "idle" => PendingIds(manager) = {}
    /\ channel = "off" => \A id \in SubIds : server[id] = None

(* The second half of FrequencyAgrees.                                     *)
Wanted ==
    \A id \in SubIds : manager[id].c = 21 =>
        manager[id].cur = subscription.freq \/ manager[id].refused \/ id \in configuring

IInv ==
    /\ TypeOK /\ Fresh /\ Clean
    /\ SubscriptionAgrees /\ Wanted
    /\ \A id \in SubIds : Agrees(id)

-----------------------------------------------------------------------------
(* The request of a manager that is pending, and when it is which.         *)
LEMMA EncodeWhat ==
    ASSUME NEW id \in SubIds, NEW mgr \in Managers, WellFormed(mgr), isPending(mgr)
    PROVE  /\ encode(id, mgr) \in Requests
           /\ encode(id, mgr).id = id
           /\ encode(id, mgr).op = "add" <=> Works(mgr, {2})
           /\ encode(id, mgr).op = "reconf" <=> Works(mgr, {4}) /\ mgr.c = 22
           /\ encode(id, mgr).op = "delete" <=> mgr.kind = "zombie" \/ Works(mgr, {5})
           /\ encode(id, mgr).op = "add" => encode(id, mgr).freq = mgr.cur
           /\ encode(id, mgr).op = "reconf" => encode(id, mgr).freq = mgr.req
<1> USE FrequencyAssumption DEF Managers, WellFormed, isPending, Works, None, Gone, Zombie
<1>1. CASE mgr.kind = "zombie"
  BY <1>1 DEF encode, Requests
<1>2. CASE Works(mgr, {2})
  BY <1>2 DEF encode, Requests
<1>3. CASE Works(mgr, {5})
  BY <1>3 DEF encode, Requests
<1>4. CASE Works(mgr, {4}) /\ mgr.c = 22
  BY <1>4 DEF encode, Requests
<1> QED
  BY <1>1, <1>2, <1>3, <1>4

(* What is sent for a manager is what it waits for, and nothing else.      *)
Sends(id) ==
    \/ /\ channel = "ws" /\ UNCHANGED ctrl
       /\ flight' = flight \cup {encode(id, manager'[id])}
    \/ /\ channel = "http" /\ ctrl = "idle" /\ ctrl' = "busy"
       /\ flight' = flight \cup {encode(id, manager'[id])}
    \/ /\ channel \in {"off", "none"} \/ (channel = "http" /\ ctrl # "idle")
       /\ UNCHANGED <<flight, ctrl>>

(* With the HTTP channel idle nothing else is pending, so the batch is the *)
(* one request.                                                            *)
LEMMA GenSend ==
    ASSUME TypeOK, Clean, NEW id \in SubIds, NEW mgr \in Managers, isPending(mgr),
           manager' = [manager EXCEPT ![id] = mgr], genSendControl(id)
    PROVE  Sends(id)
<1> USE DEF TypeOK
<1>1. manager'[id] = mgr /\ \A j \in SubIds \ {id} : manager'[j] = manager[j]
  OBVIOUS
<1>2. CASE channel = "http" /\ ctrl = "idle" /\ sendPendingControlsHTTP
  <2>1. PendingIds(manager) = {} /\ flight = {}
    BY <1>2 DEF Clean
  <2>2. PendingIds(manager') = {id}
    BY <1>1, <2>1 DEF PendingIds
  <2>3. /\ ctrl' = "busy"
        /\ \E batch \in (SUBSET PendingIds(manager')) \ {{}} :
               flight' = {encode(i, manager'[i]) : i \in batch}
    BY <1>2, <2>2 DEF sendPendingControlsHTTP
  <2>4. flight' = {encode(id, manager'[id])}
    <3>1. PICK batch \in (SUBSET {id}) \ {{}} : flight' = {encode(i, manager'[i]) : i \in batch}
      BY <2>2, <2>3
    <3>2. batch = {id}
      OBVIOUS
    <3> QED
      BY <3>1, <3>2
  <2> QED
    BY <1>2, <2>1, <2>3, <2>4 DEF Sends
<1> QED
  BY <1>1, <1>2 DEF genSendControl, Sends

-----------------------------------------------------------------------------
(* What a notification leaves behind when it is read ... *)
LEMMA AfterTail ==
    ASSUME stream \in Seq(Notifications), stream # <<>>, stream' = Tail(stream)
    PROVE  /\ Head(stream) \in Notifications
           /\ stream' \in Seq(Notifications)
           /\ \A id \in SubIds, type \in {"SUBOK", "U", "UNSUB"} :
                 Coming(id, type) /\ Head(stream) # [type |-> type, id |-> id] => Coming(id, type)'
           /\ \A id \in SubIds, type \in {"SUBOK", "U", "UNSUB"} :
                 Coming(id, type)' => Coming(id, type)
           /\ \A id \in SubIds : EndsFirst(id) /\ UNCHANGED server => EndsFirst(id)'
           /\ \A id \in SubIds :
                 EndsFirst(id) /\ Head(stream) = [type |-> "UNSUB", id |-> id] /\ server[id] # None
                    => Coming(id, "SUBOK")'
<1>1. /\ Len(stream) \in Nat /\ Len(stream) > 0 /\ DOMAIN stream = 1..Len(stream)
      /\ Head(stream) = stream[1] /\ stream[1] \in Notifications
      /\ stream' \in Seq(Notifications) /\ DOMAIN stream' = 1..(Len(stream) - 1)
      /\ \A i \in 1..(Len(stream) - 1) : stream'[i] = stream[i + 1]
  OBVIOUS
<1>2. \A i \in DOMAIN stream : i > 1 => i - 1 \in DOMAIN stream' /\ stream'[i - 1] = stream[i]
  BY <1>1
<1>3. \A id \in SubIds, type \in {"SUBOK", "U", "UNSUB"} :
          Coming(id, type) /\ Head(stream) # [type |-> type, id |-> id] => Coming(id, type)'
  <2> SUFFICES ASSUME NEW id \in SubIds, NEW type \in {"SUBOK", "U", "UNSUB"},
                      Coming(id, type), Head(stream) # [type |-> type, id |-> id]
               PROVE  \E i \in DOMAIN stream' : stream'[i] = [type |-> type, id |-> id]
    BY DEF Coming
  <2>1. PICK i \in DOMAIN stream : stream[i] = [type |-> type, id |-> id]
    BY DEF Coming
  <2>2. i > 1
    BY <1>1, <2>1
  <2> QED
    BY <1>2, <2>1, <2>2
<1>6. \A id \in SubIds, type \in {"SUBOK", "U", "UNSUB"} : Coming(id, type)' => Coming(id, type)
  BY <1>1 DEF Coming
<1>4. ASSUME NEW id \in SubIds, EndsFirst(id), UNCHANGED server
      PROVE  EndsFirst(id)'
  <2> SUFFICES ASSUME server[id] # None, NEW i \in DOMAIN stream',
                      stream'[i] = [type |-> "UNSUB", id |-> id]
               PROVE  \E j \in DOMAIN stream' :
                          i < j /\ stream'[j] = [type |-> "SUBOK", id |-> id]
    BY <1>4 DEF EndsFirst
  <2>1. i + 1 \in DOMAIN stream /\ stream[i + 1] = [type |-> "UNSUB", id |-> id]
    BY <1>1
  <2>2. PICK j \in DOMAIN stream : i + 1 < j /\ stream[j] = [type |-> "SUBOK", id |-> id]
    BY <1>4, <2>1 DEF EndsFirst
  <2>3. i < j - 1 /\ j > 1
    BY <1>1, <2>2
  <2> QED
    BY <1>2, <2>2, <2>3
<1>5. ASSUME NEW id \in SubIds, EndsFirst(id), server[id] # None,
             Head(stream) = [type |-> "UNSUB", id |-> id]
      PROVE  Coming(id, "SUBOK")'
  <2>1. PICK j \in DOMAIN stream : 1 < j /\ stream[j] = [type |-> "SUBOK", id |-> id]
    BY <1>1, <1>5 DEF EndsFirst
  <2> QED
    BY <1>2, <2>1 DEF Coming
<1> QED
  BY <1>1, <1>3, <1>4, <1>5, <1>6

(* ... and when it is sent. *)
LEMMA AfterNotify ==
    ASSUME stream \in Seq(Notifications), NEW k \in SubIds,
           NEW t \in {"SUBOK", "U", "UNSUB"}, Notify(k, t)
    PROVE  /\ stream' \in Seq(Notifications)
           /\ \A id \in SubIds, type \in {"SUBOK", "U", "UNSUB"} :
                 Coming(id, type) => Coming(id, type)'
           /\ \A id \in SubIds \ {k}, type \in {"SUBOK", "U", "UNSUB"} :
                 Coming(id, type)' => Coming(id, type)
           /\ Coming(k, t)'
           /\ \A id \in SubIds :
                 EndsFirst(id) /\ server'[id] = server[id] /\ (t # "UNSUB" \/ k # id)
                    => EndsFirst(id)'
           /\ t = "SUBOK" => EndsFirst(k)'
<1> DEFINE new == [type |-> t, id |-> k]
<1>1. /\ Len(stream) \in Nat /\ DOMAIN stream = 1..Len(stream)
      /\ stream' \in Seq(Notifications) /\ DOMAIN stream' = 1..(Len(stream) + 1)
      /\ stream'[Len(stream) + 1] = new
      /\ \A i \in 1..Len(stream) : stream'[i] = stream[i]
  <2>1. stream' = Append(stream, new) /\ new \in Notifications
    BY DEF Notify, Notifications
  <2> QED
    BY <2>1
<1> HIDE DEF new
<1>2. \A i \in DOMAIN stream : i \in DOMAIN stream' /\ stream'[i] = stream[i]
  BY <1>1
<1>3. \A id \in SubIds, type \in {"SUBOK", "U", "UNSUB"} : Coming(id, type) => Coming(id, type)'
  BY <1>2 DEF Coming
<1>7. \A id \in SubIds \ {k}, type \in {"SUBOK", "U", "UNSUB"} :
          Coming(id, type)' => Coming(id, type)
  BY <1>1 DEF Coming, new
<1>4. Coming(k, t)'
  BY <1>1 DEF Coming, new
<1>5. ASSUME NEW id \in SubIds, EndsFirst(id), server'[id] = server[id], t # "UNSUB" \/ k # id
      PROVE  EndsFirst(id)'
  <2> SUFFICES ASSUME server[id] # None, NEW i \in DOMAIN stream',
                      stream'[i] = [type |-> "UNSUB", id |-> id]
               PROVE  \E j \in DOMAIN stream' :
                          i < j /\ stream'[j] = [type |-> "SUBOK", id |-> id]
    BY <1>5 DEF EndsFirst
  <2>1. i \in DOMAIN stream /\ stream[i] = [type |-> "UNSUB", id |-> id]
    BY <1>1, <1>5 DEF new
  <2>2. PICK j \in DOMAIN stream : i < j /\ stream[j] = [type |-> "SUBOK", id |-> id]
    BY <1>5, <2>1 DEF EndsFirst
  <2> QED
    BY <1>2, <2>2
<1>6. ASSUME t = "SUBOK" PROVE EndsFirst(k)'
  <2> SUFFICES ASSUME NEW i \in DOMAIN stream', stream'[i] = [type |-> "UNSUB", id |-> k]
               PROVE  \E j \in DOMAIN stream' :
                          i < j /\ stream'[j] = [type |-> "SUBOK", id |-> k]
    BY DEF EndsFirst
  <2>1. i # Len(stream) + 1
    BY <1>1, <1>6 DEF new
  <2> QED
    BY <1>1, <1>6, <2>1 DEF new
<1> QED
  BY <1>1, <1>3, <1>4, <1>5, <1>6, <1>7

-----------------------------------------------------------------------------
(* A step about one subId leaves what is said of the others as it is. *)
Unconcerned(id) ==
    /\ manager'[id] = manager[id] /\ server'[id] = server[id] /\ channel' = channel
    /\ Asks(id)' = Asks(id) /\ Answers(id)' = Answers(id)
    /\ \A type \in {"SUBOK", "U", "UNSUB"} : Coming(id, type) => Coming(id, type)'
    /\ EndsFirst(id) => EndsFirst(id)'

(* What was said of them still holds. *)
LEMMA OthersAgree ==
    ASSUME NEW id \in SubIds, Agrees(id), Unconcerned(id)
    PROVE  Agrees(id)'
<1> USE DEF Agrees, Unconcerned
<1>1. WellFormed(manager[id])'
  OBVIOUS
<1>2. UnderWay(id)'
  BY DEF UnderWay, Answered
<1>3. Followed(id)' /\ EndsFirst(id)'
  BY DEF Followed
<1>4. AddAgrees(id)'
  BY DEF AddAgrees, Asked, Answered
<1>5. DeleteAgrees(id)' /\ ReconfAgrees(id)'
  BY DEF DeleteAgrees, ReconfAgrees, Asked, Answered
<1> QED
  BY <1>1, <1>2, <1>3, <1>4, <1>5

-----------------------------------------------------------------------------
(* A handler gives one manager a new value, sends its request if it is     *)
(* pending, and may have read a reply or a notification for it.            *)
Handles(id, mgr) ==
    /\ manager' = [manager EXCEPT ![id] = mgr]
    /\ \/ isPending(mgr) /\ genSendControl(id)
       \/ ~isPending(mgr) /\ UNCHANGED <<flight, ctrl>>
    /\ replies' \subseteq replies /\ \A j \in SubIds \ {id} : Answers(j)' = Answers(j)
    /\ \/ UNCHANGED stream
       \/ stream # <<>> /\ stream' = Tail(stream) /\ Head(stream).id = id
    /\ UNCHANGED <<channel, server, losses>>

(* The requests of that manager after the step. *)
AsksAfter(id, mgr) ==
    \/ isPending(mgr) /\ channel \in {"ws", "http"} /\ Asks(id)' = Asks(id) \cup {encode(id, mgr)}
    \/ (isPending(mgr) => channel # "ws") /\ Asks(id)' = Asks(id)

(* What such a step leaves. *)
Leaves(id, mgr) ==
    /\ manager' \in [SubIds -> Managers] /\ manager'[id] = mgr
    /\ \A j \in SubIds \ {id} : manager'[j] = manager[j]
    /\ ctrl' \in {"idle", "busy", "pause"} /\ flight' \subseteq Requests
    /\ replies' \subseteq Replies /\ stream' \in Seq(Notifications)
    /\ Clean'
    /\ \A j \in SubIds \ {id} : Agrees(j)' /\ Asks(j)' = Asks(j)
    /\ AsksAfter(id, mgr)

(* It leaves that, whatever the handler. *)
LEMMA AfterHandler ==
    ASSUME IInv, NEW id \in SubIds, NEW mgr \in Managers, WellFormed(mgr), Handles(id, mgr)
    PROVE  /\ Leaves(id, mgr)
           /\ nextSubId' = nextSubId /\ id <= nextSubId /\ configuring' \subseteq configuring \cup {id}
                 => Fresh'
<1> USE DEF IInv, TypeOK, Leaves
<1>1. /\ manager' \in [SubIds -> Managers] /\ manager'[id] = mgr
      /\ \A j \in SubIds \ {id} : manager'[j] = manager[j]
  BY DEF Handles
<1>2. isPending(mgr) => Sends(id)
  BY GenSend DEF Handles
<1>3. isPending(mgr) => /\ encode(id, mgr) \in Requests /\ encode(id, mgr).id = id
  BY EncodeWhat
<1>4. /\ ctrl' \in {"idle", "busy", "pause"} /\ flight' \subseteq Requests
      /\ \A j \in SubIds \ {id} : Asks(j)' = Asks(j)
      /\ AsksAfter(id, mgr)
  <2>1. CASE flight' = flight \cup {encode(id, mgr)} /\ isPending(mgr) /\ Sends(id)
             /\ channel \in {"ws", "http"}
    BY <1>1, <1>3, <2>1 DEF Sends, Asks, AsksAfter
  <2>2. CASE UNCHANGED <<flight, ctrl>> /\ (isPending(mgr) => channel # "ws")
    BY <2>2 DEF Asks, AsksAfter
  <2> QED
    BY <1>1, <1>2, <2>1, <2>2 DEF Handles, Sends
<1>5. replies' \subseteq Replies
  BY DEF Handles
<1>6. stream' \in Seq(Notifications)
  BY AfterTail DEF Handles
<1>7. Clean'
  <2>1. isPending(mgr) =>
            \/ channel \in {"ws", "http"} /\ ctrl' \notin {"idle", "pause"}
            \/ channel = "ws"
            \/ UNCHANGED <<flight, ctrl>> /\ ~(channel = "http" /\ ctrl = "idle")
    BY <1>2 DEF Sends
  <2>2. ~isPending(mgr) =>
            UNCHANGED <<flight, ctrl>> /\ PendingIds(manager') \subseteq PendingIds(manager)
    BY <1>1 DEF Handles, PendingIds
  <2> QED
    BY <2>1, <2>2 DEF Clean, Handles
<1>8. ASSUME NEW j \in SubIds \ {id} PROVE Agrees(j)'
  <2>1. /\ \A type \in {"SUBOK", "U", "UNSUB"} : Coming(j, type) => Coming(j, type)'
        /\ EndsFirst(j) => EndsFirst(j)'
    <3>1. CASE stream # <<>> /\ stream' = Tail(stream) /\ Head(stream).id = id
      <4>1. \A type \in {"SUBOK", "U", "UNSUB"} : Head(stream) # [type |-> type, id |-> j]
        BY <3>1
      <4> QED
        BY <3>1, <4>1, AfterTail DEF Handles
    <3>2. CASE UNCHANGED stream
      BY <3>2 DEF Coming, EndsFirst, Handles
    <3> QED
      BY <3>1, <3>2 DEF Handles
  <2>2. Unconcerned(j)
    BY <1>1, <1>4, <2>1 DEF Unconcerned, Handles
  <2> QED
    BY <2>2, OthersAgree
<1>9. ASSUME nextSubId' = nextSubId, id <= nextSubId, configuring' \subseteq configuring \cup {id}
      PROVE  Fresh'
  <2>1. ASSUME NEW j \in SubIds, j > nextSubId
        PROVE  /\ manager'[j] = Gone /\ server'[j] = None /\ j \notin configuring'
               /\ Asks(j)' = {} /\ Answers(j)' = {}
    <3>1. j # id
      BY <1>9, <2>1 DEF SubIds
    <3> QED
      BY <1>1, <1>4, <1>9, <2>1, <3>1 DEF Fresh, Handles
  <2>2. ASSUME NEW j \in SubIds, j > nextSubId, NEW type \in {"SUBOK", "U", "UNSUB"}
        PROVE  ~Coming(j, type)'
    <3>1. ~Coming(j, type)
      BY <2>2 DEF Fresh
    <3>2. UNCHANGED stream => ~Coming(j, type)'
      BY <3>1 DEF Coming
    <3> QED
      BY <3>1, <3>2, AfterTail DEF Handles
  <2> QED
    BY <1>9, <2>1, <2>2 DEF Fresh
<1> QED
  BY <1>1, <1>4, <1>5, <1>6, <1>7, <1>8, <1>9

-----------------------------------------------------------------------------
(* Subscribing: nothing is known yet of the new subId.                     *)
LEMMA SubscribeInv == IInv /\ evtExtSubscribe => IInv'
<1> SUFFICES ASSUME IInv, evtExtSubscribe PROVE IInv'
  OBVIOUS
<1> USE FrequencyAssumption, SubscriptionBounds DEF Leaves
<1>0. /\ nextSubId \in 0..MaxSubId /\ nextSubId < MaxSubId /\ subscription.freq \in Frequencies
      /\ subscription \in [state : {"Inactive", "Active", "Subscribed"},
                          manager : SubIds \cup {None}, freq : Frequencies]
  BY DEF IInv, TypeOK, evtExtSubscribe
<1>a. PICK id \in SubIds : id = nextSubId + 1
  BY <1>0 DEF SubIds
<1>b. Living(subscription.freq) \in Managers
  BY <1>0 DEF Living, Gone, Managers, None
<1>c. PICK mgr \in Managers : mgr = Living(subscription.freq)
  BY <1>b
<1>1. /\ nextSubId' = id /\ manager' = [manager EXCEPT ![id] = mgr] /\ genSendControl(id)
      /\ subscription.state = "Inactive"
      /\ subscription'.state = "Active" /\ subscription'.manager = id
      /\ subscription'.freq = subscription.freq
      /\ subscription' \in [state : {"Inactive", "Active", "Subscribed"},
                           manager : SubIds \cup {None}, freq : Frequencies]
      /\ UNCHANGED <<listening, configuring, channel, replies, stream, server, losses>>
  BY <1>0, <1>a, <1>c DEF evtExtSubscribe, Activate
<1>2. /\ WellFormed(mgr) /\ isPending(mgr)
      /\ mgr.kind = "living" /\ mgr.m = 2 /\ mgr.c = None /\ mgr.cur = subscription.freq
  BY <1>0, <1>c DEF Living, Gone, WellFormed, isPending, None
<1>3. Handles(id, mgr)
  BY <1>1, <1>2 DEF Handles, Answers
<1>4. /\ Leaves(id, mgr)
  BY <1>1, <1>2, <1>3, AfterHandler
<1>5. /\ manager[id] = Gone /\ server[id] = None /\ Asks(id) = {} /\ Answers(id) = {}
      /\ Answers(id)' = {} /\ server'[id] = None
  BY <1>0, <1>a, <1>1 DEF IInv, Fresh, TypeOK, Answers
<1>6. TypeOK'
  BY <1>1, <1>4 DEF IInv, TypeOK, SubIds
<1>7. Fresh'
  <2>1. \A j \in SubIds : j > nextSubId' => j > nextSubId /\ j # id
    BY <1>0, <1>1, <1>a DEF SubIds
  <2> QED
    BY <1>1, <1>4, <2>1 DEF IInv, Fresh, Answers, Coming
<1>8. SubscriptionAgrees'
  BY <1>1, <1>2, <1>4 DEF IInv, SubscriptionAgrees, SubIds, None
<1>9. Wanted'
  BY <1>1, <1>2, <1>4 DEF IInv, Wanted, None
<1>10. Agrees(id)'
  <2>1. \/ channel # "ws" /\ Asks(id)' = {}
        \/ channel \in {"ws", "http"} /\ Asks(id)' = {encode(id, mgr)}
    BY <1>2, <1>4, <1>5 DEF AsksAfter
  <2>2. /\ encode(id, mgr).op = "add" /\ encode(id, mgr).freq = subscription.freq
        /\ subscription.freq # None
    BY <1>1, <1>2, EncodeWhat DEF Works, None
  <2>3. WellFormed(manager[id])' /\ UnderWay(id)'
    BY <1>1, <1>2, <1>4, <2>1 DEF UnderWay
  <2>4. Followed(id)' /\ EndsFirst(id)'
    BY <1>5 DEF Followed, EndsFirst
  <2>5. AddAgrees(id)' /\ DeleteAgrees(id)' /\ ReconfAgrees(id)'
    BY <1>2, <1>4, <1>5, <2>1, <2>2
       DEF AddAgrees, DeleteAgrees, ReconfAgrees, Asked, Answered, Works, None
  <2> QED
    BY <2>3, <2>4, <2>5 DEF Agrees
<1> QED
  BY <1>4, <1>6, <1>7, <1>8, <1>9, <1>10 DEF IInv

(* A manager that exists, or is heard of, has a subId that was given.      *)
LEMMA Given ==
    ASSUME IInv, NEW id \in SubIds,
           \/ manager[id] # Gone \/ id \in configuring \/ Asks(id) # {} \/ Answers(id) # {}
           \/ server[id] # None
           \/ \E type \in {"SUBOK", "U", "UNSUB"} : Coming(id, type)
    PROVE  id <= nextSubId
BY DEF IInv, TypeOK, Fresh, SubIds

(* A manager that is done, when nothing is left to follow on the server.   *)
LEMMA GoneAgrees ==
    ASSUME NEW id \in SubIds, Agrees(id), manager'[id] = Gone, AsksAfter(id, Gone),
           UNCHANGED <<server, channel>>, Answers(id)' \subseteq Answers(id), EndsFirst(id)',
           server[id] # None => Coming(id, "SUBOK")'
    PROVE  Agrees(id)'
<1>1. /\ Gone.kind = "none" /\ Gone.m = None /\ Gone.c = None
      /\ WellFormed(Gone) /\ ~isPending(Gone)
  BY DEF Gone, WellFormed, isPending, None
<1>2. Asks(id)' = Asks(id)
  BY <1>1 DEF AsksAfter
<1> HIDE DEF Gone
<1> QED
  BY <1>1, <1>2
     DEF Agrees, UnderWay, Followed, AddAgrees, DeleteAgrees, ReconfAgrees, Asked, Answered,
         Works, None

(* A manager that begins to delete its subscription. *)
LEMMA DeletingAgrees ==
    ASSUME NEW id \in SubIds, NEW mgr \in Managers, Agrees(id), WellFormed(mgr),
           mgr.kind = "zombie" \/ Works(mgr, {5}), manager'[id] = mgr, AsksAfter(id, mgr),
           UNCHANGED <<server, channel>>, Answers(id)' \subseteq Answers(id), EndsFirst(id)'
    PROVE  Agrees(id)'
<1>1. isPending(mgr) /\ ~Works(mgr, {2, 3, 4}) /\ mgr.c = None /\ mgr.m # 3
  <2>1. Zombie.kind = "zombie" /\ Zombie.m = 2 /\ Zombie.c = None
    BY DEF Zombie, Gone, None
  <2> QED
    BY <2>1 DEF WellFormed, Works, isPending, None
<1>2. encode(id, mgr).op = "delete"
  BY <1>1, EncodeWhat
<1>3. UnderWay(id)' /\ Followed(id)'
  BY <1>1, <1>2 DEF UnderWay, Followed, AsksAfter, Works
<1>4. \A req \in Asks(id)' : req \in Asks(id) \/ req = encode(id, mgr)
  BY DEF AsksAfter
<1>5. AddAgrees(id)' /\ DeleteAgrees(id)' /\ ReconfAgrees(id)'
  BY <1>1, <1>2, <1>4
     DEF Agrees, AddAgrees, DeleteAgrees, ReconfAgrees, Asked, Answered, Works, None
<1> QED
  BY <1>3, <1>5 DEF Agrees

(* Unsubscribing: the manager goes at once if its request was not accepted *)
(* yet, and otherwise waits until the server knows.                        *)
LEMMA UnsubscribeInv == IInv /\ evtExtUnsubscribe => IInv'
<1> SUFFICES ASSUME IInv, evtExtUnsubscribe PROVE IInv'
  OBVIOUS
<1> USE DEF Leaves
<1>1. PICK id \in SubIds :
        /\ id = subscription.manager
        /\ subscription' = Inactivate
        /\ \/ /\ manager[id].m = 2
              /\ manager' = [manager EXCEPT ![id] = Gone]
              /\ UNCHANGED <<listening, flight, ctrl>>
           \/ /\ manager[id].m \in {3, 4}
              /\ manager' = [manager EXCEPT ![id] = [@ EXCEPT !.m = 5, !.c = None]]
              /\ IF manager[id].m = 4 THEN listening' = FALSE ELSE UNCHANGED listening
              /\ genSendControl(id)
        /\ UNCHANGED <<nextSubId, configuring, channel, replies, stream, server, losses>>
  BY DEF evtExtUnsubscribe
<1>2. /\ manager[id] \in Managers /\ Agrees(id) /\ subscription.state \in {"Active", "Subscribed"}
      /\ subscription \in [state : {"Inactive", "Active", "Subscribed"},
                          manager : SubIds \cup {None}, freq : Frequencies]
      /\ manager[id].kind = "living" /\ manager[id].m \in {2, 3, 4}
      /\ manager \in [SubIds -> Managers] /\ 0 \notin SubIds
  BY <1>1 DEF IInv, TypeOK, SubscriptionAgrees, None, SubIds
<1>3. PICK mgr \in Managers :
        /\ manager' = [manager EXCEPT ![id] = mgr] /\ WellFormed(mgr)
        /\ \/ manager[id].m = 2 /\ mgr = Gone /\ UNCHANGED <<flight, ctrl>>
           \/ /\ manager[id].m \in {3, 4}
              /\ mgr.kind = "living" /\ mgr.m = 5 /\ mgr.c = None
              /\ genSendControl(id)
  <2>1. CASE manager[id].m = 2
    <3>1. Gone \in Managers /\ WellFormed(Gone)
      BY DEF Gone, Managers, None, WellFormed
    <3> QED
      BY <1>1, <1>2, <2>1, <3>1
  <2>2. CASE manager[id].m \in {3, 4}
    <3> DEFINE new == [manager[id] EXCEPT !.m = 5, !.c = None]
    <3>1. new \in Managers
      BY <1>2 DEF Managers, None
    <3>2. new.kind = "living" /\ new.m = 5 /\ new.c = None /\ new.cur = manager[id].cur
      BY <1>2 DEF Managers, None
    <3>3. WellFormed(new)
      BY <1>2, <3>2 DEF Agrees, WellFormed, None
    <3>4. manager' = [manager EXCEPT ![id] = new]
      BY <1>1, <2>2
    <3>5. genSendControl(id)
      BY <1>1, <2>2
    <3> HIDE DEF new
    <3> QED
      BY <2>2, <3>1, <3>2, <3>3, <3>4, <3>5
  <2> QED
    BY <1>2, <2>1, <2>2
<1>4. Handles(id, mgr)
  BY <1>1, <1>3 DEF Handles, Answers, isPending, Gone, None
<1>5. id <= nextSubId
  BY <1>2, Given DEF Gone
<1>6. /\ Leaves(id, mgr) /\ Fresh'
  BY <1>1, <1>3, <1>4, <1>5, AfterHandler
<1>7. /\ subscription'.state = "Inactive" /\ subscription'.manager = None
      /\ subscription'.freq = subscription.freq
      /\ subscription' \in [state : {"Inactive", "Active", "Subscribed"},
                           manager : SubIds \cup {None}, freq : Frequencies]
  BY <1>1, <1>2 DEF Inactivate
<1>8. TypeOK'
  BY <1>1, <1>3, <1>6, <1>7 DEF IInv, TypeOK
<1>9. SubscriptionAgrees'
  <2>1. ~(mgr.kind = "living" /\ mgr.m \in {2, 3, 4})
    BY <1>3 DEF Gone, None
  <2>2. \A j \in SubIds \ {id} : ~(manager[j].kind = "living" /\ manager[j].m \in {2, 3, 4})
    BY <1>1, <1>2 DEF IInv, SubscriptionAgrees
  <2>3. listening' = FALSE
    <3>1. listening => manager[id].m = 4
      BY <1>1, <1>2 DEF IInv, SubscriptionAgrees
    <3>2. listening \in BOOLEAN
      BY DEF IInv, TypeOK
    <3> QED
      BY <1>1, <3>1, <3>2
  <2> QED
    <3>1. \A j \in SubIds : ~(manager'[j].kind = "living" /\ manager'[j].m \in {2, 3, 4})
      BY <1>6, <2>1, <2>2
    <3> QED
      BY <1>2, <1>7, <2>3, <3>1 DEF SubscriptionAgrees, None
<1>10. Wanted'
  BY <1>1, <1>3, <1>6, <1>7 DEF IInv, Wanted, None, Gone
<1>11. Agrees(id)'
  <2>1. Answers(id)' = Answers(id) /\ EndsFirst(id)'
    BY <1>1, <1>2 DEF Agrees, Answers, EndsFirst
  <2>2. CASE manager[id].m = 2 /\ mgr = Gone
    <3>1. server[id] # None => Coming(id, "SUBOK")'
      BY <1>1, <1>2, <2>2 DEF Agrees, Followed, Works, Coming
    <3> QED
      BY <1>1, <1>2, <1>6, <2>1, <2>2, <3>1, GoneAgrees
  <2>3. CASE mgr.kind = "living" /\ mgr.m = 5
    BY <1>1, <1>2, <1>3, <1>6, <2>1, <2>3, DeletingAgrees DEF Works
  <2> QED
    BY <1>3, <2>2, <2>3
<1> QED
  BY <1>6, <1>8, <1>9, <1>10, <1>11 DEF IInv

(* Only a manager that is subscribed has a state of reconfiguration.       *)
LEMMA SubscribedManager ==
    ASSUME NEW mgr \in Managers, WellFormed(mgr), mgr.c \in {21, 22}
    PROVE  Works(mgr, {4}) /\ mgr.cur # None
<1>1. mgr.kind \in {"none", "living", "zombie"}
  BY DEF Managers
<1>2. Gone.c = 0 /\ Zombie.c = 0
  BY DEF Gone, Zombie, None
<1>3. mgr.kind # "none" /\ mgr.kind # "zombie"
  BY <1>2 DEF WellFormed
<1> QED
  BY <1>1, <1>3 DEF WellFormed, Works, None

-----------------------------------------------------------------------------
(* The first half of setRequestedMaxFrequency touches no manager.          *)
LEMMA SetFrequencyInv == IInv /\ setRequestedMaxFrequency => IInv'
<1> SUFFICES ASSUME IInv, setRequestedMaxFrequency PROVE IInv'
  OBVIOUS
<1>1. PICK freq \in Frequencies :
        /\ subscription' = [subscription EXCEPT !.freq = freq]
        /\ configuring' = configuring \cup (SubIds \cap {subscription.manager})
        /\ UNCHANGED <<manager, nextSubId, listening, network, channel, stream, server, losses>>
  BY DEF setRequestedMaxFrequency
<1>2. /\ subscription \in [state : {"Inactive", "Active", "Subscribed"},
                          manager : SubIds \cup {None}, freq : Frequencies]
  BY DEF IInv, TypeOK
<1>3. /\ subscription'.state = subscription.state
      /\ subscription'.manager = subscription.manager
      /\ subscription'.freq = freq
      /\ subscription' \in [state : {"Inactive", "Active", "Subscribed"},
                           manager : SubIds \cup {None}, freq : Frequencies]
  BY <1>1, <1>2
<1>4. TypeOK' /\ Clean'
  BY <1>1, <1>3 DEF IInv, TypeOK, Clean, network
<1>5. SubscriptionAgrees'
  BY <1>1, <1>3 DEF IInv, SubscriptionAgrees
<1>6. \A id \in SubIds : manager[id].c = 21 => id \in configuring'
  <2> SUFFICES ASSUME NEW id \in SubIds, manager[id].c = 21 PROVE id \in configuring'
    OBVIOUS
  <2>1. manager[id].kind = "living" /\ manager[id].m = 4
    BY SubscribedManager DEF IInv, TypeOK, Agrees, Works
  <2>2. subscription.manager = id
    BY <2>1 DEF IInv, SubscriptionAgrees
  <2> QED
    BY <1>1, <2>2
<1>7. Wanted'
  BY <1>1, <1>6 DEF Wanted
<1>8. Fresh'
  <2>1. subscription.manager \in SubIds => subscription.manager <= nextSubId
    <3>1. subscription.manager \in SubIds => manager[subscription.manager].kind = "living"
      BY <1>2 DEF IInv, SubscriptionAgrees, SubIds, None
    <3> QED
      BY <3>1, Given DEF Gone
  <2> QED
    BY <1>1, <2>1 DEF IInv, TypeOK, Fresh, SubIds, Asks, Answers, Coming, network
<1>9. ASSUME NEW id \in SubIds PROVE Agrees(id)'
  <2>1. Unconcerned(id)
    BY <1>1 DEF Unconcerned, Asks, Answers, Coming, EndsFirst, network
  <2> QED
    BY <2>1, OthersAgree DEF IInv
<1> QED
  BY <1>4, <1>5, <1>7, <1>8, <1>9 DEF IInv

(* What evtCheckFrequency makes of a manager that is subscribed.           *)
LEMMA CheckFrequency ==
    ASSUME NEW mgr \in Managers, Works(mgr, {4}), mgr.cur # None,
           subscription.freq \in Frequencies
    PROVE  /\ evtCheckFrequency(mgr) \in Managers
           /\ WellFormed(evtCheckFrequency(mgr))
           /\ Works(evtCheckFrequency(mgr), {4})
           /\ evtCheckFrequency(mgr).cur = mgr.cur
           /\ \/ /\ evtCheckFrequency(mgr).c = 22
                 /\ evtCheckFrequency(mgr).req = subscription.freq
              \/ /\ evtCheckFrequency(mgr).c = 21
                 /\ mgr.cur = subscription.freq
<1> USE FrequencyAssumption
<1>1. CASE mgr.cur # subscription.freq
  <2> DEFINE r == [mgr EXCEPT !.c = 22, !.req = subscription.freq, !.refused = FALSE]
  <2>1. /\ r \in Managers /\ r.kind = mgr.kind /\ r.m = mgr.m /\ r.cur = mgr.cur
        /\ r.c = 22 /\ r.req = subscription.freq
    BY DEF Managers, None
  <2>2. evtCheckFrequency(mgr) = r
    BY <1>1 DEF evtCheckFrequency
  <2> QED
    BY <2>1, <2>2 DEF Works, WellFormed, None
<1>2. CASE mgr.cur = subscription.freq
  <2> DEFINE r == [mgr EXCEPT !.c = 21, !.refused = FALSE]
  <2>1. /\ r \in Managers /\ r.kind = mgr.kind /\ r.m = mgr.m /\ r.cur = mgr.cur
        /\ r.c = 21
    BY DEF Managers, None
  <2>2. evtCheckFrequency(mgr) = r
    BY <1>2 DEF evtCheckFrequency
  <2> QED
    BY <1>2, <2>1, <2>2 DEF Works, WellFormed, None
<1> QED
  BY <1>1, <1>2

(* A subscribed manager that begins or ends a reconfiguration when nothing *)
(* is left of an earlier one.                                              *)
LEMMA ReconfiguredAgrees ==
    ASSUME NEW id \in SubIds, NEW mgr \in Managers, Agrees(id), WellFormed(mgr),
           Works(mgr, {4}), manager'[id] = mgr, AsksAfter(id, mgr),
           UNCHANGED <<server, channel>>, Answers(id)' \subseteq Answers(id), EndsFirst(id)',
           ~Asked("reconf", id), ~Answered("reconf", id)', server[id] \in {mgr.cur, None},
           \A req \in Asks(id) : req.op = "add" => req.freq = mgr.cur
    PROVE  Agrees(id)'
<1>1. /\ mgr.c \in {21, 22} /\ mgr.m = 4 /\ mgr.kind = "living"
      /\ isPending(mgr) <=> mgr.c = 22
  BY DEF Works, WellFormed, isPending, Managers, None
<1>2. isPending(mgr) => /\ encode(id, mgr).op = "reconf" /\ encode(id, mgr).freq = mgr.req
                        /\ mgr.req # None
  BY <1>1, EncodeWhat DEF WellFormed
<1>3. UnderWay(id)' /\ Followed(id)'
  BY <1>1, <1>2 DEF UnderWay, Followed, AsksAfter, Works
<1>4. \A req \in Asks(id)' : req \in Asks(id) \/ (isPending(mgr) /\ req = encode(id, mgr))
  BY DEF AsksAfter
<1>5. AddAgrees(id)'
  BY <1>1, <1>2, <1>4 DEF Agrees, AddAgrees, Asked, Answered, Works
<1>6. DeleteAgrees(id)'
  BY <1>2, <1>4 DEF Agrees, DeleteAgrees, Asked, Answered
<1>7. ReconfAgrees(id)'
  <2>1. ~([ok |-> TRUE, op |-> "reconf", id |-> id] \in Answers(id)')
        /\ ~([ok |-> FALSE, op |-> "reconf", id |-> id] \in Answers(id)')
    BY DEF Answered
  <2>2. \A req \in Asks(id)' : req.op = "reconf" => isPending(mgr) /\ req.freq = mgr.req
    BY <1>2, <1>4 DEF Asked
  <2> QED
    BY <1>1, <2>1, <2>2 DEF ReconfAgrees, Works, Asked, Answered
<1> QED
  BY <1>3, <1>5, <1>6, <1>7 DEF Agrees

-----------------------------------------------------------------------------
(* The second half, with the frequency as it is now.                       *)
LEMMA ConfigureInv == IInv /\ evtExtConfigure => IInv'
<1> SUFFICES ASSUME IInv, evtExtConfigure PROVE IInv'
  OBVIOUS
<1> USE DEF Leaves
<1>1. PICK id \in configuring :
        /\ configuring' = configuring \ {id}
        /\ IF manager[id].c = 21
             THEN Reconfigure(id, evtCheckFrequency(manager[id]))
             ELSE UNCHANGED <<manager, flight, ctrl>>
        /\ UNCHANGED <<subscription, nextSubId, listening, channel, replies, stream, server, losses>>
  BY DEF evtExtConfigure
<1>2. /\ id \in SubIds /\ id <= nextSubId /\ manager[id] \in Managers /\ Agrees(id)
      /\ manager \in [SubIds -> Managers] /\ subscription.freq \in Frequencies
  BY Given DEF IInv, TypeOK
<1>3. CASE manager[id].c = 21
  <2>1. Works(manager[id], {4}) /\ manager[id].cur # None
    BY <1>2, <1>3, SubscribedManager DEF Agrees
  <2>2. PICK mgr \in Managers : mgr = evtCheckFrequency(manager[id])
    BY <1>2, <2>1, CheckFrequency
  <2>3. /\ WellFormed(mgr) /\ Works(mgr, {4}) /\ mgr.cur = manager[id].cur
        /\ \/ mgr.c = 22 /\ mgr.req = subscription.freq
           \/ mgr.c = 21 /\ mgr.cur = subscription.freq
    BY <1>2, <2>1, <2>2, CheckFrequency
  <2>4. /\ manager' = [manager EXCEPT ![id] = mgr]
        /\ IF mgr.c = 22 THEN genSendControl(id) ELSE UNCHANGED <<flight, ctrl>>
    BY <1>1, <1>3, <2>2 DEF Reconfigure
  <2>5. Handles(id, mgr)
    BY <1>1, <2>3, <2>4 DEF Handles, Answers, isPending, Works
  <2>6. /\ Leaves(id, mgr) /\ Fresh'
    BY <1>1, <1>2, <2>3, <2>5, AfterHandler
  <2>7. TypeOK'
    BY <1>1, <2>6 DEF IInv, TypeOK
  <2>8. SubscriptionAgrees'
    BY <1>1, <2>1, <2>3, <2>6 DEF IInv, SubscriptionAgrees, Works
  <2>9. Wanted'
    BY <1>1, <2>3, <2>6 DEF IInv, Wanted
  <2>10. Agrees(id)'
    <3>1. Answers(id)' = Answers(id) /\ EndsFirst(id)'
      BY <1>1, <1>2 DEF Agrees, Answers, EndsFirst
    <3>2. /\ ~Asked("reconf", id) /\ ~Answered("reconf", id)'
          /\ server[id] \in {mgr.cur, None}
          /\ \A req \in Asks(id) : req.op = "add" => req.freq = mgr.cur
      BY <1>2, <1>3, <2>1, <2>3, <3>1
         DEF Agrees, AddAgrees, ReconfAgrees, Asked, Answered, Works
    <3> QED
      BY <1>1, <1>2, <2>3, <2>6, <3>1, <3>2, ReconfiguredAgrees
  <2> QED
    BY <2>6, <2>7, <2>8, <2>9, <2>10 DEF IInv
<1>4. CASE manager[id].c # 21
  <2>1. UNCHANGED <<subscription, manager, nextSubId, listening, channel, network, stream,
                    server, losses>>
    BY <1>1, <1>4 DEF network
  <2>2. TypeOK' /\ Clean' /\ SubscriptionAgrees' /\ Wanted' /\ Fresh'
    BY <1>1, <1>4, <2>1
       DEF IInv, TypeOK, Clean, SubscriptionAgrees, Wanted, Fresh, Asks, Answers, Coming, network
  <2>3. \A j \in SubIds : Unconcerned(j)
    BY <2>1 DEF Unconcerned, Asks, Answers, Coming, EndsFirst, network
  <2> QED
    BY <2>2, <2>3, OthersAgree DEF IInv
<1> QED
  BY <1>3, <1>4

-----------------------------------------------------------------------------
(* A notification is about a subId that was given, and leaves the others   *)
(* alone when no request is sent.                                          *)
LEMMA Reading ==
    ASSUME IInv, stream # <<>>, stream' = Tail(stream), NEW id \in SubIds, id = Head(stream).id,
           UNCHANGED <<manager, nextSubId, configuring, network, channel, server, losses>>
    PROVE  /\ Fresh' /\ Clean' /\ stream' \in Seq(Notifications)
           /\ \A j \in SubIds \ {id} : Agrees(j)'
           /\ EndsFirst(id)'
           /\ \A type \in {"SUBOK", "U", "UNSUB"} :
                 Head(stream).type # type /\ Coming(id, type) => Coming(id, type)'
<1>1. stream \in Seq(Notifications) /\ \A j \in SubIds : Agrees(j)
  BY DEF IInv, TypeOK
<1>2. /\ stream' \in Seq(Notifications)
      /\ \A j \in SubIds, type \in {"SUBOK", "U", "UNSUB"} :
            Head(stream) # [type |-> type, id |-> j] /\ Coming(j, type) => Coming(j, type)'
      /\ \A j \in SubIds, type \in {"SUBOK", "U", "UNSUB"} : Coming(j, type)' => Coming(j, type)
      /\ \A j \in SubIds : EndsFirst(j)'
  BY <1>1, AfterTail DEF Agrees
<1>3. \A j \in SubIds \ {id} : Unconcerned(j)
  <2>1. \A j \in SubIds \ {id}, type \in {"SUBOK", "U", "UNSUB"} :
            Head(stream) # [type |-> type, id |-> j]
    OBVIOUS
  <2> QED
    BY <1>2, <2>1 DEF Unconcerned, Asks, Answers, network
<1>4. Clean'
  BY DEF IInv, Clean, network
<1>5. Fresh'
  BY <1>2 DEF IInv, Fresh, Asks, Answers, network
<1>6. \A j \in SubIds \ {id} : Agrees(j)'
  BY <1>1, <1>3, OthersAgree
<1>7. \A type \in {"SUBOK", "U", "UNSUB"} :
          Head(stream).type # type => Head(stream) # [type |-> type, id |-> id]
  OBVIOUS
<1> QED
  BY <1>2, <1>4, <1>5, <1>6, <1>7

(* What the notification is, when it is read. *)
LEMMA HeadGiven ==
    ASSUME IInv, stream # <<>>
    PROVE  /\ Head(stream).id \in SubIds /\ Head(stream).type \in {"SUBOK", "U", "UNSUB"}
           /\ Head(stream) = [type |-> Head(stream).type, id |-> Head(stream).id]
           /\ Head(stream).id <= nextSubId
<1>1. stream \in Seq(Notifications)
  BY DEF IInv, TypeOK
<1>2. Head(stream) \in Notifications /\ 1 \in DOMAIN stream /\ Head(stream) = stream[1]
  BY <1>1
<1>3. /\ Head(stream).id \in SubIds /\ Head(stream).type \in {"SUBOK", "U", "UNSUB"}
      /\ Head(stream) = [type |-> Head(stream).type, id |-> Head(stream).id]
  BY <1>2 DEF Notifications
<1>4. Coming(Head(stream).id, Head(stream).type)
  BY <1>2, <1>3 DEF Coming
<1> QED
  BY <1>3, <1>4, Given

(* One that changes no manager. *)
LEMMA IgnoredInv ==
    ASSUME IInv, stream # <<>>, stream' = Tail(stream), NEW id \in SubIds, id = Head(stream).id,
           UNCHANGED <<subscription, manager, nextSubId, listening, configuring, network,
                       channel, server, losses>>,
           \/ manager[id].kind = "none" /\ Head(stream).type = "UNSUB"
           \/ Works(manager[id], {4, 5}) /\ Head(stream).type = "SUBOK"
           \/ Works(manager[id], {2, 3}) /\ Head(stream).type = "UNSUB"
           \/ manager[id].kind = "zombie" /\ Head(stream).type = "SUBOK"
           \/ manager[id].kind # "none" /\ Head(stream).type = "U"
    PROVE  IInv'
<1>1. /\ Fresh' /\ Clean' /\ stream' \in Seq(Notifications)
      /\ \A j \in SubIds \ {id} : Agrees(j)'
      /\ EndsFirst(id)'
      /\ \A type \in {"SUBOK", "U", "UNSUB"} :
            Head(stream).type # type /\ Coming(id, type) => Coming(id, type)'
  BY Reading
<1>2. /\ manager[id] \in Managers /\ Agrees(id) /\ WellFormed(manager[id])
  BY DEF IInv, TypeOK, Agrees
<1>3. TypeOK' /\ SubscriptionAgrees' /\ Wanted'
  BY <1>1 DEF IInv, TypeOK, SubscriptionAgrees, Wanted, network
<1>4. Asks(id)' = Asks(id) /\ Answers(id)' = Answers(id)
  BY DEF Asks, Answers, network
<1>5. Followed(id)'
  BY <1>1, <1>2 DEF Agrees, Followed, Works
<1>8. Works(manager[id], {2, 3}) => Head(stream).type # "SUBOK"
  BY DEF Works
<1>6. UnderWay(id)'
  <2>1. isPending(manager[id]) =>
            /\ encode(id, manager[id]).op = "add" => Works(manager[id], {2})
            /\ encode(id, manager[id]).op = "delete" =>
                  manager[id].kind = "zombie" \/ Works(manager[id], {5})
    BY <1>2, EncodeWhat
  <2>2. manager[id].m = 3 => Works(manager[id], {3})
    <3>1. Gone.m # 3 /\ Zombie.m # 3
      BY DEF Gone, Zombie, None
    <3> QED
      BY <1>2, <3>1 DEF WellFormed, Works, Managers
  <2>4. Head(stream).type = "UNSUB" /\ isPending(manager[id]) =>
            ~(manager[id].kind = "zombie" \/ Works(manager[id], {5}))
    <3>1. ~isPending(Gone)
      BY DEF isPending, Gone, None
    <3> QED
      BY <1>2, <3>1 DEF Works, WellFormed
  <2> QED
    BY <1>1, <1>2, <1>4, <1>8, <2>1, <2>2, <2>4 DEF Agrees, UnderWay, Answered, Works
<1>7. AddAgrees(id)' /\ DeleteAgrees(id)' /\ ReconfAgrees(id)'
  <2>1. AddAgrees(id)'
    BY <1>1, <1>2, <1>4, <1>8 DEF Agrees, AddAgrees, Asked, Answered, Works
  <2>2. DeleteAgrees(id)' /\ ReconfAgrees(id)'
    BY <1>2, <1>4 DEF Agrees, DeleteAgrees, ReconfAgrees, Asked, Answered
  <2> QED
    BY <2>1, <2>2
<1> QED
  BY <1>1, <1>2, <1>3, <1>5, <1>6, <1>7 DEF IInv, Agrees

(* Everything that a handler of a notification leaves to show.             *)
LEMMA AfterNotification ==
    ASSUME IInv, stream # <<>>, stream' = Tail(stream), NEW id \in SubIds, id = Head(stream).id,
           UNCHANGED <<nextSubId, configuring, channel, replies, server, losses>>,
           NEW mgr \in Managers, WellFormed(mgr), manager' = [manager EXCEPT ![id] = mgr],
           \/ isPending(mgr) /\ genSendControl(id)
           \/ ~isPending(mgr) /\ UNCHANGED <<flight, ctrl>>
    PROVE  /\ Leaves(id, mgr) /\ Fresh'
           /\ Answers(id)' = Answers(id) /\ EndsFirst(id)'
           /\ \A type \in {"SUBOK", "U", "UNSUB"} :
                 Head(stream).type # type /\ Coming(id, type) => Coming(id, type)'
           /\ Head(stream).type = "UNSUB" /\ server[id] # None => Coming(id, "SUBOK")'
<1> USE DEF Leaves
<1>1. stream \in Seq(Notifications) /\ EndsFirst(id) /\ id <= nextSubId
      /\ Head(stream) = [type |-> Head(stream).type, id |-> id]
  BY HeadGiven DEF IInv, TypeOK, Agrees
<1>2. Handles(id, mgr)
  BY DEF Handles, Answers
<1>3. /\ Leaves(id, mgr) /\ Fresh'
  BY <1>1, <1>2, AfterHandler
<1>4. \A type \in {"SUBOK", "U", "UNSUB"} :
          Head(stream).type # type => Head(stream) # [type |-> type, id |-> id]
  OBVIOUS
<1>5. Answers(id)' = Answers(id)
  BY DEF Answers
<1>6. /\ EndsFirst(id)'
      /\ \A type \in {"SUBOK", "U", "UNSUB"} :
            Head(stream).type # type /\ Coming(id, type) => Coming(id, type)'
      /\ Head(stream).type = "UNSUB" /\ server[id] # None => Coming(id, "SUBOK")'
  BY <1>1, <1>4, AfterTail
<1> QED
  BY <1>3, <1>5, <1>6

(* A notification that makes a zombie. *)
LEMMA ZombieInv ==
    ASSUME IInv, stream # <<>>, stream' = Tail(stream), NEW id \in SubIds, id = Head(stream).id,
           UNCHANGED <<nextSubId, configuring, channel, replies, server, losses>>,
           manager[id].kind = "none", NewZombie(id, Head(stream).type),
           UNCHANGED <<subscription, listening>>
    PROVE  IInv'
<1> USE DEF Leaves
<1>1. CASE Head(stream).type \notin {"SUBOK", "U"}
  <2>1. Head(stream).type = "UNSUB" /\ UNCHANGED <<manager, network>>
    BY <1>1, HeadGiven DEF NewZombie, network
  <2> QED
    BY <2>1, IgnoredInv
<1>2. CASE Head(stream).type \in {"SUBOK", "U"}
  <2>1. /\ Zombie.kind = "zombie" /\ Zombie.m = 2 /\ Zombie.c = None
        /\ Zombie \in Managers /\ WellFormed(Zombie) /\ isPending(Zombie)
    BY DEF Zombie, Gone, None, Managers, WellFormed, isPending
  <2>2. PICK mgr \in Managers : mgr = Zombie
    BY <2>1
  <2>3. manager' = [manager EXCEPT ![id] = mgr] /\ genSendControl(id)
    BY <1>2, <2>2 DEF NewZombie
  <2>4. /\ Leaves(id, mgr) /\ Fresh'
        /\ Answers(id)' = Answers(id) /\ EndsFirst(id)'
    BY <2>1, <2>2, <2>3, AfterNotification
  <2>5. TypeOK'
    BY <2>4 DEF IInv, TypeOK
  <2>6. SubscriptionAgrees' /\ Wanted'
    BY <2>1, <2>2, <2>4 DEF IInv, SubscriptionAgrees, Wanted, None
  <2>7. Agrees(id)'
    BY <2>1, <2>2, <2>4, DeletingAgrees DEF IInv
  <2> QED
    BY <2>4, <2>5, <2>6, <2>7 DEF IInv
<1> QED
  BY <1>1, <1>2

(* The server, or the client that asked it to, ended the subscription.     *)
LEMMA UnsubInv ==
    ASSUME IInv, stream # <<>>, stream' = Tail(stream), NEW id \in SubIds, id = Head(stream).id,
           UNCHANGED <<nextSubId, configuring, channel, replies, server, losses>>,
           Head(stream).type = "UNSUB", evtUNSUB(id),
           manager[id].kind = "zombie" \/ Works(manager[id], {4, 5})
    PROVE  IInv'
<1> USE DEF Leaves
<1>1. /\ Gone \in Managers /\ WellFormed(Gone) /\ ~isPending(Gone)
      /\ Gone.kind = "none" /\ Gone.c = None
  BY DEF Gone, None, Managers, WellFormed, isPending
<1>2. PICK mgr \in Managers : mgr = Gone
  BY <1>1
<1>3. /\ manager' = [manager EXCEPT ![id] = mgr] /\ UNCHANGED <<flight, ctrl>>
      /\ IF manager[id].m = 4
           THEN subscription' = Inactivate /\ listening' = FALSE
           ELSE UNCHANGED <<subscription, listening>>
  BY <1>2 DEF evtUNSUB
<1>4. /\ Leaves(id, mgr) /\ Fresh'
      /\ Answers(id)' = Answers(id) /\ EndsFirst(id)'
      /\ server[id] # None => Coming(id, "SUBOK")'
  BY <1>1, <1>2, <1>3, AfterNotification
<1>5. Agrees(id)'
  BY <1>2, <1>4, GoneAgrees DEF IInv
<1>6. /\ WellFormed(manager[id])
      /\ subscription \in [state : {"Inactive", "Active", "Subscribed"},
                          manager : SubIds \cup {None}, freq : Frequencies]
  BY DEF IInv, Agrees, TypeOK
<1>7. CASE Works(manager[id], {4})
  <2>1. /\ subscription'.state = "Inactive" /\ subscription'.manager = None
        /\ subscription'.freq = subscription.freq
        /\ subscription' \in [state : {"Inactive", "Active", "Subscribed"},
                             manager : SubIds \cup {None}, freq : Frequencies]
        /\ listening' = FALSE
    BY <1>3, <1>6, <1>7 DEF Inactivate, Works
  <2>2. \A j \in SubIds : ~(manager'[j].kind = "living" /\ manager'[j].m \in {2, 3, 4})
    BY <1>1, <1>2, <1>4, <1>7 DEF IInv, SubscriptionAgrees, Works
  <2>3. SubscriptionAgrees'
    <3>1. 0 \notin SubIds
      BY DEF SubIds
    <3> QED
      BY <2>1, <2>2, <3>1 DEF SubscriptionAgrees, None
  <2>4. TypeOK'
    BY <1>4, <2>1 DEF IInv, TypeOK
  <2>5. Wanted'
    BY <1>1, <1>2, <1>4, <2>1 DEF IInv, Wanted, None
  <2> QED
    BY <1>4, <1>5, <2>3, <2>4, <2>5 DEF IInv
<1>8. CASE ~Works(manager[id], {4})
  <2>1. manager[id].m # 4
    <3>1. Zombie.m = 2
      BY DEF Zombie, Gone
    <3> QED
      BY <1>6, <1>8, <3>1 DEF WellFormed, Works
  <2>2. UNCHANGED <<subscription, listening>>
    BY <1>3, <2>1
  <2>3. TypeOK'
    BY <1>4, <2>2 DEF IInv, TypeOK
  <2>5. Wanted'
    BY <1>1, <1>2, <1>4, <2>2 DEF IInv, Wanted, None
  <2>4. SubscriptionAgrees'
    BY <1>1, <1>2, <1>4, <1>8, <2>2 DEF IInv, SubscriptionAgrees, Works
  <2> QED
    BY <1>4, <1>5, <2>3, <2>4, <2>5 DEF IInv
<1> QED
  BY <1>7, <1>8

(* The server took the subscription; the counts of items and fields match  *)
(* or not.                                                                 *)
LEMMA SubokInv ==
    ASSUME IInv, stream # <<>>, stream' = Tail(stream), NEW id \in SubIds, id = Head(stream).id,
           UNCHANGED <<nextSubId, configuring, channel, replies, server, losses>>,
           Works(manager[id], {2, 3}), NEW matches \in BOOLEAN, evtSUBOK(id, matches)
    PROVE  IInv'
<1> USE DEF Leaves
<1>1. /\ manager[id] \in Managers /\ manager \in [SubIds -> Managers] /\ Agrees(id)
      /\ manager[id].kind = "living" /\ manager[id].m \in {2, 3} /\ manager[id].c = None
      /\ manager[id].cur # None
  BY DEF IInv, TypeOK, Agrees, WellFormed, Works, None
<1>2. /\ subscription \in [state : {"Inactive", "Active", "Subscribed"},
                          manager : SubIds \cup {None}, freq : Frequencies]
      /\ subscription.state = "Active" /\ subscription.manager = id
      /\ ~listening /\ listening \in BOOLEAN
  BY <1>1 DEF IInv, TypeOK, SubscriptionAgrees
<1>3. /\ server[id] \in {manager[id].cur, None}
      /\ ~Asked("reconf", id) /\ ~Answered("reconf", id)
      /\ \A req \in Asks(id) : req.op = "add" => req.freq = manager[id].cur
  BY <1>1 DEF Agrees, AddAgrees, ReconfAgrees, Works, Asked, None
<1>4. \A j \in SubIds \ {id} : ~(manager[j].kind = "living" /\ manager[j].m \in {2, 3, 4})
  BY <1>2 DEF IInv, SubscriptionAgrees
<1>5. CASE matches
  <2> DEFINE taken == [manager[id] EXCEPT !.m = 4]
  <2>1. taken \in Managers /\ Works(taken, {4}) /\ taken.cur = manager[id].cur
    BY <1>1 DEF Managers, Works
  <2>2. PICK mgr \in Managers : mgr = evtCheckFrequency(taken)
    BY <1>1, <1>2, <2>1, CheckFrequency
  <2>3. /\ WellFormed(mgr) /\ Works(mgr, {4}) /\ mgr.cur = manager[id].cur
        /\ \/ mgr.c = 22 /\ mgr.req = subscription.freq
           \/ mgr.c = 21 /\ mgr.cur = subscription.freq
    <3> HIDE DEF taken
    <3> QED
      BY <1>1, <1>2, <2>1, <2>2, CheckFrequency
  <2>4. /\ manager' = [manager EXCEPT ![id] = mgr]
        /\ IF mgr.c = 22 THEN genSendControl(id) ELSE UNCHANGED <<flight, ctrl>>
        /\ subscription' = [subscription EXCEPT !.state = "Subscribed"]
        /\ listening' = TRUE
    BY <1>5, <2>2 DEF evtSUBOK, Reconfigure
  <2>5. /\ Leaves(id, mgr) /\ Fresh'
        /\ Answers(id)' = Answers(id) /\ EndsFirst(id)'
    <3>1. \/ isPending(mgr) /\ genSendControl(id)
          \/ ~isPending(mgr) /\ UNCHANGED <<flight, ctrl>>
      BY <2>3, <2>4 DEF isPending, Works
    <3> QED
      BY <2>3, <2>4, <3>1, AfterNotification
  <2>6. /\ subscription'.state = "Subscribed" /\ subscription'.manager = id
        /\ subscription'.freq = subscription.freq
        /\ subscription' \in [state : {"Inactive", "Active", "Subscribed"},
                             manager : SubIds \cup {None}, freq : Frequencies]
    BY <1>2, <2>4
  <2>7. TypeOK'
    BY <2>4, <2>5, <2>6 DEF IInv, TypeOK
  <2>8. SubscriptionAgrees'
    <3>1. \A j \in SubIds \ {id} : ~(manager'[j].kind = "living" /\ manager'[j].m \in {2, 3, 4})
      BY <1>4, <2>5
    <3>2. manager'[id].kind = "living" /\ manager'[id].m = 4 /\ 0 \notin SubIds
      BY <2>3, <2>5 DEF Works, SubIds
    <3> QED
      BY <2>4, <2>6, <3>1, <3>2 DEF SubscriptionAgrees, None
  <2>9. Wanted'
    BY <2>3, <2>5, <2>6 DEF IInv, Wanted
  <2>10. Agrees(id)'
    <3>1. ~Answered("reconf", id)'
      BY <1>3, <2>5 DEF Answered
    <3> QED
      BY <1>1, <1>3, <2>3, <2>5, <3>1, ReconfiguredAgrees
  <2> QED
    BY <2>5, <2>7, <2>8, <2>9, <2>10 DEF IInv
<1>6. CASE ~matches
  <2> DEFINE left == [manager[id] EXCEPT !.m = 5]
  <2>1. /\ left \in Managers /\ left.kind = "living" /\ left.m = 5 /\ left.c = None
        /\ left.cur = manager[id].cur
    BY <1>1 DEF Managers
  <2>2. PICK mgr \in Managers : mgr = left
    BY <2>1
  <2>3. WellFormed(mgr) /\ isPending(mgr) /\ mgr.kind = "living" /\ mgr.m = 5 /\ mgr.c = None
    BY <1>1, <2>1, <2>2 DEF WellFormed, isPending, None
  <2>4. /\ manager' = [manager EXCEPT ![id] = mgr] /\ genSendControl(id)
        /\ subscription' = Inactivate /\ UNCHANGED listening
    BY <1>6, <2>2 DEF evtSUBOK
  <2>5. /\ Leaves(id, mgr) /\ Fresh'
        /\ Answers(id)' = Answers(id) /\ EndsFirst(id)'
    BY <2>3, <2>4, AfterNotification
  <2>6. /\ subscription'.state = "Inactive" /\ subscription'.manager = None
        /\ subscription'.freq = subscription.freq
        /\ subscription' \in [state : {"Inactive", "Active", "Subscribed"},
                             manager : SubIds \cup {None}, freq : Frequencies]
    BY <1>2, <2>4 DEF Inactivate
  <2>7. TypeOK'
    BY <2>4, <2>5, <2>6 DEF IInv, TypeOK
  <2>8. SubscriptionAgrees'
    <3>1. \A j \in SubIds : ~(manager'[j].kind = "living" /\ manager'[j].m \in {2, 3, 4})
      BY <1>4, <2>3, <2>5
    <3>2. 0 \notin SubIds
      BY DEF SubIds
    <3> QED
      BY <1>2, <2>4, <2>6, <3>1, <3>2 DEF SubscriptionAgrees, None
  <2>9. Wanted'
    BY <2>3, <2>5, <2>6 DEF IInv, Wanted, None
  <2>10. Agrees(id)'
    BY <1>1, <2>3, <2>5, DeletingAgrees DEF Works
  <2> QED
    BY <2>5, <2>7, <2>8, <2>9, <2>10 DEF IInv
<1> QED
  BY <1>5, <1>6

(* Any notification.                                                       *)
LEMMA NotificationInv == IInv /\ Notification => IInv'
<1> SUFFICES ASSUME IInv, Notification PROVE IInv'
  OBVIOUS
<1>1. stream # <<>> /\ stream' = Tail(stream)
      /\ UNCHANGED <<nextSubId, configuring, channel, replies, server, losses>>
  BY DEF Notification
<1>2. PICK id \in SubIds : id = Head(stream).id
  BY <1>1, HeadGiven
<1>3. CASE /\ manager[id].kind = "none" /\ NewZombie(id, Head(stream).type)
           /\ UNCHANGED <<subscription, listening>>
  BY <1>1, <1>2, <1>3, ZombieInv
<1>4. CASE /\ manager[id].kind = "living" /\ Head(stream).type = "SUBOK"
           /\ manager[id].m \in {2, 3}
           /\ \E matches \in BOOLEAN : evtSUBOK(id, matches)
  BY <1>1, <1>2, <1>4, SubokInv DEF Works
<1>5. CASE /\ \/ manager[id].kind = "living" /\ manager[id].m \in {4, 5}
              \/ manager[id].kind = "zombie"
           /\ Head(stream).type = "UNSUB" /\ evtUNSUB(id)
  BY <1>1, <1>2, <1>5, UnsubInv DEF Works
<1>6. CASE /\ \/ /\ manager[id].kind = "living" /\ Head(stream).type = "SUBOK"
                 /\ manager[id].m \in {4, 5}
              \/ /\ manager[id].kind = "living" /\ Head(stream).type = "UNSUB"
                 /\ manager[id].m \in {2, 3}
              \/ manager[id].kind = "zombie" /\ Head(stream).type = "SUBOK"
              \/ manager[id].kind # "none" /\ Head(stream).type = "U"
           /\ UNCHANGED <<subscription, listening, manager, flight, ctrl>>
  BY <1>1, <1>2, <1>6, IgnoredInv DEF Works, network
<1> QED
  BY <1>2, <1>3, <1>4, <1>5, <1>6 DEF Notification

-----------------------------------------------------------------------------
(* Everything that the handler of a reply leaves to show. *)
LEMMA AfterReply ==
    ASSUME IInv, NEW id \in SubIds, NEW reply \in replies, reply.id = id,
           replies' = replies \ {reply},
           UNCHANGED <<nextSubId, listening, configuring, channel, stream, server, losses>>,
           NEW mgr \in Managers, WellFormed(mgr), manager' = [manager EXCEPT ![id] = mgr],
           \/ isPending(mgr) /\ genSendControl(id)
           \/ ~isPending(mgr) /\ UNCHANGED <<flight, ctrl>>
    PROVE  /\ Leaves(id, mgr) /\ Fresh'
           /\ Answers(id)' = Answers(id) \ {reply} /\ EndsFirst(id)'
           /\ \A type \in {"SUBOK", "U", "UNSUB"} : Coming(id, type) => Coming(id, type)'
<1>1. id <= nextSubId
  BY Given DEF Answers
<1>2. Handles(id, mgr)
  BY DEF Handles, Answers
<1>3. Leaves(id, mgr) /\ Fresh'
  BY <1>1, <1>2, AfterHandler
<1>4. Answers(id)' = Answers(id) \ {reply}
  BY DEF Answers
<1>5. /\ EndsFirst(id)'
      /\ \A type \in {"SUBOK", "U", "UNSUB"} : Coming(id, type) => Coming(id, type)'
  BY DEF IInv, Agrees, EndsFirst, Coming
<1> QED
  BY <1>3, <1>4, <1>5

(* A reply that no manager waits for. *)
LEMMA LateReplyInv ==
    ASSUME IInv, NEW id \in SubIds, NEW reply \in replies, reply.id = id,
           replies' = replies \ {reply},
           UNCHANGED <<nextSubId, listening, configuring, channel, stream, server, losses>>,
           UNCHANGED <<subscription, manager, flight, ctrl>>,
           reply.op = "add" => ~Works(manager[id], {2}),
           reply.op = "delete" => ~(manager[id].m = 5 \/ manager[id].kind = "zombie"),
           reply.op = "reconf" => manager[id].c # 22
    PROVE  IInv'
<1>1. /\ Answers(id)' = Answers(id) \ {reply}
      /\ \A j \in SubIds : Asks(j)' = Asks(j)
      /\ \A j \in SubIds \ {id} : Answers(j)' = Answers(j)
      /\ \A j \in SubIds : EndsFirst(j)' = EndsFirst(j)
      /\ \A j \in SubIds, type \in {"SUBOK", "U", "UNSUB"} : Coming(j, type)' = Coming(j, type)
  BY DEF Asks, Answers, EndsFirst, Coming
<1>2. TypeOK' /\ Clean' /\ SubscriptionAgrees' /\ Wanted'
  BY DEF IInv, TypeOK, Clean, SubscriptionAgrees, Wanted
<1>3. Fresh'
  BY <1>1 DEF IInv, Fresh
<1>4. ASSUME NEW j \in SubIds \ {id} PROVE Agrees(j)'
  <2>1. Unconcerned(j)
    BY <1>1 DEF Unconcerned
  <2> QED
    BY <2>1, OthersAgree DEF IInv
<1>5. Agrees(id)'
  <2>1. Agrees(id) /\ manager[id] \in Managers /\ WellFormed(manager[id])
    BY DEF IInv, TypeOK, Agrees
  <2>2. isPending(manager[id]) => encode(id, manager[id]).op # reply.op
    <3> SUFFICES ASSUME isPending(manager[id]) PROVE encode(id, manager[id]).op # reply.op
      OBVIOUS
    <3>1. encode(id, manager[id]).op \in {"add", "reconf", "delete"}
      BY <2>1, EncodeWhat DEF Requests
    <3>2. /\ encode(id, manager[id]).op = "add" => Works(manager[id], {2})
          /\ encode(id, manager[id]).op = "reconf" => manager[id].c = 22
          /\ encode(id, manager[id]).op = "delete" =>
                manager[id].kind = "zombie" \/ manager[id].m = 5
      BY <2>1, EncodeWhat DEF Works
    <3> QED
      BY <3>1, <3>2
  <2>3. UnderWay(id)'
    BY <1>1, <2>1, <2>2 DEF Agrees, UnderWay, Answered
  <2>4. Followed(id)' /\ EndsFirst(id)'
    BY <1>1, <2>1 DEF Agrees, Followed
  <2>5. AddAgrees(id)' /\ DeleteAgrees(id)' /\ ReconfAgrees(id)'
    BY <1>1, <2>1 DEF Agrees, AddAgrees, DeleteAgrees, ReconfAgrees, Asked, Answered
  <2> QED
    BY <2>1, <2>3, <2>4, <2>5 DEF Agrees
<1> QED
  BY <1>2, <1>3, <1>4, <1>5 DEF IInv

(* The request to add was accepted: the SUBOK that follows is coming.      *)
LEMMA AcceptedInv ==
    ASSUME IInv, NEW id \in SubIds, NEW reply \in replies, reply.id = id,
           replies' = replies \ {reply},
           UNCHANGED <<nextSubId, listening, configuring, channel, stream, server, losses>>,
           reply = [ok |-> TRUE, op |-> "add", id |-> id], Works(manager[id], {2}),
           manager' = [manager EXCEPT ![id].m = 3],
           UNCHANGED <<subscription, flight, ctrl>>
    PROVE  IInv'
<1> USE DEF Leaves
<1>1. /\ manager[id] \in Managers /\ manager \in [SubIds -> Managers] /\ Agrees(id)
      /\ manager[id].kind = "living" /\ manager[id].m = 2 /\ manager[id].c = None
      /\ manager[id].cur # None
  BY DEF IInv, TypeOK, Agrees, WellFormed, Works, None
<1> DEFINE accepted == [manager[id] EXCEPT !.m = 3]
<1>2. /\ accepted \in Managers /\ accepted.kind = "living" /\ accepted.m = 3
      /\ accepted.c = None /\ accepted.cur = manager[id].cur
  BY <1>1 DEF Managers
<1>3. PICK mgr \in Managers : mgr = accepted
  BY <1>2
<1>4. /\ WellFormed(mgr) /\ ~isPending(mgr) /\ mgr.kind = "living" /\ mgr.m = 3
      /\ mgr.c = None /\ mgr.cur = manager[id].cur
  BY <1>1, <1>2, <1>3 DEF WellFormed, isPending, None
<1>5. manager' = [manager EXCEPT ![id] = mgr]
  BY <1>3
<1>6. /\ Leaves(id, mgr) /\ Fresh'
      /\ Answers(id)' = Answers(id) \ {reply} /\ EndsFirst(id)'
      /\ \A type \in {"SUBOK", "U", "UNSUB"} : Coming(id, type) => Coming(id, type)'
  BY <1>4, <1>5, AfterReply
<1>7. TypeOK'
  BY <1>6 DEF IInv, TypeOK
<1>8. SubscriptionAgrees'
  BY <1>1, <1>4, <1>6 DEF IInv, SubscriptionAgrees
<1>9. Wanted'
  BY <1>4, <1>6 DEF IInv, Wanted, None
<1>10. Agrees(id)'
  <2>1. Asks(id)' = Asks(id) /\ reply \in Answers(id) /\ Coming(id, "SUBOK")
    BY <1>1, <1>4, <1>6 DEF AsksAfter, Answers, Agrees, AddAgrees
  <2>2. UnderWay(id)' /\ Followed(id)'
    BY <1>1, <1>4, <1>6, <2>1 DEF Agrees, UnderWay, Followed, Works
  <2>3. AddAgrees(id)' /\ DeleteAgrees(id)' /\ ReconfAgrees(id)'
    BY <1>1, <1>4, <1>6, <2>1
       DEF Agrees, AddAgrees, DeleteAgrees, ReconfAgrees, Asked, Answered, Works, None
  <2> QED
    BY <1>4, <1>6, <2>2, <2>3 DEF Agrees
<1> QED
  BY <1>6, <1>7, <1>8, <1>9, <1>10 DEF IInv

(* A request to delete was answered, or one to add refused.                *)
LEMMA DoneInv ==
    ASSUME IInv, NEW id \in SubIds, NEW reply \in replies, reply.id = id,
           replies' = replies \ {reply},
           UNCHANGED <<nextSubId, listening, configuring, channel, stream, server, losses>>,
           manager' = [manager EXCEPT ![id] = Gone], UNCHANGED <<flight, ctrl>>,
           \/ /\ reply.op = "delete" /\ (manager[id].m = 5 \/ manager[id].kind = "zombie")
              /\ UNCHANGED subscription
           \/ Works(manager[id], {2}) /\ subscription' = Inactivate
    PROVE  IInv'
<1> USE DEF Leaves
<1>1. /\ Gone \in Managers /\ WellFormed(Gone) /\ ~isPending(Gone)
      /\ Gone.kind = "none" /\ Gone.m = None /\ Gone.c = None
  BY DEF Gone, None, Managers, WellFormed, isPending
<1>2. PICK mgr \in Managers : mgr = Gone
  BY <1>1
<1>3. /\ Leaves(id, mgr) /\ Fresh'
      /\ Answers(id)' = Answers(id) \ {reply} /\ EndsFirst(id)'
      /\ \A type \in {"SUBOK", "U", "UNSUB"} : Coming(id, type) => Coming(id, type)'
  BY <1>1, <1>2, AfterReply
<1>4. /\ Agrees(id) /\ WellFormed(manager[id]) /\ reply \in Answers(id)
      /\ subscription \in [state : {"Inactive", "Active", "Subscribed"},
                          manager : SubIds \cup {None}, freq : Frequencies]
  BY DEF IInv, TypeOK, Agrees, Answers
<1>5. server[id] # None => Coming(id, "SUBOK")
  BY <1>4 DEF Agrees, Followed, DeleteAgrees, Answered, Works
<1>6. Agrees(id)'
  BY <1>2, <1>3, <1>4, <1>5, GoneAgrees
<1>7. Wanted'
  <2>1. subscription'.freq = subscription.freq
    BY <1>4 DEF Inactivate
  <2> QED
    BY <1>1, <1>2, <1>3, <2>1 DEF IInv, Wanted, None
<1>8. CASE Works(manager[id], {2}) /\ subscription' = Inactivate
  <2>1. /\ subscription'.state = "Inactive" /\ subscription'.manager = None
        /\ subscription' \in [state : {"Inactive", "Active", "Subscribed"},
                             manager : SubIds \cup {None}, freq : Frequencies]
    BY <1>4, <1>8 DEF Inactivate
  <2>2. TypeOK'
    BY <1>3, <2>1 DEF IInv, TypeOK
  <2>3. /\ subscription.state = "Active" /\ ~listening
        /\ \A j \in SubIds : ~(manager'[j].kind = "living" /\ manager'[j].m \in {2, 3, 4})
    BY <1>1, <1>2, <1>3, <1>8 DEF IInv, SubscriptionAgrees, Works
  <2>4. SubscriptionAgrees'
    <3>1. 0 \notin SubIds
      BY DEF SubIds
    <3> QED
      BY <2>1, <2>3, <3>1 DEF SubscriptionAgrees, None
  <2> QED
    BY <1>3, <1>6, <1>7, <2>2, <2>4 DEF IInv
<1>9. CASE (manager[id].m = 5 \/ manager[id].kind = "zombie") /\ UNCHANGED subscription
  <2>1. TypeOK'
    BY <1>3, <1>9 DEF IInv, TypeOK
  <2>2. ~(manager[id].kind = "living" /\ manager[id].m \in {2, 3, 4})
    BY <1>9
  <2>3. SubscriptionAgrees'
    BY <1>1, <1>2, <1>3, <1>9, <2>2 DEF IInv, SubscriptionAgrees
  <2> QED
    BY <1>3, <1>6, <1>7, <2>1, <2>3 DEF IInv
<1> QED
  BY <1>8, <1>9

(* A reconfiguration was answered: the manager takes the frequency that    *)
(* the server has, and asks for another one if the application changed it. *)
LEMMA ReconfiguredInv ==
    ASSUME IInv, NEW id \in SubIds, NEW reply \in replies, reply.id = id,
           replies' = replies \ {reply},
           UNCHANGED <<nextSubId, listening, configuring, channel, stream, server, losses>>,
           UNCHANGED subscription, reply.op = "reconf", manager[id].c = 22,
           NEW mgr \in Managers, WellFormed(mgr), Works(mgr, {4}),
           manager' = [manager EXCEPT ![id] = mgr],
           IF mgr.c = 22 THEN genSendControl(id) ELSE UNCHANGED <<flight, ctrl>>,
           mgr.cur = IF reply.ok THEN manager[id].req ELSE manager[id].cur,
           mgr.c = 21 => mgr.cur = subscription.freq \/ mgr.refused
    PROVE  IInv'
<1> USE DEF Leaves
<1>1. /\ Agrees(id) /\ manager[id] \in Managers /\ Works(manager[id], {4})
      /\ reply \in Answers(id) /\ reply \in Replies
  BY SubscribedManager DEF IInv, TypeOK, Agrees, Answers
<1>2. /\ Leaves(id, mgr) /\ Fresh'
      /\ Answers(id)' = Answers(id) \ {reply} /\ EndsFirst(id)'
      /\ \A type \in {"SUBOK", "U", "UNSUB"} : Coming(id, type) => Coming(id, type)'
  <2>1. \/ isPending(mgr) /\ genSendControl(id)
        \/ ~isPending(mgr) /\ UNCHANGED <<flight, ctrl>>
    BY DEF isPending, Works
  <2> QED
    BY <2>1, AfterReply
<1>3. TypeOK'
  BY <1>2 DEF IInv, TypeOK
<1>4. SubscriptionAgrees'
  BY <1>1, <1>2 DEF IInv, SubscriptionAgrees, Works
<1>5. Wanted'
  BY <1>2 DEF IInv, Wanted
<1>6. Agrees(id)'
  <2>1. reply = [ok |-> reply.ok, op |-> "reconf", id |-> id] /\ reply.ok \in BOOLEAN
    BY <1>1 DEF Replies
  <2>2. ~Asked("reconf", id) /\ ~Asked("add", id)
    BY <1>1 DEF Agrees, AddAgrees, ReconfAgrees, Answered, Works
  <2>3. ~Answered("reconf", id)'
    <3>1. \A other \in Answers(id) : other.op = "reconf" =>
              other \in Replies /\ other = [ok |-> other.ok, op |-> "reconf", id |-> id]
      BY DEF IInv, TypeOK, Answers, Replies
    <3>2. \A other \in Answers(id) : other.op = "reconf" => other = reply
      <4> SUFFICES ASSUME NEW other \in Answers(id), other.op = "reconf"
                   PROVE  other.ok = reply.ok
        BY <2>1, <3>1
      <4>1. other = [ok |-> other.ok, op |-> "reconf", id |-> id] /\ other.ok \in BOOLEAN
        BY <3>1 DEF Replies
      <4>2. ~ /\ [ok |-> TRUE, op |-> "reconf", id |-> id] \in Answers(id)
              /\ [ok |-> FALSE, op |-> "reconf", id |-> id] \in Answers(id)
        BY <1>1 DEF Agrees, ReconfAgrees
      <4> QED
        BY <1>1, <2>1, <4>1, <4>2
    <3> QED
      BY <1>2, <3>2 DEF Answered
  <2>4. server[id] \in {mgr.cur, None}
    BY <1>1, <2>1 DEF Agrees, ReconfAgrees
  <2> QED
    BY <1>1, <1>2, <2>2, <2>3, <2>4, ReconfiguredAgrees DEF Asked
<1> QED
  BY <1>2, <1>3, <1>4, <1>5, <1>6 DEF IInv

(* Any reply: one that its manager waits for, or one that comes too late.  *)
LEMMA ReplyInv == IInv /\ Reply => IInv'
<1> SUFFICES ASSUME IInv, Reply PROVE IInv'
  OBVIOUS
<1>1. PICK reply \in replies :
        /\ replies' = replies \ {reply}
        /\ IF reply.ok THEN evtREQOK(reply.id, reply.op) /\ UNCHANGED subscription
                       ELSE evtREQERR(reply.id, reply.op)
        /\ UNCHANGED <<nextSubId, listening, configuring, channel, stream, server, losses>>
  BY DEF Reply
<1>2. /\ reply \in Replies /\ reply.ok \in BOOLEAN /\ reply.op \in {"add", "reconf", "delete"}
      /\ reply = [ok |-> reply.ok, op |-> reply.op, id |-> reply.id]
      /\ subscription.freq \in Frequencies
  BY DEF IInv, TypeOK, Replies
<1>3. PICK id \in SubIds : id = reply.id
  BY <1>2 DEF Replies
<1>4. manager[id] \in Managers /\ manager \in [SubIds -> Managers] /\ WellFormed(manager[id])
  BY DEF IInv, TypeOK, Agrees
<1>5. CASE reply.op = "add" /\ Works(manager[id], {2})
  <2>1. CASE reply.ok
    <3>1. manager' = [manager EXCEPT ![id].m = 3] /\ UNCHANGED <<subscription, flight, ctrl>>
      BY <1>1, <1>3, <1>5, <2>1 DEF evtREQOK, Works
    <3>2. reply = [ok |-> TRUE, op |-> "add", id |-> id]
      BY <1>2, <1>3, <1>5, <2>1
    <3> QED
      BY <1>1, <1>3, <1>5, <3>1, <3>2, AcceptedInv
  <2>2. CASE ~reply.ok
    <3>1. /\ subscription' = Inactivate /\ manager' = [manager EXCEPT ![id] = Gone]
          /\ UNCHANGED <<flight, ctrl>>
      BY <1>1, <1>3, <1>5, <2>2 DEF evtREQERR, Works
    <3> QED
      BY <1>1, <1>3, <1>5, <3>1, DoneInv
  <2> QED
    BY <2>1, <2>2
<1>6. CASE reply.op = "delete" /\ (manager[id].m = 5 \/ manager[id].kind = "zombie")
  <2>1. /\ manager' = [manager EXCEPT ![id] = Gone] /\ UNCHANGED <<subscription, flight, ctrl>>
    BY <1>1, <1>3, <1>6 DEF evtREQOK, evtREQERR
  <2> QED
    BY <1>1, <1>3, <1>6, <2>1, DoneInv
<1>7. CASE reply.op = "reconf" /\ manager[id].c = 22
  <2>1. Works(manager[id], {4}) /\ manager[id].cur # None /\ manager[id].req \in Frequencies
    BY <1>4, <1>7, SubscribedManager DEF WellFormed, Works, Managers
  <2>2. CASE reply.ok
    <3> DEFINE granted == [manager[id] EXCEPT !.cur = manager[id].req]
    <3>1. /\ granted \in Managers /\ Works(granted, {4}) /\ granted.cur = manager[id].req
          /\ granted.cur # None
      BY <1>4, <2>1, FrequencyAssumption DEF Managers, Works, None
    <3>2. PICK mgr \in Managers : mgr = evtCheckFrequency(granted)
      BY <1>2, <3>1, CheckFrequency
    <3>3. /\ WellFormed(mgr) /\ Works(mgr, {4}) /\ mgr.cur = manager[id].req
          /\ mgr.c = 21 => mgr.cur = subscription.freq
      <4> HIDE DEF granted
      <4> QED
        BY <1>2, <3>1, <3>2, CheckFrequency
    <3>4. Reconfigure(id, mgr) /\ UNCHANGED subscription
      BY <1>1, <1>3, <1>7, <2>2, <3>2 DEF evtREQOK
    <3> QED
      BY <1>1, <1>3, <1>7, <2>2, <3>3, <3>4, ReconfiguredInv DEF Reconfigure
  <2>3. CASE ~reply.ok /\ manager[id].req = subscription.freq
    <3> DEFINE kept == [manager[id] EXCEPT !.c = 21, !.refused = TRUE]
    <3>1. /\ kept \in Managers /\ Works(kept, {4}) /\ kept.cur = manager[id].cur
          /\ kept.c = 21 /\ kept.refused
      BY <1>4, <2>1 DEF Managers, Works
    <3>2. PICK mgr \in Managers : mgr = kept
      BY <3>1
    <3>3. /\ WellFormed(mgr) /\ Works(mgr, {4}) /\ mgr.c = 21 /\ mgr.refused
          /\ mgr.cur = IF reply.ok THEN manager[id].req ELSE manager[id].cur
      <4> HIDE DEF kept
      <4> QED
        BY <2>1, <2>3, <3>1, <3>2 DEF WellFormed, Works, None
    <3>4. /\ manager' = [manager EXCEPT ![id] = mgr] /\ UNCHANGED <<subscription, flight, ctrl>>
      BY <1>1, <1>3, <1>7, <2>3, <3>2 DEF evtREQERR
    <3> QED
      <4> HIDE DEF kept
      <4>1. IF mgr.c = 22 THEN genSendControl(id) ELSE UNCHANGED <<flight, ctrl>>
        BY <3>3, <3>4
      <4>2. mgr.c = 21 => mgr.cur = subscription.freq \/ mgr.refused
        BY <3>3
      <4> QED
        BY <1>1, <1>3, <1>7, <3>3, <3>4, <4>1, <4>2, ReconfiguredInv
  <2>4. CASE ~reply.ok /\ manager[id].req # subscription.freq
    <3>1. PICK mgr \in Managers : mgr = evtCheckFrequency(manager[id])
      BY <1>2, <1>4, <2>1, CheckFrequency
    <3>2. /\ WellFormed(mgr) /\ Works(mgr, {4}) /\ mgr.cur = manager[id].cur
          /\ mgr.c = 21 => mgr.cur = subscription.freq
      BY <1>2, <1>4, <2>1, <3>1, CheckFrequency
    <3>3. Reconfigure(id, mgr) /\ UNCHANGED subscription
      BY <1>1, <1>3, <1>7, <2>4, <3>1 DEF evtREQERR
    <3> QED
      BY <1>1, <1>3, <1>7, <2>4, <3>2, <3>3, ReconfiguredInv DEF Reconfigure
  <2> QED
    BY <2>2, <2>3, <2>4
<1>8. CASE /\ reply.op = "add" => ~Works(manager[id], {2})
           /\ reply.op = "delete" => ~(manager[id].m = 5 \/ manager[id].kind = "zombie")
           /\ reply.op = "reconf" => manager[id].c # 22
  <2>1. UNCHANGED <<subscription, manager, flight, ctrl>>
    BY <1>1, <1>2, <1>3, <1>8 DEF evtREQOK, evtREQERR, Works
  <2> QED
    BY <1>1, <1>3, <1>8, <2>1, LateReplyInv
<1> QED
  BY <1>2, <1>5, <1>6, <1>7, <1>8

-----------------------------------------------------------------------------
(* Whatever the client has sent is forgotten with the channel, and what it *)
(* sends on the next one is what its managers wait for.                    *)
LEMMA ResendInv ==
    ASSUME IInv, UNCHANGED <<client, stream, server>>, losses' \in 0..MaxLosses,
           channel' \in {"none", "ws", "http"}, ctrl' \in {"idle", "busy", "pause"},
           replies' = {},
           flight' \subseteq {encode(id, manager[id]) : id \in PendingIds(manager)},
           channel' = "none" => flight' = {},
           channel' = "ws" => flight' = {encode(id, manager[id]) : id \in PendingIds(manager)},
           channel' = "http" /\ ctrl' \in {"idle", "pause"} => flight' = {},
           channel' = "http" /\ ctrl' = "idle" => PendingIds(manager) = {}
    PROVE  IInv'
<1> USE DEF client
<1>1. ASSUME NEW id \in PendingIds(manager)
      PROVE  /\ id \in SubIds /\ encode(id, manager[id]) \in Requests
             /\ encode(id, manager[id]).id = id
  BY EncodeWhat DEF PendingIds, IInv, TypeOK, Agrees
<1>2. TypeOK'
  BY <1>1 DEF IInv, TypeOK
<1>3. Clean' /\ SubscriptionAgrees' /\ Wanted'
  BY DEF IInv, Clean, SubscriptionAgrees, Wanted
<1>4. ASSUME NEW id \in SubIds
      PROVE  /\ Answers(id)' = {}
             /\ \A req \in Asks(id)' : isPending(manager[id]) /\ req = encode(id, manager[id])
             /\ channel' = "ws" /\ isPending(manager[id]) => encode(id, manager[id]) \in Asks(id)'
             /\ EndsFirst(id)' = EndsFirst(id)
             /\ \A type \in {"SUBOK", "U", "UNSUB"} : Coming(id, type)' = Coming(id, type)
  BY <1>1 DEF Asks, Answers, PendingIds, EndsFirst, Coming
<1>5. Fresh'
  <2>1. ~isPending(Gone)
    BY DEF isPending, Gone, None
  <2> QED
    BY <1>4, <2>1 DEF IInv, Fresh
<1>6. ASSUME NEW id \in SubIds PROVE Agrees(id)'
  <2>1. Agrees(id) /\ manager[id] \in Managers /\ WellFormed(manager[id])
    BY DEF IInv, TypeOK, Agrees
  <2>2. isPending(manager[id]) =>
            LET req == encode(id, manager[id])
            IN /\ req.op = "add" <=> Works(manager[id], {2})
               /\ req.op = "reconf" <=> Works(manager[id], {4}) /\ manager[id].c = 22
               /\ req.op \in {"add", "reconf", "delete"}
               /\ req.op = "add" => req.freq = manager[id].cur
               /\ req.op = "reconf" => req.freq = manager[id].req
    BY <2>1, EncodeWhat DEF Requests
  <2>3. UnderWay(id)' /\ Followed(id)' /\ EndsFirst(id)'
    BY <1>4, <2>1 DEF Agrees, UnderWay, Followed
  <2>4. AddAgrees(id)'
    BY <1>4, <2>1, <2>2 DEF Agrees, WellFormed, AddAgrees, Asked, Answered, Works
  <2>5. DeleteAgrees(id)' /\ ReconfAgrees(id)'
    BY <1>4, <2>1, <2>2 DEF Agrees, DeleteAgrees, ReconfAgrees, Asked, Answered, Works
  <2> QED
    BY <2>1, <2>3, <2>4, <2>5 DEF Agrees
<1> QED
  BY <1>2, <1>3, <1>5, <1>6 DEF IInv

(* The channel comes, goes, is free again or fails.                        *)
LEMMA ChannelInv ==
    ASSUME IInv, StartSession \/ Bind \/ LoseChannel \/ CtrlDone \/ CtrlError \/ CtrlTimeout
                 \/ OtherRequest
    PROVE  IInv'
<1> DEFINE all == {encode(id, manager[id]) : id \in PendingIds(manager)}
<1>1. /\ losses \in 0..MaxLosses /\ ctrl \in {"idle", "busy", "pause"}
      /\ channel \in {"off", "none"} => flight = {} /\ replies = {}
      /\ channel = "http" /\ ctrl \in {"idle", "pause"} => flight = {} /\ replies = {}
  BY DEF IInv, TypeOK, Clean
<1>2. ASSUME UNCHANGED client, sendPendingControlsHTTP
      PROVE  /\ flight' \subseteq all
             /\ \/ ctrl' = "busy"
                \/ ctrl' = "idle" /\ flight' = {} /\ PendingIds(manager) = {}
  <2>1. PendingIds(manager') = PendingIds(manager) /\ manager' = manager
    BY <1>2 DEF client
  <2> QED
    BY <1>2, <2>1 DEF sendPendingControlsHTTP
<1>3. CASE StartSession
  BY <1>1, <1>3, ResendInv DEF StartSession, evtSendPendingControls
<1>4. CASE Bind
  <2>1. CASE channel' = "ws" /\ evtSendPendingControls /\ UNCHANGED ctrl
    BY <1>1, <1>4, <2>1, ResendInv DEF Bind, evtSendPendingControls
  <2>2. CASE channel' = "http" /\ sendPendingControlsHTTP
    BY <1>1, <1>2, <1>4, <2>2, ResendInv DEF Bind
  <2> QED
    BY <1>4, <2>1, <2>2 DEF Bind
<1>5. CASE LoseChannel
  <2>1. losses' \in 0..MaxLosses
    BY <1>1, <1>5, SubscriptionBounds DEF LoseChannel
  <2> QED
    BY <1>5, <2>1, ResendInv DEF LoseChannel
<1>6. CASE CtrlDone
  BY <1>1, <1>2, <1>6, ResendInv DEF CtrlDone
<1>7. CASE CtrlError
  <2>1. losses' \in 0..MaxLosses
    BY <1>1, <1>7, SubscriptionBounds DEF CtrlError
  <2> QED
    BY <1>7, <2>1, ResendInv DEF CtrlError
<1>8. CASE CtrlTimeout
  BY <1>1, <1>2, <1>8, ResendInv DEF CtrlTimeout
<1>9. CASE OtherRequest
  BY <1>1, <1>9, ResendInv DEF OtherRequest
<1> QED
  BY <1>3, <1>4, <1>5, <1>6, <1>7, <1>8, <1>9

(* The session ends: the managers that live wait for the next one.         *)
LEMMA EndSessionInv == IInv /\ EndSession => IInv'
<1> SUFFICES ASSUME IInv, EndSession PROVE IInv'
  OBVIOUS
<1>1. /\ channel' = "off" /\ ctrl' = "idle" /\ flight' = {} /\ replies' = {}
      /\ stream' = <<>> /\ server' = [id \in SubIds |-> None] /\ losses' = 0
      /\ UNCHANGED <<nextSubId, configuring>>
      /\ subscription' = IF subscription.state = "Inactive" THEN subscription ELSE Activate
      /\ IF subscription.state = "Subscribed" THEN listening' = FALSE ELSE UNCHANGED listening
  BY DEF EndSession, evtExtAbort
<1>2. /\ subscription \in [state : {"Inactive", "Active", "Subscribed"},
                          manager : SubIds \cup {None}, freq : Frequencies]
      /\ subscription.freq \in Frequencies /\ subscription.freq # None
      /\ \A id \in SubIds : manager[id] \in Managers /\ WellFormed(manager[id])
      /\ listening \in BOOLEAN
      /\ listening <=> subscription.state = "Subscribed"
  BY FrequencyAssumption DEF IInv, TypeOK, Agrees, SubscriptionAgrees, None
<1>3. /\ subscription'.state = IF subscription.state = "Inactive" THEN "Inactive" ELSE "Active"
      /\ subscription'.manager = subscription.manager
      /\ subscription'.freq = subscription.freq
      /\ subscription' \in [state : {"Inactive", "Active", "Subscribed"},
                           manager : SubIds \cup {None}, freq : Frequencies]
  BY <1>1, <1>2 DEF Activate
<1>4. /\ Living(subscription.freq) \in Managers /\ WellFormed(Living(subscription.freq))
      /\ Living(subscription.freq).kind = "living" /\ Living(subscription.freq).m = 2
      /\ Living(subscription.freq).c = None
      /\ Gone \in Managers /\ WellFormed(Gone) /\ Gone.kind = "none" /\ Gone.c = None
      /\ Gone.m = None
  <2>1. /\ Gone \in Managers /\ WellFormed(Gone) /\ Gone.kind = "none" /\ Gone.c = None
        /\ Gone.m = None
    BY DEF Gone, Managers, WellFormed, None
  <2>2. /\ Living(subscription.freq) \in Managers
        /\ Living(subscription.freq).kind = "living" /\ Living(subscription.freq).m = 2
        /\ Living(subscription.freq).c = None
        /\ Living(subscription.freq).cur = subscription.freq
    BY <1>2 DEF Living, Gone, Managers, None
  <2>3. WellFormed(Living(subscription.freq))
    BY <1>2, <2>2 DEF WellFormed, None
  <2> QED
    BY <2>1, <2>2, <2>3
<1>5. ASSUME NEW id \in SubIds
      PROVE  /\ manager'[id] \in Managers /\ WellFormed(manager'[id])
             /\ manager'[id].c = None
             /\ \/ manager'[id] = Gone /\ ~Works(manager[id], {2, 3, 4})
                \/ Works(manager'[id], {2}) /\ Works(manager[id], {2, 3, 4})
  <2>1. manager'[id] = CASE manager[id].kind = "living" /\ manager[id].m = 2 -> manager[id]
                         [] manager[id].kind = "living" /\ manager[id].m \in {3, 4} ->
                               Living(subscription.freq)
                         [] OTHER -> Gone
    BY DEF EndSession
  <2>2. CASE manager[id].kind = "living" /\ manager[id].m = 2
    <3>1. manager'[id] = manager[id]
      BY <2>1, <2>2
    <3> QED
      BY <1>2, <2>2, <3>1 DEF WellFormed, Works, None
  <2>3. CASE manager[id].kind = "living" /\ manager[id].m \in {3, 4}
    <3>1. manager'[id] = Living(subscription.freq)
      BY <2>1, <2>3
    <3> QED
      BY <1>4, <2>3, <3>1 DEF Works
  <2>4. CASE ~(manager[id].kind = "living" /\ manager[id].m \in {2, 3, 4})
    <3>1. manager'[id] = Gone
      BY <2>1, <2>4
    <3> QED
      BY <1>4, <2>4, <3>1 DEF Works
  <2> QED
    BY <2>2, <2>3, <2>4
<1>6. manager' \in [SubIds -> Managers]
  <2>1. \E f : manager' = [id \in SubIds |-> f[id]]
    <3>1. manager' = [id \in SubIds |-> manager'[id]]
      BY DEF EndSession
    <3> QED
      BY <3>1
  <2> QED
    BY <1>5, <2>1
<1>12. listening' = FALSE
  <2>1. subscription.state = "Subscribed" => listening' = FALSE
    BY <1>1
  <2>2. subscription.state # "Subscribed" => UNCHANGED listening
    BY <1>1
  <2>3. subscription.state # "Subscribed" => listening = FALSE
    BY <1>2
  <2> QED
    BY <2>1, <2>2, <2>3
<1>7. TypeOK'
  <2>1. <<>> \in Seq(Notifications) /\ 0 \in 0..MaxLosses
    BY SubscriptionBounds
  <2> QED
    BY <1>1, <1>2, <1>3, <1>6, <1>12, <2>1 DEF IInv, TypeOK
<1>8. \A id \in SubIds : /\ Asks(id)' = {} /\ Answers(id)' = {} /\ server'[id] = None
                         /\ \A type \in {"SUBOK", "U", "UNSUB"} : ~Coming(id, type)'
  BY <1>1 DEF Asks, Answers, Coming
<1>9. Fresh' /\ Clean' /\ Wanted'
  <2>1. \A id \in SubIds : manager[id] = Gone => manager'[id] = Gone
    BY <1>4, <1>5 DEF Works
  <2> QED
    BY <1>1, <1>5, <1>8, <2>1 DEF IInv, Fresh, Clean, Wanted, None
<1>10. SubscriptionAgrees'
  <2>1. \A id \in SubIds :
           /\ ~(manager'[id].kind = "living" /\ manager'[id].m = 4)
           /\ manager'[id].kind = "living" /\ manager'[id].m \in {2, 3} <=>
                  manager[id].kind = "living" /\ manager[id].m \in {2, 3, 4}
    BY <1>4, <1>5 DEF Works
  <2>2. /\ subscription'.state # "Subscribed"
        /\ subscription'.state = "Active" <=> subscription.state \in {"Active", "Subscribed"}
        /\ subscription'.state = "Inactive" <=> subscription.state = "Inactive"
    BY <1>2, <1>3
  <2> QED
    BY <1>3, <1>12, <2>1, <2>2 DEF IInv, SubscriptionAgrees
<1>11. ASSUME NEW id \in SubIds PROVE Agrees(id)'
  <2>1. UnderWay(id)' /\ Followed(id)' /\ EndsFirst(id)'
    BY <1>1, <1>4, <1>5, <1>8 DEF UnderWay, Followed, EndsFirst, Works, None
  <2>2. AddAgrees(id)' /\ DeleteAgrees(id)' /\ ReconfAgrees(id)'
    BY <1>5, <1>8 DEF AddAgrees, DeleteAgrees, ReconfAgrees, Asked, Answered, None
  <2> QED
    BY <1>5, <2>1, <2>2 DEF Agrees
<1> QED
  BY <1>7, <1>9, <1>10, <1>11 DEF IInv

-----------------------------------------------------------------------------
(* A step of the server is about one subscription, that it has or is asked *)
(* about.                                                                  *)
Serves(id) ==
    /\ id <= nextSubId /\ channel # "off"
    /\ UNCHANGED <<client, ctrl, channel, losses>>
    /\ server' \in [SubIds -> Frequencies \cup {None}]
    /\ \A j \in SubIds \ {id} : server'[j] = server[j]
    /\ \/ UNCHANGED stream
       \/ \E type \in {"SUBOK", "U", "UNSUB"} : Notify(id, type)
    /\ flight' \subseteq flight /\ replies' \subseteq Replies
    /\ (flight = {} => replies' = replies)
    /\ \A j \in SubIds \ {id} : Asks(j)' = Asks(j) /\ Answers(j)' = Answers(j)

(* What such a step leaves, if the subscription it is about agrees.        *)
LEMMA ServerStep ==
    ASSUME IInv, NEW id \in SubIds, Serves(id), Agrees(id)'
    PROVE  IInv'
<1> USE DEF Serves, client
<1>1. stream' \in Seq(Notifications)
  BY AfterNotify DEF IInv, TypeOK
<1>2. ASSUME NEW j \in SubIds \ {id}
      PROVE  /\ \A type \in {"SUBOK", "U", "UNSUB"} : Coming(j, type)' <=> Coming(j, type)
             /\ EndsFirst(j) => EndsFirst(j)'
  <2>1. CASE UNCHANGED stream
    BY <2>1 DEF Coming, EndsFirst
  <2>2. CASE \E type \in {"SUBOK", "U", "UNSUB"} : Notify(id, type)
    <3>1. PICK type \in {"SUBOK", "U", "UNSUB"} : Notify(id, type)
      BY <2>2
    <3> QED
      BY <3>1, AfterNotify DEF IInv, TypeOK
  <2> QED
    BY <2>1, <2>2
<1>3. TypeOK'
  BY <1>1 DEF IInv, TypeOK
<1>4. SubscriptionAgrees' /\ Wanted'
  BY DEF IInv, SubscriptionAgrees, Wanted
<1>5. Clean'
  BY DEF IInv, Clean
<1>6. Fresh'
  <2>1. \A j \in SubIds : j > nextSubId => j # id
    BY DEF IInv, TypeOK, SubIds
  <2> QED
    BY <1>2, <2>1 DEF IInv, Fresh
<1>7. ASSUME NEW j \in SubIds \ {id} PROVE Agrees(j)'
  <2>1. Unconcerned(j)
    BY <1>2 DEF Unconcerned
  <2> QED
    BY <2>1, OthersAgree DEF IInv
<1> QED
  BY <1>3, <1>4, <1>5, <1>6, <1>7 DEF IInv

(* An update concerns nobody's requests.                                   *)
LEMMA UpdatesInv == IInv /\ ServerUpdates => IInv'
<1> SUFFICES ASSUME IInv, ServerUpdates PROVE IInv'
  OBVIOUS
<1>1. PICK id \in SubIds : /\ server[id] # None /\ Notify(id, "U")
                          /\ UNCHANGED <<client, network, channel, server, losses>>
  BY DEF ServerUpdates
<1>2. channel # "off" /\ id <= nextSubId /\ Agrees(id)
  BY <1>1, Given DEF IInv, Clean
<1>3. Serves(id)
  BY <1>1, <1>2 DEF IInv, TypeOK, Serves, network, Asks, Answers
<1>4. Unconcerned(id)
  BY <1>1, AfterNotify DEF IInv, TypeOK, Unconcerned, network, client, Asks, Answers
<1> QED
  BY <1>2, <1>3, <1>4, OthersAgree, ServerStep

(* The server closes a subscription.                                       *)
LEMMA ClosesInv == IInv /\ ServerCloses => IInv'
<1> SUFFICES ASSUME IInv, ServerCloses PROVE IInv'
  OBVIOUS
<1>1. PICK id \in SubIds : /\ server[id] # None /\ Notify(id, "UNSUB")
                          /\ server' = [server EXCEPT ![id] = None]
                          /\ UNCHANGED <<client, network, channel, losses>>
  BY DEF ServerCloses
<1>2. channel # "off" /\ id <= nextSubId /\ Agrees(id)
  BY <1>1, Given DEF IInv, Clean
<1>3. /\ server \in [SubIds -> Frequencies \cup {None}] /\ server'[id] = None
      /\ server' \in [SubIds -> Frequencies \cup {None}]
      /\ \A j \in SubIds \ {id} : server'[j] = server[j]
  BY <1>1 DEF IInv, TypeOK
<1>4. Serves(id)
  BY <1>1, <1>2, <1>3 DEF IInv, TypeOK, Serves, network, Asks, Answers
<1>5. Asks(id)' = Asks(id) /\ Answers(id)' = Answers(id)
  BY <1>1 DEF network, Asks, Answers
<1>6. \A type \in {"SUBOK", "U", "UNSUB"} : Coming(id, type) => Coming(id, type)'
  BY <1>1, AfterNotify DEF IInv, TypeOK
<1>7. UnderWay(id)' /\ Followed(id)' /\ EndsFirst(id)'
  BY <1>1, <1>2, <1>3, <1>5, <1>6
     DEF Agrees, UnderWay, Followed, EndsFirst, Answered, client
<1>8. AddAgrees(id)' /\ DeleteAgrees(id)' /\ ReconfAgrees(id)'
  BY <1>1, <1>2, <1>3, <1>5, <1>6
     DEF Agrees, AddAgrees, DeleteAgrees, ReconfAgrees, Asked, Answered, client
<1>9. Agrees(id)'
  BY <1>1, <1>2, <1>7, <1>8 DEF Agrees, client
<1> QED
  BY <1>4, <1>9, ServerStep

(* A request that the server receives: what it knows when it answers, and  *)
(* what it answers.                                                        *)
Receives(id, req) ==
    /\ req \in flight /\ req.id = id /\ req \in Requests /\ req \in Asks(id)
    /\ \A other \in Asks(id) : other.op \notin Earlier(req.op)
    /\ flight' = flight \ {req} /\ Asks(id)' = Asks(id) \ {req}
    /\ channel \in {"ws", "http"} /\ id <= nextSubId
    /\ UNCHANGED <<client, ctrl, channel, losses>>
    /\ Agrees(id) /\ WellFormed(manager[id]) /\ manager'[id] = manager[id]

(* The answer to a request, if it is answered.                             *)
LEMMA AfterAnswer ==
    ASSUME IInv, NEW id \in SubIds, NEW req \in Asks(id), NEW ok \in BOOLEAN, Answer(req, ok),
           req \in Requests
    PROVE  /\ replies' \subseteq Replies
           /\ \A j \in SubIds \ {id} : Answers(j)' = Answers(j)
           /\ \/ Answers(id)' = Answers(id) \cup {[ok |-> ok, op |-> req.op, id |-> id]}
              \/ /\ ok /\ channel = "ws" /\ req.op # "reconf"
                 /\ Answers(id)' = Answers(id)
<1>1. req.id = id /\ req.op \in {"add", "delete", "reconf"}
  BY DEF Asks, Requests
<1>2. [ok |-> ok, op |-> req.op, id |-> id] \in Replies
  BY <1>1 DEF Replies
<1>3. CASE ok /\ channel = "ws" /\ req.op # "reconf"
  <2>1. replies' = replies
    BY <1>3 DEF Answer
  <2> QED
    BY <1>3, <2>1 DEF Answers, IInv, TypeOK
<1>4. CASE ~(ok /\ channel = "ws" /\ req.op # "reconf")
  <2>1. replies' = replies \cup {[ok |-> ok, op |-> req.op, id |-> id]}
    BY <1>1, <1>4 DEF Answer
  <2> QED
    BY <1>2, <2>1 DEF Answers, IInv, TypeOK
<1> QED
  BY <1>3, <1>4

(* A request to add: taken, refused or already taken.                      *)
LEMMA AddReceivedInv ==
    ASSUME IInv, NEW id \in SubIds, NEW req, Receives(id, req), req.op = "add", ServerAdds(req)
    PROVE  IInv'
<1> USE DEF Receives
<1>1. /\ server \in [SubIds -> Frequencies \cup {None}] /\ stream \in Seq(Notifications)
      /\ manager[id] \in Managers /\ req.freq \in Frequencies
  BY DEF IInv, TypeOK, Agrees, AddAgrees, Requests
<1>2. Asked("add", id) /\ ~Answered("delete", id)
  BY DEF Asked, Agrees, DeleteAgrees
<1>3. isPending(manager[id]) /\ encode(id, manager[id]).op = "add" => Works(manager[id], {2})
  BY <1>1, EncodeWhat
<1>4. CASE server[id] = None /\ Notify(id, "SUBOK") /\ Answer(req, TRUE)
           /\ server' = [server EXCEPT ![id] = req.freq]
  <2>1. /\ server' \in [SubIds -> Frequencies \cup {None}] /\ server'[id] = req.freq
        /\ \A j \in SubIds \ {id} : server'[j] = server[j]
    BY <1>1, <1>4
  <2>2. /\ replies' \subseteq Replies
        /\ \A j \in SubIds \ {id} : Answers(j)' = Answers(j)
        /\ \/ Answers(id)' = Answers(id) \cup {[ok |-> TRUE, op |-> "add", id |-> id]}
           \/ Answers(id)' = Answers(id)
    BY <1>4, AfterAnswer
  <2>3. Coming(id, "SUBOK")' /\ EndsFirst(id)'
    BY <1>1, <1>4, AfterNotify
  <2>4. \A type \in {"SUBOK", "U", "UNSUB"} : Coming(id, type) => Coming(id, type)'
    BY <1>1, <1>4, AfterNotify
  <2>5. Serves(id)
    BY <1>4, <2>1, <2>2 DEF Serves, Asks
  <2>6. UnderWay(id)' /\ Followed(id)'
    BY <1>3, <2>2, <2>3, <2>4 DEF Agrees, UnderWay, Followed, Answered
  <2>7. ~Answered("delete", id)' /\ (Answered("reconf", id)' <=> Answered("reconf", id))
    BY <1>2, <2>2 DEF Answered
  <2>8. Works(manager[id], {2, 3, 4}) =>
           server'[id] = manager[id].cur /\ ~Answered("reconf", id)
    BY <1>2, <2>1 DEF Agrees, AddAgrees
  <2>9. AddAgrees(id)'
    BY <2>3, <2>7, <2>8 DEF Agrees, AddAgrees, Asked, Works
  <2>10. DeleteAgrees(id)'
    BY <2>7 DEF DeleteAgrees
  <2>11. manager[id].c \in {21, 22} => Works(manager[id], {4})
    BY <1>1, SubscribedManager
  <2>12. ReconfAgrees(id)'
    <3>1. Works(manager[id], {4}) =>
            /\ [ok |-> TRUE, op |-> "reconf", id |-> id] \notin Answers(id)'
            /\ [ok |-> FALSE, op |-> "reconf", id |-> id] \notin Answers(id)'
      BY <2>7, <2>8 DEF Answered, Works
    <3> QED
      BY <2>7, <2>8, <2>11, <3>1 DEF Agrees, ReconfAgrees, Asked, Works
  <2> QED
    BY <2>3, <2>5, <2>6, <2>9, <2>10, <2>12, ServerStep DEF Agrees
<1>5. CASE UNCHANGED <<server, stream>>
           /\ (Answer(req, FALSE) \/ (server[id] # None /\ Answer(req, TRUE)))
  <2>1. PICK ok \in BOOLEAN : Answer(req, ok) /\ (ok => server[id] # None)
    BY <1>5
  <2>2. /\ replies' \subseteq Replies
        /\ \A j \in SubIds \ {id} : Answers(j)' = Answers(j)
        /\ \/ Answers(id)' = Answers(id) \cup {[ok |-> ok, op |-> "add", id |-> id]}
           \/ ok /\ channel = "ws" /\ Answers(id)' = Answers(id)
    BY <2>1, AfterAnswer
  <2>3. /\ EndsFirst(id)'
        /\ \A type \in {"SUBOK", "U", "UNSUB"} : Coming(id, type)' = Coming(id, type)
    BY <1>5 DEF Agrees, EndsFirst, Coming
  <2>4. Serves(id)
    BY <1>1, <1>5, <2>2 DEF Serves, Asks
  <2>5. server[id] # None /\ Works(manager[id], {2}) => Coming(id, "SUBOK")
    BY DEF Agrees, Followed, Works
  <2>6. UnderWay(id)' /\ Followed(id)'
    <3>1. channel = "ws" /\ isPending(manager[id]) /\ encode(id, manager[id]) = req =>
             Answered("add", id)' \/ Coming(id, "SUBOK")'
      <4>1. CASE [ok |-> ok, op |-> "add", id |-> id] \in Answers(id)'
        BY <4>1 DEF Answered
      <4>2. CASE ok
        BY <1>3, <2>1, <2>3, <2>5, <4>2
      <4> QED
        BY <2>2, <4>1, <4>2
    <3>2. \A op \in {"add", "reconf", "delete"} : Answered(op, id) => Answered(op, id)'
      BY <2>2 DEF Answered
    <3>3. isPending(manager[id]) => encode(id, manager[id]).op \in {"add", "reconf", "delete"}
      BY <1>1, EncodeWhat DEF Requests
    <3> QED
      BY <1>5, <2>3, <3>1, <3>2, <3>3 DEF Agrees, UnderWay, Followed
  <2>7. AddAgrees(id)'
    <3>1. ok /\ Works(manager[id], {2}) => Coming(id, "SUBOK")
      BY <2>1, <2>5
    <3> QED
      BY <1>5, <2>2, <2>3, <3>1 DEF Agrees, AddAgrees, Asked, Answered
  <2>8. DeleteAgrees(id)' /\ ReconfAgrees(id)'
    BY <1>5, <2>2 DEF Agrees, DeleteAgrees, ReconfAgrees, Asked, Answered
  <2> QED
    BY <2>3, <2>4, <2>6, <2>7, <2>8, ServerStep DEF Agrees
<1> QED
  BY <1>4, <1>5 DEF ServerAdds

(* A request to delete: done, or there is nothing to delete.               *)
LEMMA DeleteReceivedInv ==
    ASSUME IInv, NEW id \in SubIds, NEW req, Receives(id, req), req.op = "delete",
           ServerDeletes(req)
    PROVE  IInv'
<1> USE DEF Receives
<1>1. /\ server \in [SubIds -> Frequencies \cup {None}] /\ stream \in Seq(Notifications)
      /\ manager[id] \in Managers
  BY DEF IInv, TypeOK
<1>2. ~Asked("add", id)
  BY DEF Asked, Earlier
<1>3. PICK ok \in BOOLEAN :
        /\ Answer(req, ok)
        /\ \/ /\ ok /\ server[id] # None /\ server' = [server EXCEPT ![id] = None]
              /\ Notify(id, "UNSUB")
           \/ ~ok /\ server[id] = None /\ UNCHANGED <<server, stream>>
  BY DEF ServerDeletes
<1>4. /\ replies' \subseteq Replies
      /\ \A j \in SubIds \ {id} : Answers(j)' = Answers(j)
      /\ \/ Answers(id)' = Answers(id) \cup {[ok |-> ok, op |-> "delete", id |-> id]}
         \/ ok /\ channel = "ws" /\ Answers(id)' = Answers(id)
  BY <1>3, AfterAnswer
<1>5. /\ server' \in [SubIds -> Frequencies \cup {None}] /\ server'[id] = None
      /\ \A j \in SubIds \ {id} : server'[j] = server[j]
  BY <1>1, <1>3
<1>6. /\ \A type \in {"SUBOK", "U", "UNSUB"} : Coming(id, type) => Coming(id, type)'
      /\ ok => Coming(id, "UNSUB")'
  <2>1. CASE UNCHANGED stream /\ ~ok
    BY <2>1 DEF Coming
  <2>2. CASE Notify(id, "UNSUB")
    BY <1>1, <2>2, AfterNotify
  <2> QED
    BY <1>3, <2>1, <2>2
<1>7. Serves(id)
  <2>1. UNCHANGED stream \/ \E type \in {"SUBOK", "U", "UNSUB"} : Notify(id, type)
    BY <1>3
  <2> QED
    BY <1>4, <1>5, <2>1 DEF Serves, Asks
<1>8. UnderWay(id)' /\ Followed(id)' /\ EndsFirst(id)'
  <2>1. isPending(manager[id]) /\ encode(id, manager[id]) = req =>
           Answered("delete", id)' \/ Coming(id, "UNSUB")'
    <3>1. ~ok => [ok |-> ok, op |-> "delete", id |-> id] \in Answers(id)'
      BY <1>4
    <3>2. ~ok => Answered("delete", id)'
      BY <3>1 DEF Answered
    <3> QED
      BY <1>6, <3>2
  <2>2. \A op \in {"add", "reconf", "delete"} : Answered(op, id) => Answered(op, id)'
    BY <1>4 DEF Answered
  <2>3. isPending(manager[id]) => encode(id, manager[id]).op \in {"add", "reconf", "delete"}
    BY <1>1, EncodeWhat DEF Requests
  <2> QED
    BY <1>5, <1>6, <2>1, <2>2, <2>3 DEF Agrees, UnderWay, Followed, EndsFirst
<1>9. AddAgrees(id)' /\ DeleteAgrees(id)'
  BY <1>2, <1>4, <1>5, <1>6 DEF Agrees, AddAgrees, DeleteAgrees, Asked, Answered
<1>10. ReconfAgrees(id)'
  BY <1>4, <1>5 DEF Agrees, ReconfAgrees, Asked, Answered
<1> QED
  BY <1>7, <1>8, <1>9, <1>10, ServerStep DEF Agrees

(* A request to reconfigure: granted or not.                               *)
LEMMA ReconfReceivedInv ==
    ASSUME IInv, NEW id \in SubIds, NEW req, Receives(id, req), req.op = "reconf",
           ServerReconfigures(req)
    PROVE  IInv'
<1> USE DEF Receives
<1>1. /\ server \in [SubIds -> Frequencies \cup {None}] /\ stream \in Seq(Notifications)
      /\ manager[id] \in Managers /\ req.freq \in Frequencies
  BY DEF IInv, TypeOK, Agrees, AddAgrees, Requests
<1>2. ~Asked("add", id) /\ Asked("reconf", id)
  BY DEF Asked, Earlier
<1>3. PICK ok \in BOOLEAN :
        /\ ok <=> server[id] # None /\ req.freq \notin RefusedFrequencies
        /\ Answer(req, ok)
        /\ server' = IF ok THEN [server EXCEPT ![id] = req.freq] ELSE server
        /\ UNCHANGED stream
  BY DEF ServerReconfigures
<1>4. /\ replies' \subseteq Replies
      /\ \A j \in SubIds \ {id} : Answers(j)' = Answers(j)
      /\ Answers(id)' = Answers(id) \cup {[ok |-> ok, op |-> "reconf", id |-> id]}
  BY <1>3, AfterAnswer
<1>5. /\ server' \in [SubIds -> Frequencies \cup {None}]
      /\ server'[id] = IF ok THEN req.freq ELSE server[id]
      /\ \A j \in SubIds \ {id} : server'[j] = server[j]
      /\ server'[id] # None => server[id] # None
  BY <1>1, <1>3
<1>6. \A type \in {"SUBOK", "U", "UNSUB"} : Coming(id, type)' = Coming(id, type)
  BY <1>3 DEF Coming
<1>7. Serves(id)
  BY <1>3, <1>4, <1>5 DEF Serves, Asks
<1>8. UnderWay(id)' /\ Followed(id)' /\ EndsFirst(id)'
  <2>1. \A op \in {"add", "reconf", "delete"} : Answered(op, id) => Answered(op, id)'
    BY <1>4 DEF Answered
  <2>2. isPending(manager[id]) => encode(id, manager[id]).op \in {"add", "reconf", "delete"}
    BY <1>1, EncodeWhat DEF Requests
  <2>3. Answered("reconf", id)'
    <3>1. [ok |-> ok, op |-> "reconf", id |-> id] \in Answers(id)'
      BY <1>4
    <3> QED
      BY <3>1 DEF Answered
  <2>4. UnderWay(id)' /\ Followed(id)'
    BY <1>5, <1>6, <2>1, <2>2, <2>3 DEF Agrees, UnderWay, Followed
  <2> QED
    BY <1>3, <1>5, <2>4 DEF Agrees, EndsFirst
<1>9. Works(manager[id], {2, 3, 4}) =>
         /\ manager[id].c = 22 /\ Works(manager[id], {4}) /\ ~Answered("reconf", id)
         /\ req.freq = manager[id].req
  BY <1>1, <1>2, SubscribedManager DEF Agrees, ReconfAgrees
<1>10. manager[id].c \in {21, 22} => Works(manager[id], {4})
  BY <1>1, SubscribedManager
<1>11. AddAgrees(id)' /\ DeleteAgrees(id)'
  BY <1>2, <1>3, <1>4, <1>5, <1>6, <1>9
     DEF Agrees, AddAgrees, DeleteAgrees, Asked, Answered, Works
<1>12. ReconfAgrees(id)'
  <2>1. CASE ~Works(manager[id], {4})
    BY <1>9, <1>10, <2>1 DEF ReconfAgrees, Works
  <2>2. CASE Works(manager[id], {4})
    <3>1. manager[id].c = 22 /\ ~Answered("reconf", id) /\ req.freq = manager[id].req
      BY <1>9, <2>2 DEF Works
    <3>2. \A other \in Answers(id)' : other.op = "reconf" =>
              other = [ok |-> ok, op |-> "reconf", id |-> id]
      BY <1>4, <3>1 DEF Answered
    <3>3. ~Asked("reconf", id)'
      <4>1. \A other \in Asks(id) : other \in Requests /\ other.id = id
        BY DEF IInv, TypeOK, Asks
      <4>2. \A other \in Asks(id) : other.op = "reconf" => other.freq = req.freq
        BY <3>1 DEF Agrees, ReconfAgrees
      <4>3. \A other \in Asks(id) : other.op = "reconf" => other = req
        BY <4>1, <4>2 DEF Requests
      <4> QED
        BY <4>3 DEF Asked
    <3>4. \/ server'[id] \in {manager[id].cur, None}
          \/ server'[id] = manager[id].req /\ manager[id].req \notin RefusedFrequencies
      BY <1>3, <1>5, <3>1 DEF Agrees, ReconfAgrees
    <3>5. ok => server'[id] = manager[id].req
      BY <1>5, <3>1
    <3>6. ~ok => server'[id] \in {manager[id].cur, None}
      BY <1>3, <1>5, <3>1 DEF Agrees, ReconfAgrees
    <3>7. /\ [ok |-> TRUE, op |-> "reconf", id |-> id] \in Answers(id)' => ok
          /\ [ok |-> FALSE, op |-> "reconf", id |-> id] \in Answers(id)' => ~ok
      BY <3>2
    <3> QED
      BY <3>1, <3>3, <3>4, <3>5, <3>6, <3>7 DEF ReconfAgrees, Asked
  <2> QED
    BY <2>1, <2>2
<1> QED
  BY <1>7, <1>8, <1>11, <1>12, ServerStep DEF Agrees

(* Any request.                                                            *)
LEMMA ReceivesInv == IInv /\ ServerReceives => IInv'
<1> SUFFICES ASSUME IInv, ServerReceives PROVE IInv'
  OBVIOUS
<1>1. PICK req \in flight :
        /\ \A other \in flight : other.id = req.id => other.op \notin Earlier(req.op)
        /\ flight' = flight \ {req}
        /\ \/ req.op = "add" /\ ServerAdds(req)
           \/ req.op = "delete" /\ ServerDeletes(req)
           \/ req.op = "reconf" /\ ServerReconfigures(req)
        /\ UNCHANGED <<client, ctrl, channel, losses>>
  BY DEF ServerReceives
<1>2. req \in Requests /\ channel \in {"ws", "http"}
  BY DEF IInv, TypeOK, Clean
<1>3. PICK id \in SubIds : req.id = id
  BY <1>2 DEF Requests
<1>4. id <= nextSubId
  BY <1>1, <1>3, Given DEF Asks
<1>5. Receives(id, req)
  BY <1>1, <1>2, <1>3, <1>4 DEF Receives, IInv, Agrees, Asks, client
<1> QED
  BY <1>1, <1>3, <1>5, AddReceivedInv, DeleteReceivedInv, ReconfReceivedInv

(* Nothing happens. *)
LEMMA StutterInv == IInv /\ UNCHANGED vars => IInv'
<1> SUFFICES ASSUME IInv, UNCHANGED vars PROVE IInv'
  OBVIOUS
<1>1. /\ UNCHANGED <<subscription, manager, nextSubId, listening, configuring, flight, replies,
                      ctrl, channel, stream, server, losses>>
  BY DEF vars, client, network
<1>2. TypeOK' /\ Clean' /\ SubscriptionAgrees' /\ Wanted'
  BY <1>1 DEF IInv, TypeOK, Clean, SubscriptionAgrees, Wanted
<1>3. \A id \in SubIds : Unconcerned(id)
  BY <1>1 DEF Unconcerned, Asks, Answers, Coming, EndsFirst
<1>4. Fresh'
  BY <1>1 DEF IInv, Fresh, Asks, Answers, Coming
<1> QED
  BY <1>2, <1>3, <1>4, OthersAgree DEF IInv

-----------------------------------------------------------------------------
(* The inductive invariant holds initially ... *)
LEMMA InitInv == Init => IInv
<1> SUFFICES ASSUME Init PROVE IInv
  OBVIOUS
<1> USE FrequencyAssumption, SubscriptionBounds
<1>1. PICK freq \in Frequencies :
        subscription = [state |-> "Inactive", manager |-> None, freq |-> freq]
  BY DEF Init
<1>2. /\ Gone \in Managers /\ WellFormed(Gone) /\ ~isPending(Gone) /\ Gone.kind = "none"
      /\ Gone.c = None /\ Gone.m = None
  BY DEF Gone, Managers, WellFormed, isPending, None
<1>3. \A id \in SubIds : manager[id] = Gone /\ server[id] = None
  BY DEF Init
<1>4. /\ manager \in [SubIds -> Managers] /\ server \in [SubIds -> Frequencies \cup {None}]
  BY <1>2 DEF Init
<1>5. TypeOK
  <2>1. <<>> \in Seq(Notifications)
    OBVIOUS
  <2>2. subscription \in [state : {"Inactive", "Active", "Subscribed"},
                         manager : SubIds \cup {None}, freq : Frequencies]
    BY <1>1
  <2>3. losses \in 0..MaxLosses /\ nextSubId \in 0..MaxSubId
    BY DEF Init
  <2> QED
    BY <1>4, <2>1, <2>2, <2>3 DEF Init, TypeOK
<1>6. \A id \in SubIds : Asks(id) = {} /\ Answers(id) = {} /\ DOMAIN stream = {}
  BY DEF Init, Asks, Answers
<1>7. Fresh /\ Clean
  BY <1>2, <1>3, <1>6 DEF Init, Fresh, Clean, Coming
<1>8. SubscriptionAgrees /\ Wanted
  <2>1. 0 \notin SubIds
    BY DEF SubIds
  <2> QED
    BY <1>1, <1>2, <1>3, <2>1 DEF Init, SubscriptionAgrees, Wanted, None
<1>9. ASSUME NEW id \in SubIds PROVE Agrees(id)
  BY <1>2, <1>3, <1>6
     DEF Agrees, UnderWay, Followed, EndsFirst, AddAgrees, DeleteAgrees, ReconfAgrees, Asked,
         Answered, Works, None
<1> QED
  BY <1>5, <1>7, <1>8, <1>9 DEF IInv

(* ... and is kept by every step. *)
LEMMA StepInv == IInv /\ [Next]_vars => IInv'
<1>1. IInv /\ Application => IInv'
  BY SubscribeInv, UnsubscribeInv, SetFrequencyInv DEF Application
<1>2. IInv /\ Session => IInv'
  BY ConfigureInv, NotificationInv, ReplyInv, ChannelInv, EndSessionInv DEF Session
<1>3. IInv /\ Server => IInv'
  BY ReceivesInv, UpdatesInv, ClosesInv DEF Server
<1> QED
  BY <1>1, <1>2, <1>3, StutterInv DEF Next

(* The inductive invariant is an invariant.                                *)
LEMMA Invariance == Spec => []IInv
<1> QED
  BY InitInv, StepInv, PTL DEF Spec

-----------------------------------------------------------------------------
(* Type correctness. *)
THEOREM TypeCorrect == Spec => []TypeOK
<1>1. IInv => TypeOK
  BY DEF IInv
<1> QED
  BY <1>1, Invariance, PTL

(* The Subscription is in the state of the one manager that works for it,  *)
(* and its listener was told (setActive, setSubscribed, setInactive).      *)
THEOREM SubscriptionCorrect == Spec => []SubscriptionAgrees
<1>1. IInv => SubscriptionAgrees
  BY DEF IInv
<1> QED
  BY <1>1, Invariance, PTL

(* No manager waits for nothing, and the server keeps no subscription that *)
(* the client has forgotten (NewZombie, genSendControl, evtUNSUB).         *)
THEOREM NothingForgotten == Spec => []NothingIsForgotten
<1>1. IInv => NothingIsForgotten
  <2> SUFFICES ASSUME IInv PROVE NothingIsForgotten
    OBVIOUS
  <2>1. TypeOK
    BY DEF IInv
  <2>2. RequestsUnderWay
    <3>1. channel = "http" /\ ctrl = "idle" => PendingIds(manager) = {}
      BY DEF IInv, Clean
    <3>2. ASSUME channel = "ws", NEW id \in PendingIds(manager)
          PROVE  \/ encode(id, manager[id]) \in flight
                 \/ \E reply \in replies :
                       reply.id = id /\ reply.op = encode(id, manager[id]).op
                 \/ encode(id, manager[id]).op = "add" /\ Coming(id, "SUBOK")
                 \/ encode(id, manager[id]).op = "delete" /\ Coming(id, "UNSUB")
      <4>1. id \in SubIds /\ isPending(manager[id]) /\ UnderWay(id)
        BY DEF PendingIds, IInv, Agrees
      <4> QED
        BY <3>2, <4>1 DEF UnderWay, Asks, Answered, Answers
    <3>3. \A id \in SubIds : manager[id].m = 3 => Coming(id, "SUBOK")
      BY DEF IInv, Agrees, UnderWay
    <3> QED
      BY <3>1, <3>2, <3>3 DEF RequestsUnderWay
  <2>3. NoOrphan
    BY DEF IInv, Agrees, Followed, Works, NoOrphan, Exists
  <2> QED
    BY <2>1, <2>2, <2>3 DEF NothingIsForgotten
<1> QED
  BY <1>1, Invariance, PTL

(* When no reconfiguration is under way client and server agree on the     *)
(* frequency, and it is the one that the application wants unless the      *)
(* server refused it (evtCheckFrequency, evtREQOK, evtREQERR).             *)
THEOREM FrequencyCorrect == Spec => []FrequencyAgrees
<1>1. IInv => FrequencyAgrees
  BY DEF IInv, Wanted, Agrees, ReconfAgrees, FrequencyAgrees
<1> QED
  BY <1>1, Invariance, PTL
=============================================================================
