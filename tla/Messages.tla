------------------------------ MODULE Messages ------------------------------
(***************************************************************************)
(* The messages that the application sends: one MessageManager for each,   *)
(* numbered within its sequence, kept until the server has taken it (or,   *)
(* when it has a listener, until the outcome is known), and sent again on  *)
(* every new channel until its reception is acknowledged.                  *)
(*                                                                         *)
(* Replies come with the channel that carried the request; outcomes        *)
(* (MSGDONE, MSGFAIL) come with the notifications, which Recovery shows to *)
(* be delivered once and in order.  The two race.  A request may also be   *)
(* received after the client has given up the channel it was sent on.      *)
(*                                                                         *)
(* Every handler runs under the lock of the client and is one step.        *)
(***************************************************************************)
EXTENDS Naturals, Sequences, FiniteSets

CONSTANTS
    Kinds,          \* the kinds of messages that the application sends
    MaxMessages,    \* bound: messages sent
    MaxLosses       \* bound: channels lost while a session lasts

ASSUME KindAssumption ==
    Kinds \subseteq {"ordered", "ordered_silent", "unordered", "fire_and_forget"}
ASSUME MessageBounds == MaxMessages \in Nat /\ MaxLosses \in Nat

VARIABLES
    messages,     \* by number of call: sequence, listener, prog, m (state s_m)
    nextCall,     \* the last call of sendMessage
    sequenceMap,  \* the next prog of each sequence
    told,         \* what the listener of each message was told
    session,      \* "disconnected" s20, "creating" s21, "on" s22, "retry" s23
    channel,      \* where requests go: "none", "ws", "http"
    ctrl,         \* the HTTP channel: "idle", "busy", "pause" (s1101 .. s1103)
    flight,       \* messages on the channel that the server has not received
    late,         \* messages on a channel that the client has left
    replies,      \* replies on their way
    stream,       \* outcomes on their way
    arrived,      \* messages that the server has received, in that order
    accepted,     \* those it has to process in this session
    outcome,      \* what the server made of each message
    lastProg,     \* the last prog it has received in each sequence
    losses        \* channels lost in this session

client == <<messages, nextCall, sequenceMap, told>>
network == <<flight, replies, ctrl>>
server == <<arrived, accepted, outcome, lastProg>>
vars == <<client, session, channel, network, late, stream, server, losses>>

Calls == 1..MaxMessages

Events == {"processed", "denied", "error", "discarded", "abort"}

(* s1 before it is sent; then s11, s12 with a listener, s21 with a         *)
(* sequence only, s31 with neither; the others are final.                  *)
States == {1, 11, 12, 13, 14, 15, 21, 22, 23, 24, 31, 32, 33, 34, 35}

Exists(msg) == msg.m \in {11, 12, 21, 31}

isPending(msg) == msg.m \in {11, 21, 31}

(* What the four combinations of a sequence and a listener mean.           *)
Unordered == "UNORDERED_MESSAGES"
SequenceNames == {"seq", Unordered}
sequence(kind) == IF kind \in {"ordered", "ordered_silent"} THEN "seq" ELSE Unordered
hasListener(kind) == kind \in {"ordered", "unordered"}
isFireAndForget(kind) == kind = "fire_and_forget"

NotSent == [kind |-> "fire_and_forget", prog |-> 0, m |-> 1]

-----------------------------------------------------------------------------
(* Sending. *)

(* The sequence of calls seq has the call i. *)
Carries(seq, i) == \E k \in DOMAIN seq : seq[k] = i

PendingMessages(msgs) == {i \in Calls : isPending(msgs[i])}

(* What can be sent of the messages that are kept: a first part of those   *)
(* that are pending, in the order they are kept in.                        *)
Batches(msgs) ==
    {batch \in UNION {[1..n -> PendingMessages(msgs)] : n \in 0..MaxMessages} :
        \A n \in DOMAIN batch, i \in PendingMessages(msgs) :
            i < batch[n] <=> \E k \in 1..(n - 1) : batch[k] = i}

(* Over HTTP a batch takes what fits in the limit set by the server.       *)
sendPendingMessagesHTTP(msgs) ==
    IF PendingMessages(msgs) = {}
      THEN ctrl' = "idle" /\ flight' = <<>>
      ELSE ctrl' = "busy" /\ flight' \in Batches(msgs) \ {<<>>}

evtWSSent(msg) == IF msg.m = 31 THEN [msg EXCEPT !.m = 32] ELSE msg

(* Fault: the messages that wait for a WebSocket are forgotten. *)
evtSendPendingMessages_Never == flight' = <<>> /\ UNCHANGED messages

evtSendPendingMessages ==
    /\ flight' \in {batch \in Batches(messages) : \A i \in PendingMessages(messages) : Carries(batch, i)}
    /\ messages' = [i \in Calls |-> evtWSSent(messages[i])]

(* The call i, now pending as msg, is sent if a channel is ready.          *)
evtSendMessage(i, msg) ==
    LET added == [messages EXCEPT ![i] = msg]
    IN \/ /\ channel = "ws"
          /\ flight' = Append(flight, i)
          /\ messages' = [added EXCEPT ![i] = evtWSSent(msg)]
          /\ UNCHANGED ctrl
       \/ /\ channel = "http" /\ ctrl = "idle"
          /\ messages' = added
          /\ sendPendingMessagesHTTP(added)
       \/ /\ channel = "none" \/ (channel = "http" /\ ctrl # "idle")
          /\ messages' = added
          /\ UNCHANGED <<flight, ctrl>>

-----------------------------------------------------------------------------
Init ==
    /\ messages = [i \in Calls |-> NotSent] /\ nextCall = 0
    /\ sequenceMap = [s \in SequenceNames |-> 1]
    /\ told = [i \in Calls |-> <<>>]
    /\ session = "disconnected" /\ channel = "none" /\ ctrl = "idle"
    /\ flight = <<>> /\ late = <<>> /\ replies = {} /\ stream = <<>>
    /\ arrived = <<>> /\ accepted = {}
    /\ outcome = [i \in Calls |-> "none"]
    /\ lastProg = [s \in SequenceNames |-> 0]
    /\ losses = 0

(* The constructor: only fire-and-forget messages have no prog.            *)
NewMessage(kind) ==
    [kind |-> kind,
     prog |-> IF isFireAndForget(kind) THEN 0 ELSE sequenceMap[sequence(kind)],
     m |-> IF hasListener(kind) THEN 11 ELSE IF isFireAndForget(kind) THEN 31 ELSE 21]

(* Fault: the counter is read and not moved. *)
getAndSetNextMsgProg_ReadOnly(kind) == sequenceMap

getAndSetNextMsgProg(kind) ==
    IF isFireAndForget(kind) THEN sequenceMap
    ELSE [sequenceMap EXCEPT ![sequence(kind)] = @ + 1]

(* Without enqueueWhileDisconnected the message is aborted on the spot     *)
(* when there is no connection; it gets no manager (s15 stands for that).  *)
sendMessage ==
    /\ nextCall < MaxMessages
    /\ nextCall' = nextCall + 1
    /\ \E kind \in Kinds, enqueueWhileDisconnected \in BOOLEAN :
          \/ /\ ~enqueueWhileDisconnected /\ session \in {"disconnected", "retry"}
             /\ messages' = [messages EXCEPT ![nextCall'] = [kind |-> kind, prog |-> 0, m |-> 15]]
             /\ told' = [told EXCEPT ![nextCall'] =
                   IF hasListener(kind) THEN Append(@, "abort") ELSE @]
             /\ UNCHANGED <<sequenceMap, flight, ctrl>>
          \/ /\ enqueueWhileDisconnected \/ session \in {"creating", "on"}
             /\ sequenceMap' = getAndSetNextMsgProg(kind)
             /\ evtSendMessage(nextCall', NewMessage(kind))
             /\ UNCHANGED told
    /\ UNCHANGED <<session, channel, late, replies, stream, server, losses>>

-----------------------------------------------------------------------------
(* Replies and outcomes. *)

evtREQOK(i) ==
    LET after == CASE messages[i].m = 11 -> 12 [] messages[i].m = 21 -> 22
                   [] messages[i].m = 31 -> 33 [] OTHER -> messages[i].m
    IN messages' = [messages EXCEPT ![i].m = after] /\ UNCHANGED told

(* Fault: a message sent again and refused as a duplicate is an error. *)
evtREQERR_TellsDuplicate(i, code) ==
    LET after == CASE messages[i].m = 11 -> 14 [] messages[i].m = 21 -> 23
                   [] messages[i].m = 31 -> 34 [] OTHER -> messages[i].m
    IN /\ messages' = [messages EXCEPT ![i].m = after]
       /\ told' = [told EXCEPT ![i] =
                     IF messages[i].m = 11 THEN Append(@, "error") ELSE @]

(* Codes 32 and 33, here "duplicate", are not told to the listener.        *)
evtREQERR(i, code) ==
    LET after == CASE messages[i].m = 11 -> 14 [] messages[i].m = 21 -> 23
                   [] messages[i].m = 31 -> 34 [] OTHER -> messages[i].m
    IN /\ messages' = [messages EXCEPT ![i].m = after]
       /\ told' = [told EXCEPT ![i] =
                     IF messages[i].m = 11 /\ code # "duplicate" THEN Append(@, "error") ELSE @]

(* The reply is to the last request for this message: replies to earlier   *)
(* ones went with their channel.                                           *)
Reply ==
    \E reply \in replies :
        /\ replies' = replies \ {reply}
        /\ IF reply.code = "ok" THEN evtREQOK(reply.call) ELSE evtREQERR(reply.call, reply.code)
        /\ UNCHANGED <<nextCall, sequenceMap, session, channel, flight, ctrl, late>>
        /\ UNCHANGED <<stream, server, losses>>

(* Fault: an outcome is believed to follow the reply. *)
isConcerned_Acknowledged(msg, result) ==
    /\ msg.m = 12
    /\ sequence(msg.kind) = result.sequence
    /\ msg.prog \in (result.prog - result.count + 1)..result.prog

(* The messages that an outcome is about: one, or with code 39 as many as  *)
(* it says, up to prog.                                                    *)
isConcerned(msg, result) ==
    /\ msg.m \in {11, 12}
    /\ sequence(msg.kind) = result.sequence
    /\ msg.prog \in (result.prog - result.count + 1)..result.prog

(* doMSGDONE and doMSGFAIL.                                                *)
Outcome ==
    /\ session = "on" /\ stream # <<>>
    /\ stream' = Tail(stream)
    /\ LET result == Head(stream)
           after == IF result.event = "processed" THEN 13 ELSE 14
       IN /\ messages' = [i \in Calls |->
                IF isConcerned(messages[i], result) THEN [messages[i] EXCEPT !.m = after]
                ELSE messages[i]]
          /\ told' = [i \in Calls |->
                IF isConcerned(messages[i], result) THEN Append(told[i], result.event)
                ELSE told[i]]
    /\ UNCHANGED <<nextCall, sequenceMap, session, channel, network, late, server, losses>>

-----------------------------------------------------------------------------
(* The session and its channels. *)

Connect ==
    /\ session \in {"disconnected", "retry"}
    /\ session' = "creating"
    /\ UNCHANGED <<client, channel, network, late, stream, server, losses>>

(* Over a WebSocket messages can go at once, over HTTP not before the      *)
(* session is bound.                                                       *)
StartSession ==
    /\ session = "creating"
    /\ session' = "on"
    /\ \/ channel' = "ws" /\ evtSendPendingMessages
       \/ channel' = "none" /\ UNCHANGED <<messages, flight>>
    /\ UNCHANGED <<nextCall, sequenceMap, told, ctrl, late, replies, stream, server, losses>>

Bind ==
    /\ session = "on" /\ channel = "none"
    /\ \/ channel' = "ws" /\ evtSendPendingMessages /\ UNCHANGED ctrl
       \/ channel' = "http" /\ sendPendingMessagesHTTP(messages) /\ UNCHANGED messages
    /\ UNCHANGED <<nextCall, sequenceMap, told, session, late, replies, stream, server, losses>>

(* What was on the channel is lost, or arrives late.                       *)
LeaveChannel ==
    /\ losses < MaxLosses /\ losses' = losses + 1
    /\ flight' = <<>> /\ replies' = {}
    /\ late' \in {flight, late}

LoseChannel ==
    /\ channel \in {"ws", "http"}
    /\ channel' = "none" /\ ctrl' = "idle"
    /\ LeaveChannel
    /\ UNCHANGED <<client, session, stream, server>>

CtrlDone ==
    /\ channel = "http" /\ ctrl = "busy" /\ flight = <<>> /\ replies = {}
    /\ sendPendingMessagesHTTP(messages)
    /\ UNCHANGED <<client, session, channel, late, replies, stream, server, losses>>

(* evtCtrlError, and evtCtrlTimeout in s1102: pause and then try again.    *)
CtrlError ==
    /\ channel = "http" /\ ctrl = "busy"
    /\ ctrl' = "pause"
    /\ LeaveChannel
    /\ UNCHANGED <<client, session, channel, stream, server>>

CtrlTimeout ==
    /\ channel = "http" /\ ctrl = "pause"
    /\ sendPendingMessagesHTTP(messages)
    /\ UNCHANGED <<client, session, channel, late, replies, stream, server, losses>>

(* Requests of someone else take the HTTP channel, and go first.           *)
OtherRequest ==
    /\ channel = "http" /\ ctrl = "idle"
    /\ ctrl' = "busy"
    /\ UNCHANGED <<client, session, channel, flight, late, replies, stream, server, losses>>

evtAbort(msg) ==
    CASE msg.m \in {11, 12} -> 15 [] msg.m = 21 -> 24
      [] msg.m = 31 -> 35 [] OTHER -> msg.m

resetSequenceMap == sequenceMap' = [s \in SequenceNames |-> 1]

(* fireOnAbort says sentOnNetwork = false in any case.                     *)
genAbortMessages ==
    /\ messages' = [i \in Calls |-> [messages[i] EXCEPT !.m = evtAbort(messages[i])]]
    /\ told' = [i \in Calls |->
          IF messages[i].m \in {11, 12}
            THEN Append(told[i], "abort") ELSE told[i]]

(* evtRetry (to s23) and evtTerminate (to s20).  evtExtDisconnect does     *)
(* nothing to a client that is disconnected, evtRetry to one that is       *)
(* waiting to try again.                                                   *)
EndSession ==
    /\ \/ session \in {"creating", "on"} /\ session' \in {"retry", "disconnected"}
       \/ session = "retry" /\ session' = "disconnected"
    /\ resetSequenceMap
    /\ genAbortMessages
    /\ channel' = "none" /\ ctrl' = "idle" /\ flight' = <<>> /\ late' = <<>>
    /\ replies' = {} /\ stream' = <<>> /\ accepted' = {}
    /\ lastProg' = [s \in SequenceNames |-> 0] /\ losses' = 0
    /\ UNCHANGED <<nextCall, arrived, outcome>>

-----------------------------------------------------------------------------
(* The server. *)

isOrdered(i) == sequence(messages[i].kind) = "seq"

isDuplicate(i) ==
    /\ ~isFireAndForget(messages[i].kind)
    /\ messages[i].prog <= lastProg[sequence(messages[i].kind)]

Receives(i, code) ==
    /\ code = "duplicate" <=> isDuplicate(i)
    /\ IF isDuplicate(i)
         THEN UNCHANGED server
         ELSE /\ arrived' = Append(arrived, i)
              /\ accepted' = IF code = "ok" THEN accepted \cup {i} ELSE accepted
              /\ outcome' = [outcome EXCEPT ![i] = IF code = "ok" THEN "none" ELSE "refused"]
              /\ lastProg' =
                    IF isFireAndForget(messages[i].kind) THEN lastProg
                    ELSE [lastProg EXCEPT ![sequence(messages[i].kind)] = messages[i].prog]

(* Over the WebSocket fire-and-forget messages are sent with LS_ack=false. *)
ServerReceives ==
    /\ flight # <<>>
    /\ LET i == Head(flight)
       IN \E code \in {"ok", "duplicate", "refused"} :
            /\ Receives(i, code)
            /\ flight' = Tail(flight)
            /\ replies' = IF channel = "ws" /\ isFireAndForget(messages[i].kind) THEN replies
                          ELSE replies \cup {[call |-> i, code |-> code]}
    /\ UNCHANGED <<client, session, channel, ctrl, late, stream, losses>>

ServerReceivesLate ==
    /\ late # <<>>
    /\ late' = Tail(late)
    /\ \E code \in {"ok", "duplicate", "refused"} : Receives(Head(late), code)
    /\ UNCHANGED <<client, session, channel, network, stream, losses>>

(* The messages of a sequence are processed in order, the others in any.   *)
isNext(i) ==
    \A j \in accepted : isOrdered(i) /\ isOrdered(j) => i <= j

(* One notification for all the messages of a sequence from i to j, if a   *)
(* listener waits for it.                                                  *)
Notify(i, j, event) ==
    stream' = IF hasListener(messages[i].kind) \/ hasListener(messages[j].kind)
                THEN Append(stream,
                       [sequence |-> sequence(messages[j].kind), prog |-> messages[j].prog,
                        count |-> messages[j].prog - messages[i].prog + 1, event |-> event])
                ELSE stream

ServerProcesses ==
    /\ \E i \in accepted, event \in {"processed", "denied", "error", "discarded"} :
          /\ isNext(i)
          /\ accepted' = accepted \ {i}
          /\ outcome' = [outcome EXCEPT ![i] = event]
          /\ Notify(i, i, event)
    /\ UNCHANGED <<client, session, channel, network, late, arrived, lastProg, losses>>

(* The next two of the sequence are discarded together.                    *)
ServerDiscards ==
    /\ \E i, j \in accepted :
          /\ isOrdered(i) /\ isOrdered(j)
          /\ isNext(i) /\ messages[j].prog = messages[i].prog + 1
          /\ accepted' = accepted \ {i, j}
          /\ outcome' = [k \in Calls |-> IF k \in {i, j} THEN "discarded" ELSE outcome[k]]
          /\ Notify(i, j, "discarded")
    /\ UNCHANGED <<client, session, channel, network, late, arrived, lastProg, losses>>

-----------------------------------------------------------------------------
Next ==
    \/ sendMessage \/ Reply \/ Outcome
    \/ Connect \/ StartSession \/ Bind \/ LoseChannel \/ EndSession
    \/ CtrlDone \/ CtrlError \/ CtrlTimeout \/ OtherRequest
    \/ ServerReceives \/ ServerReceivesLate \/ ServerProcesses \/ ServerDiscards

Spec == Init /\ [][Next]_vars

(* The network carries what is sent, the server answers and processes, the *)
(* client binds and tries again after a pause.  Nothing forces a late      *)
(* request to arrive, a loss, the application to call or the session to    *)
(* end.                                                                    *)
Fairness ==
    /\ WF_vars(Outcome) /\ WF_vars(Reply) /\ WF_vars(ServerReceives)
    /\ WF_vars(ServerProcesses)
    /\ WF_vars(Bind) /\ WF_vars(CtrlDone) /\ WF_vars(CtrlTimeout)

FairSpec == Spec /\ Fairness

-----------------------------------------------------------------------------
Outcomes == {"none", "processed", "denied", "error", "discarded", "refused"}

TypeOK ==
    /\ messages \in [Calls -> [kind : Kinds \cup {"fire_and_forget"},
                               prog : 0..MaxMessages, m : States]]
    /\ nextCall \in 0..MaxMessages
    /\ sequenceMap \in [SequenceNames -> 1..(MaxMessages + 1)]
    /\ told \in [Calls -> Seq(Events)]
    /\ session \in {"disconnected", "creating", "on", "retry"}
    /\ channel \in {"none", "ws", "http"} /\ ctrl \in {"idle", "busy", "pause"}
    /\ flight \in Seq(Calls) /\ late \in Seq(Calls)
    /\ replies \subseteq [call : Calls, code : {"ok", "duplicate", "refused"}]
    /\ stream \in Seq([sequence : SequenceNames, event : Events, prog : Nat, count : {1, 2}])
    /\ arrived \in Seq(Calls) /\ accepted \subseteq Calls
    /\ outcome \in [Calls -> Outcomes]
    /\ lastProg \in [SequenceNames -> 0..MaxMessages]
    /\ losses \in 0..MaxLosses

HasArrived(i) == Carries(arrived, i)
Aborted(i) == messages[i].m \in {15, 24}

(* The messages of a sequence reach the server at most once and in the     *)
(* order of the calls of sendMessage, whatever was sent again, and none    *)
(* overtakes an earlier one that the client has not given up.  A message   *)
(* with a prog never arrives twice, in a sequence or not.                  *)
InOrder ==
    /\ \A k, n \in DOMAIN arrived : k < n =>
          /\ isOrdered(arrived[k]) /\ isOrdered(arrived[n]) => arrived[k] < arrived[n]
          /\ ~isFireAndForget(messages[arrived[k]].kind) => arrived[k] # arrived[n]
    /\ \A i, j \in Calls :
          (i < j /\ isOrdered(i) /\ isOrdered(j) /\ HasArrived(j))
              => HasArrived(i) \/ Aborted(i)

(* What the client stops sending, because it was acknowledged or refused   *)
(* even as a duplicate, did reach the server.                              *)
NotLost ==
    \A i \in Calls : messages[i].m \in {12, 13, 14, 22, 23, 33, 34} => HasArrived(i)

(* A listener is told one thing at most, and it is what the server made of *)
(* that very message: the outcome of another, with the same prog in an     *)
(* earlier session, is never taken for it.                                 *)
OutcomeIsTrue ==
    \A i \in Calls :
        /\ Len(told[i]) <= 1
        /\ told[i] \in {<<"processed">>, <<"denied">>, <<"discarded">>}
              => told[i] = <<outcome[i]>>
        /\ told[i] = <<"error">> => outcome[i] \in {"error", "refused"}

(* sendPendingMessagesWS and sendPendingMessagesHTTP state it: the         *)
(* messages of a sequence that the client keeps are numbered in the order  *)
(* they are kept in, and no two of any sequence have the same number.      *)
NumbersAscend ==
    \A i, j \in Calls :
        /\ i < j /\ Exists(messages[i]) /\ Exists(messages[j])
        /\ sequence(messages[i].kind) = sequence(messages[j].kind)
        /\ ~isFireAndForget(messages[i].kind) /\ ~isFireAndForget(messages[j].kind)
        => messages[i].prog < messages[j].prog

(* No message waits while a channel could take it: over a WebSocket it, or *)
(* the reply to it, is on its way, and an idle HTTP channel has nothing to *)
(* send.                                                                   *)
MessagesUnderWay ==
    /\ channel = "http" /\ ctrl = "idle" => PendingMessages(messages) = {}
    /\ channel = "ws" => \A i \in Calls : isPending(messages[i]) =>
          \/ Carries(flight, i)
          \/ \E reply \in replies : reply.call = i

(* While the session lasts every message is taken by the server in the     *)
(* end: what could not be sent, or was lost on the way, is sent again.     *)
MessagesAreTaken ==
    \A i \in Calls : (isPending(messages[i]) /\ session = "on")
                         ~> (~isPending(messages[i]) \/ session # "on")

(* Messages reach the server in order and once, none that the client stops *)
(* sending is missing there, and none that it keeps is waiting for nothing. *)
ArriveInOrder == TypeOK /\ InOrder /\ NotLost /\ NumbersAscend /\ MessagesUnderWay

(* While the session lasts a message that was acknowledged gets its        *)
(* outcome, even when the outcome and other acknowledgements cross.        *)
OutcomeIsTold ==
    \A i \in Calls : (messages[i].m = 12 /\ session = "on")
                         ~> (messages[i].m # 12 \/ session # "on")
=============================================================================
