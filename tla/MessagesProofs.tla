--------------------------- MODULE MessagesProofs ---------------------------
(***************************************************************************)
(* Proofs about the messages of the application (Messages), for any number *)
(* of messages of any kinds and any number of lost channels.               *)
(*                                                                         *)
(* Numbers decide: the server takes a message when its number passes the   *)
(* last one of its sequence.  So of the messages that are current, those   *)
(* that the client keeps or that something may still carry to the server,  *)
(* the ones that arrived must be those whose number was passed             *)
(* (NumbersAgree), and no connection, the current one or one that the      *)
(* client has left, may carry a message and not an earlier one that has    *)
(* not arrived (NoGaps).                                                   *)
(***************************************************************************)
EXTENDS Messages, TLAPS

(* The messages that have a number, and those numbered together.           *)
Numbered(i) == ~isFireAndForget(messages[i].kind)
SameSequence(i, j) == sequence(messages[i].kind) = sequence(messages[j].kind)

(* What the client keeps, or may still reach or occupy the server.         *)
Current(i) ==
    Exists(messages[i]) \/ Carries(flight, i) \/ Carries(late, i) \/ i \in accepted

(* The state of a message fits its kind, and what its listener was told.   *)
WellFormed(i) ==
    /\ messages[i].m = 1 <=> i > nextCall
    /\ i > nextCall => messages[i].kind = "fire_and_forget"
    /\ messages[i].m \in {11, 12, 13, 14} => hasListener(messages[i].kind)
    /\ messages[i].m \in {21, 22, 23, 24} => Numbered(i)
    /\ messages[i].m \in {31, 32, 33, 34, 35} => ~Numbered(i)
    /\ told[i] # <<>> => messages[i].m \in {13, 14, 15}

(* Among current messages those that arrived are those whose number was    *)
(* passed, and the numbers follow the calls of sendMessage.                *)
NumbersAgree(i) ==
    (Current(i) /\ Numbered(i)) =>
        /\ messages[i].prog < sequenceMap[sequence(messages[i].kind)]
        /\ messages[i].prog <= lastProg[sequence(messages[i].kind)] <=> HasArrived(i)
        /\ \A j \in Calls : i < j /\ Current(j) /\ Numbered(j) /\ SameSequence(i, j)
              => messages[i].prog < messages[j].prog

(* Where a message can be.                                                 *)
Places(i) ==
    /\ Current(i) => messages[i].m \notin {1, 15, 24, 35}
    /\ HasArrived(i) => i <= nextCall
    /\ i \in accepted => HasArrived(i) /\ told[i] = <<>>

MessagesAgree == \A i \in Calls : WellFormed(i) /\ NumbersAgree(i) /\ Places(i)

(* Before each message, a connection carries the earlier ones of its       *)
(* sequence that are pending, unless they arrived.                         *)
NoGaps(seq) ==
    \A p \in DOMAIN seq, j \in Calls :
        j < seq[p] /\ isPending(messages[j]) /\ Numbered(j) /\ Numbered(seq[p])
            /\ SameSequence(j, seq[p])
        => HasArrived(j) \/ \E q \in 1..(p - 1) : seq[q] = j

(* A reply is to a message that arrived; what it refuses was not accepted. *)
RepliesAgree ==
    \A reply \in replies :
        /\ HasArrived(reply.call)
        /\ reply.code = "refused" /\ messages[reply.call].m = 11 =>
              outcome[reply.call] = "refused" /\ reply.call \notin accepted

(* A notification says what was made of every message it concerns.         *)
StreamAgrees ==
    \A p \in DOMAIN stream :
        /\ stream[p].event # "abort"
        /\ stream[p].prog <= lastProg[stream[p].sequence]
        /\ \A i \in Calls : isConcerned(messages[i], stream[p]) =>
              outcome[i] = stream[p].event /\ i \notin accepted

(* A WebSocket keeps no message that wants no answer; numbers that were    *)
(* not given have not been seen.                                           *)
CountersAgree ==
    /\ channel = "ws" => \A i \in Calls : messages[i].m # 31
    /\ \A s \in SequenceNames :
          lastProg[s] < sequenceMap[s] /\ sequenceMap[s] <= nextCall + 1

IInv ==
    /\ TypeOK
    /\ InOrder /\ NotLost /\ OutcomeIsTrue
    /\ MessagesAgree /\ NoGaps(flight) /\ NoGaps(late)
    /\ RepliesAgree /\ StreamAgrees
    /\ MessagesUnderWay /\ CountersAgree

-----------------------------------------------------------------------------
(* Facts about the sequences of calls. *)

LEMMA AppendCarries ==
    ASSUME NEW seq \in Seq(Calls), NEW i \in Calls
    PROVE  /\ Append(seq, i) \in Seq(Calls)
           /\ \A j \in Calls : Carries(Append(seq, i), j) <=> Carries(seq, j) \/ j = i
<1>1. /\ Append(seq, i) \in Seq(Calls)
      /\ Len(Append(seq, i)) = Len(seq) + 1
      /\ Append(seq, i)[Len(seq) + 1] = i
      /\ \A k \in 1..Len(seq) : Append(seq, i)[k] = seq[k]
  OBVIOUS
<1>2. /\ DOMAIN seq = 1..Len(seq) /\ Len(seq) \in Nat
      /\ DOMAIN Append(seq, i) = 1..(Len(seq) + 1)
  BY <1>1
<1>3. ASSUME NEW j \in Calls
      PROVE  Carries(Append(seq, i), j) <=> Carries(seq, j) \/ j = i
  BY <1>1, <1>2 DEF Carries
<1> QED
  BY <1>1, <1>3

LEMMA TailCarries ==
    ASSUME NEW seq \in Seq(Calls), seq # <<>>
    PROVE  /\ Tail(seq) \in Seq(Calls) /\ Head(seq) \in Calls
           /\ \A j : Carries(seq, j) <=> j = Head(seq) \/ Carries(Tail(seq), j)
           /\ Len(Tail(seq)) = Len(seq) - 1 /\ seq[1] = Head(seq)
           /\ \A p \in 1..Len(Tail(seq)) : Tail(seq)[p] = seq[p + 1]
<1>1. /\ Tail(seq) \in Seq(Calls) /\ Head(seq) \in Calls
      /\ Len(seq) \in Nat \ {0} /\ Len(Tail(seq)) = Len(seq) - 1
      /\ DOMAIN seq = 1..Len(seq) /\ DOMAIN Tail(seq) = 1..(Len(seq) - 1)
      /\ seq[1] = Head(seq)
  OBVIOUS
<1>2. \A p \in 1..(Len(seq) - 1) : Tail(seq)[p] = seq[p + 1]
  BY <1>1
<1>3. ASSUME NEW j
      PROVE  Carries(seq, j) <=> j = Head(seq) \/ Carries(Tail(seq), j)
  <2>1. ASSUME NEW k \in 1..Len(seq), seq[k] = j
        PROVE  j = Head(seq) \/ Carries(Tail(seq), j)
    <3>1. CASE k = 1
      BY <1>1, <2>1, <3>1
    <3>2. CASE k # 1
      <4>1. k - 1 \in 1..(Len(seq) - 1) /\ Tail(seq)[k - 1] = j
        BY <1>1, <1>2, <2>1, <3>2
      <4> QED
        BY <1>1, <4>1 DEF Carries
    <3> QED
      BY <3>1, <3>2
  <2>2. ASSUME NEW k \in 1..(Len(seq) - 1), Tail(seq)[k] = j
        PROVE  Carries(seq, j)
    <3>1. k + 1 \in 1..Len(seq) /\ seq[k + 1] = j
      BY <1>1, <1>2, <2>2
    <3> QED
      BY <1>1, <3>1 DEF Carries
  <2>3. Carries(seq, Head(seq))
    BY <1>1 DEF Carries
  <2> QED
    BY <1>1, <2>1, <2>2, <2>3 DEF Carries
<1> QED
  BY <1>1, <1>2, <1>3

(* A batch carries pending messages only, and before each of them the      *)
(* earlier ones that are pending.                                          *)
LEMMA BatchIsInOrder ==
    ASSUME NEW msgs, NEW batch \in Batches(msgs)
    PROVE  /\ batch \in Seq(Calls)
           /\ \A i : Carries(batch, i) => i \in Calls /\ isPending(msgs[i])
           /\ \A p \in DOMAIN batch, j \in Calls :
                  j < batch[p] /\ isPending(msgs[j]) => \E q \in 1..(p - 1) : batch[q] = j
<1>1. PICK n \in 0..MaxMessages : batch \in [1..n -> PendingMessages(msgs)]
  BY DEF Batches
<1>2. PendingMessages(msgs) \subseteq Calls /\ n \in Nat
  BY <1>1, MessageBounds DEF PendingMessages
<1>3. batch \in [1..n -> Calls]
  BY <1>1, <1>2
<1>4. batch \in Seq(Calls)
  BY <1>2, <1>3
<1>5. ASSUME NEW i, Carries(batch, i)
      PROVE  i \in Calls /\ isPending(msgs[i])
  BY <1>1, <1>5 DEF Carries, PendingMessages
<1>6. ASSUME NEW p \in DOMAIN batch, NEW j \in Calls, j < batch[p], isPending(msgs[j])
      PROVE  \E q \in 1..(p - 1) : batch[q] = j
  BY <1>6 DEF Batches, PendingMessages
<1> QED
  BY <1>4, <1>5, <1>6

LEMMA EmptyCarries ==
    /\ <<>> \in Seq(Calls)
    /\ \A i : ~Carries(<<>>, i)
    /\ NoGaps(<<>>)
  BY DEF Carries, NoGaps

(* What a message that is sent adds to the channel, whatever its kind.     *)
LEMMA BatchesSent ==
    ASSUME NEW msgs, NEW carried,
           \/ carried = <<>>
           \/ carried \in Batches(msgs)
    PROVE  /\ carried \in Seq(Calls)
           /\ \A i : Carries(carried, i) => i \in Calls /\ isPending(msgs[i])
  BY BatchIsInOrder, EmptyCarries

-----------------------------------------------------------------------------
(* Types. *)

LEMMA HeadAndTail ==
    ASSUME NEW S, NEW seq \in Seq(S), seq # <<>>
    PROVE  /\ Head(seq) \in S /\ Tail(seq) \in Seq(S)
           /\ Head(seq) = seq[1] /\ 1 \in DOMAIN seq
           /\ \A p \in DOMAIN Tail(seq) : p + 1 \in DOMAIN seq /\ Tail(seq)[p] = seq[p + 1]
<1>1. /\ Len(seq) \in Nat \ {0} /\ DOMAIN seq = 1..Len(seq)
      /\ Head(seq) = seq[1] /\ Tail(seq) \in Seq(S) /\ DOMAIN Tail(seq) = 1..(Len(seq) - 1)
  OBVIOUS
<1>2. \A p \in 1..(Len(seq) - 1) : Tail(seq)[p] = seq[p + 1]
  OBVIOUS
<1> QED
  BY <1>1, <1>2

LEMMA Elements ==
    ASSUME NEW S, NEW seq \in Seq(S)
    PROVE  \A p \in DOMAIN seq : seq[p] \in S
  OBVIOUS

(* What TypeOK says of a message, and a change of its state.               *)
Message == [kind : Kinds \cup {"fire_and_forget"}, prog : 0..MaxMessages, m : States]

LEMMA Moved ==
    ASSUME NEW msg \in Message, NEW after
    PROVE  /\ [msg EXCEPT !.m = after].kind = msg.kind
           /\ [msg EXCEPT !.m = after].prog = msg.prog
           /\ [msg EXCEPT !.m = after].m = after
  BY DEF Message

(* What the types say of the parts.                                        *)
LEMMA Types ==
    ASSUME TypeOK
    PROVE  /\ flight \in Seq(Calls) /\ late \in Seq(Calls) /\ arrived \in Seq(Calls)
           /\ \A i \in Calls :
                 /\ i \in Nat /\ messages[i].prog \in Nat /\ messages[i].m \in States
                 /\ sequence(messages[i].kind) \in SequenceNames
                 /\ told[i] \in Seq(Events)
           /\ \A s \in SequenceNames : lastProg[s] \in Nat /\ sequenceMap[s] \in Nat
           /\ \A p \in DOMAIN stream :
                 /\ stream[p].sequence \in SequenceNames /\ stream[p].event \in Events
                 /\ stream[p].prog \in Nat /\ stream[p].count \in {1, 2}
           /\ \A reply \in replies : reply.call \in Calls
           /\ nextCall \in Nat
           /\ messages \in [Calls -> Message]
<1>0. nextCall \in Nat /\ \A i \in Calls : i \in Nat
  BY MessageBounds DEF TypeOK, Calls
<1>1. \A i \in Calls :
        /\ messages[i].prog \in Nat /\ messages[i].m \in States
        /\ sequence(messages[i].kind) \in SequenceNames
        /\ told[i] \in Seq(Events)
  BY MessageBounds DEF TypeOK, sequence, SequenceNames
<1>2. \A s \in SequenceNames : lastProg[s] \in Nat /\ sequenceMap[s] \in Nat
  BY MessageBounds DEF TypeOK
<1>3. PICK Results : /\ Results = [sequence : SequenceNames, event : Events, prog : Nat, count : {1, 2}]
                     /\ stream \in Seq(Results)
  BY DEF TypeOK
<1>4. \A p \in DOMAIN stream : stream[p] \in Results
  BY <1>3, Elements
<1> QED
  BY <1>0, <1>1, <1>2, <1>3, <1>4 DEF TypeOK, Message

LEMMA StateFacts ==
    ASSUME NEW msg \in [kind : Kinds \cup {"fire_and_forget"}, prog : 0..MaxMessages, m : States]
    PROVE  /\ evtWSSent(msg) \in [kind : Kinds \cup {"fire_and_forget"}, prog : 0..MaxMessages, m : States]
           /\ evtWSSent(msg).kind = msg.kind /\ evtWSSent(msg).prog = msg.prog
           /\ evtWSSent(msg).m = IF msg.m = 31 THEN 32 ELSE msg.m
           /\ evtAbort(msg) \in States
           /\ sequence(msg.kind) \in SequenceNames
  BY DEF evtWSSent, evtAbort, States, sequence, SequenceNames

LEMMA TypePreserved ==
    ASSUME TypeOK, CountersAgree, Next
    PROVE  TypeOK'
<1> DEFINE Msg == [kind : Kinds \cup {"fire_and_forget"}, prog : 0..MaxMessages, m : States]
<1>0. /\ messages \in [Calls -> Msg]
      /\ MaxMessages \in Nat /\ MaxLosses \in Nat
      /\ nextCall \in 0..MaxMessages
  BY MessageBounds DEF TypeOK
<1>1. CASE sendMessage
  <2>0. /\ nextCall' = nextCall + 1 /\ nextCall' \in Calls /\ nextCall' \in 0..MaxMessages
        /\ UNCHANGED <<session, channel, late, replies, stream, server, losses>>
    BY <1>0, <1>1 DEF sendMessage, Calls
  <2>1. PICK kind \in Kinds, enqueueWhileDisconnected \in BOOLEAN :
          \/ /\ ~enqueueWhileDisconnected /\ session \in {"disconnected", "retry"}
             /\ messages' = [messages EXCEPT ![nextCall'] = [kind |-> kind, prog |-> 0, m |-> 15]]
             /\ told' = [told EXCEPT ![nextCall'] =
                   IF hasListener(kind) THEN Append(@, "abort") ELSE @]
             /\ UNCHANGED <<sequenceMap, flight, ctrl>>
          \/ /\ enqueueWhileDisconnected \/ session \in {"creating", "on"}
             /\ sequenceMap' = getAndSetNextMsgProg(kind)
             /\ evtSendMessage(nextCall', NewMessage(kind))
             /\ UNCHANGED told
    BY <1>1 DEF sendMessage
  <2>2. CASE ~enqueueWhileDisconnected /\ session \in {"disconnected", "retry"}
             /\ messages' = [messages EXCEPT ![nextCall'] = [kind |-> kind, prog |-> 0, m |-> 15]]
             /\ told' = [told EXCEPT ![nextCall'] =
                   IF hasListener(kind) THEN Append(@, "abort") ELSE @]
             /\ UNCHANGED <<sequenceMap, flight, ctrl>>
    <3>1. [kind |-> kind, prog |-> 0, m |-> 15] \in Msg
      BY <1>0 DEF States
    <3>2. Append(told[nextCall'], "abort") \in Seq(Events)
      BY <2>0 DEF TypeOK, Events
    <3> QED
      BY <1>0, <1>1, <2>0, <2>2, <3>1, <3>2 DEF TypeOK, sendMessage, server
  <2>3. CASE /\ enqueueWhileDisconnected \/ session \in {"creating", "on"}
             /\ sequenceMap' = getAndSetNextMsgProg(kind)
             /\ evtSendMessage(nextCall', NewMessage(kind))
             /\ UNCHANGED told
    <3>0. sequence(kind) \in SequenceNames
      BY DEF sequence, SequenceNames
    <3>1. sequenceMap' \in [SequenceNames -> 1..(MaxMessages + 1)]
      <4>1. sequenceMap[sequence(kind)] + 1 \in 1..(MaxMessages + 1)
        BY <1>0, <1>1, <3>0 DEF TypeOK, CountersAgree, sendMessage
      <4>2. sequenceMap' \in {sequenceMap, [sequenceMap EXCEPT ![sequence(kind)] = @ + 1]}
        BY <2>3 DEF getAndSetNextMsgProg
      <4> QED
        BY <3>0, <4>1, <4>2 DEF TypeOK
    <3>2. NewMessage(kind) \in Msg
      BY <1>0, <1>1, <3>0 DEF TypeOK, CountersAgree, sendMessage, NewMessage, States
    <3>3. evtWSSent(NewMessage(kind)) \in Msg
      BY <3>2, StateFacts
    <3>4. PICK added : added = [messages EXCEPT ![nextCall'] = NewMessage(kind)]
      OBVIOUS
    <3>5. added \in [Calls -> Msg]
      BY <1>0, <2>0, <3>2, <3>4
    <3>6. messages' \in [Calls -> Msg]
      BY <2>0, <2>3, <3>3, <3>4, <3>5 DEF evtSendMessage
    <3>7. flight' \in Seq(Calls) /\ ctrl' \in {"idle", "busy", "pause"}
      <4>1. CASE channel = "ws" /\ flight' = Append(flight, nextCall') /\ UNCHANGED ctrl
        BY <2>0, <4>1 DEF TypeOK
      <4>2. CASE sendPendingMessagesHTTP(added)
        BY <4>2, BatchesSent DEF sendPendingMessagesHTTP
      <4>3. CASE UNCHANGED <<flight, ctrl>>
        BY <4>3 DEF TypeOK
      <4> QED
        BY <2>3, <3>4, <4>1, <4>2, <4>3 DEF evtSendMessage
    <3> QED
      BY <2>0, <2>3, <3>1, <3>6, <3>7 DEF TypeOK, server
  <2> QED
    BY <2>1, <2>2, <2>3
<1>2. CASE Reply
  <2>1. PICK reply \in replies :
          /\ replies' = replies \ {reply}
          /\ IF reply.code = "ok" THEN evtREQOK(reply.call) ELSE evtREQERR(reply.call, reply.code)
    BY <1>2 DEF Reply
  <2>2. reply.call \in Calls /\ replies' \subseteq [call : Calls, code : {"ok", "duplicate", "refused"}]
    BY <2>1 DEF TypeOK
  <2>3. PICK after \in States : messages' = [messages EXCEPT ![reply.call].m = after]
    <3>1. CASE reply.code = "ok"
      <4>1. PICK after :
              after = CASE messages[reply.call].m = 11 -> 12 [] messages[reply.call].m = 21 -> 22
                        [] messages[reply.call].m = 31 -> 33 [] OTHER -> messages[reply.call].m
        OBVIOUS
      <4>2. messages' = [messages EXCEPT ![reply.call].m = after]
        BY <2>1, <3>1, <4>1 DEF evtREQOK
      <4>3. after \in States
        BY <1>0, <2>2, <4>1 DEF States
      <4> QED
        BY <4>2, <4>3
    <3>2. CASE reply.code # "ok"
      <4>1. PICK after :
              after = CASE messages[reply.call].m = 11 -> 14 [] messages[reply.call].m = 21 -> 23
                        [] messages[reply.call].m = 31 -> 34 [] OTHER -> messages[reply.call].m
        OBVIOUS
      <4>2. messages' = [messages EXCEPT ![reply.call].m = after]
        BY <2>1, <3>2, <4>1 DEF evtREQERR
      <4>3. after \in States
        BY <1>0, <2>2, <4>1 DEF States
      <4> QED
        BY <4>2, <4>3
    <3> QED
      BY <3>1, <3>2
  <2>4. messages' \in [Calls -> Msg]
    BY <1>0, <2>2, <2>3
  <2>5. Append(told[reply.call], "error") \in Seq(Events)
    BY <2>2 DEF TypeOK, Events
  <2>6. told' \in [Calls -> Seq(Events)]
    BY <2>1, <2>2, <2>5 DEF TypeOK, evtREQOK, evtREQERR
  <2> QED
    BY <1>2, <2>2, <2>4, <2>6 DEF TypeOK, Reply, server
<1>3. CASE Outcome
  <2>1. PICK Results :
          /\ Results = [sequence : SequenceNames, event : Events, prog : Nat, count : {1, 2}]
          /\ stream \in Seq(Results) /\ stream # <<>>
    BY <1>3 DEF Outcome, TypeOK
  <2>2a. Head(stream) \in Results /\ Tail(stream) \in Seq(Results)
    BY <2>1, HeadAndTail
  <2>2. /\ Head(stream).event \in Events
        /\ Tail(stream) \in Seq([sequence : SequenceNames, event : Events, prog : Nat, count : {1, 2}])
    BY <2>1, <2>2a
  <2>3. ASSUME NEW i \in Calls
        PROVE  messages'[i] \in Msg /\ told'[i] \in Seq(Events)
    <3>1. told[i] \in Seq(Events) /\ messages[i] \in Msg
      BY DEF TypeOK
    <3>2. Append(told[i], Head(stream).event) \in Seq(Events)
      BY <2>2, <3>1
    <3>3. messages'[i] \in {messages[i], [messages[i] EXCEPT !.m = 13], [messages[i] EXCEPT !.m = 14]}
      BY <1>3 DEF Outcome
    <3>4. told'[i] \in {told[i], Append(told[i], Head(stream).event)}
      BY <1>3 DEF Outcome
    <3> QED
      BY <3>1, <3>2, <3>3, <3>4 DEF States
  <2>4. messages' \in [Calls -> Msg] /\ told' \in [Calls -> Seq(Events)]
    BY <1>3, <2>3 DEF Outcome
  <2> QED
    BY <1>3, <2>2, <2>4 DEF TypeOK, Outcome, server, network
<1>4. CASE Connect
  BY <1>4 DEF TypeOK, Connect, client, network, server
<1>5. CASE StartSession \/ Bind
  <2>1. messages' \in [Calls -> Msg]
    <3>1. CASE UNCHANGED messages
      BY <1>0, <3>1
    <3>2. CASE evtSendPendingMessages
      BY <1>0, <3>2, StateFacts DEF evtSendPendingMessages
    <3> QED
      BY <1>5, <3>1, <3>2 DEF StartSession, Bind
  <2>2. flight' \in Seq(Calls) /\ ctrl' \in {"idle", "busy", "pause"}
    <3>1. CASE UNCHANGED <<flight, ctrl>>
      BY <3>1 DEF TypeOK
    <3>2. CASE evtSendPendingMessages /\ UNCHANGED ctrl
      BY <3>2, BatchesSent DEF TypeOK, evtSendPendingMessages
    <3>3. CASE sendPendingMessagesHTTP(messages)
      BY <3>3, BatchesSent DEF sendPendingMessagesHTTP
    <3> QED
      BY <1>5, <3>1, <3>2, <3>3 DEF StartSession, Bind
  <2> QED
    BY <1>5, <2>1, <2>2 DEF TypeOK, StartSession, Bind, server
<1>6. CASE LoseChannel \/ CtrlError
  <2>1. losses' \in 0..MaxLosses /\ flight' = <<>> /\ replies' = {} /\ late' \in Seq(Calls)
    BY <1>0, <1>6 DEF TypeOK, LoseChannel, CtrlError, LeaveChannel
  <2> QED
    BY <1>6, <2>1, EmptyCarries DEF TypeOK, LoseChannel, CtrlError, client, server
<1>7. CASE EndSession
  <2>1. ASSUME NEW i \in Calls
        PROVE  messages'[i] \in Msg /\ told'[i] \in Seq(Events)
    <3>1. told[i] \in Seq(Events) /\ messages[i] \in Msg
      BY DEF TypeOK
    <3>2. Append(told[i], "abort") \in Seq(Events)
      BY <3>1 DEF Events
    <3>3. evtAbort(messages[i]) \in States
      BY <3>1, StateFacts
    <3> QED
      BY <1>7, <3>1, <3>2, <3>3 DEF EndSession, genAbortMessages
  <2>2. messages' \in [Calls -> Msg] /\ told' \in [Calls -> Seq(Events)]
    BY <1>7, <2>1 DEF EndSession, genAbortMessages
  <2>3. /\ session' \in {"disconnected", "creating", "on", "retry"}
        /\ sequenceMap' \in [SequenceNames -> 1..(MaxMessages + 1)]
        /\ lastProg' \in [SequenceNames -> 0..MaxMessages]
        /\ losses' \in 0..MaxLosses /\ accepted' \subseteq Calls
    BY <1>0, <1>7 DEF EndSession, resetSequenceMap
  <2> QED
    BY <1>7, <2>2, <2>3 DEF TypeOK, EndSession
<1>8. CASE CtrlDone \/ CtrlTimeout
  <2>1. flight' \in Seq(Calls) /\ ctrl' \in {"idle", "busy", "pause"}
    BY <1>8, BatchesSent DEF CtrlDone, CtrlTimeout, sendPendingMessagesHTTP
  <2> QED
    BY <1>8, <2>1 DEF TypeOK, CtrlDone, CtrlTimeout, client, server
<1>9. CASE OtherRequest
  BY <1>9 DEF TypeOK, OtherRequest, client, server
<1>10. CASE ServerReceives \/ ServerReceivesLate
  <2>1. PICK i \in Calls, code \in {"ok", "duplicate", "refused"} :
          /\ Receives(i, code)
          /\ replies' \subseteq replies \cup {[call |-> i, code |-> code]}
          /\ flight' \in Seq(Calls) /\ late' \in Seq(Calls)
    <3>1. CASE ServerReceives
      <4>1. /\ Head(flight) \in Calls /\ Tail(flight) \in Seq(Calls) /\ late \in Seq(Calls)
        BY <3>1, TailCarries DEF ServerReceives, TypeOK
      <4> QED
        BY <3>1, <4>1 DEF ServerReceives
    <3>2. CASE ServerReceivesLate
      <4>1. /\ Head(late) \in Calls /\ Tail(late) \in Seq(Calls) /\ flight \in Seq(Calls)
        BY <3>2, TailCarries DEF ServerReceivesLate, TypeOK
      <4> QED
        BY <3>2, <4>1 DEF ServerReceivesLate, network
    <3> QED
      BY <1>10, <3>1, <3>2
  <2>2. /\ arrived' \in Seq(Calls) /\ accepted' \subseteq Calls
        /\ outcome' \in [Calls -> Outcomes]
        /\ lastProg' \in [SequenceNames -> 0..MaxMessages]
    <3>1. CASE isDuplicate(i)
      <4>1. UNCHANGED <<arrived, accepted, outcome, lastProg>>
        BY <2>1, <3>1 DEF Receives, server
      <4> QED
        BY <4>1 DEF TypeOK
    <3>2. CASE ~isDuplicate(i)
      <4>1. arrived' \in Seq(Calls)
        BY <2>1, <3>2, AppendCarries DEF Receives, TypeOK
      <4>2. sequence(messages[i].kind) \in SequenceNames /\ messages[i].prog \in 0..MaxMessages
        BY <1>0, StateFacts
      <4>3. lastProg' \in [SequenceNames -> 0..MaxMessages]
        BY <2>1, <3>2, <4>2 DEF Receives, TypeOK
      <4>4. accepted' \subseteq Calls /\ outcome' \in [Calls -> Outcomes]
        BY <2>1, <3>2 DEF Receives, TypeOK, Outcomes
      <4> QED
        BY <4>1, <4>3, <4>4
    <3> QED
      BY <3>1, <3>2
  <2>3. replies' \subseteq [call : Calls, code : {"ok", "duplicate", "refused"}]
    BY <2>1 DEF TypeOK
  <2> QED
    BY <1>10, <2>1, <2>2, <2>3 DEF TypeOK, ServerReceives, ServerReceivesLate, client, network
<1>11. CASE ServerProcesses \/ ServerDiscards
  <2>1. PICK i \in accepted, j \in accepted, event \in {"processed", "denied", "error", "discarded"} :
          /\ accepted' = accepted \ {i, j}
          /\ outcome' = [k \in Calls |-> IF k \in {i, j} THEN event ELSE outcome[k]]
          /\ Notify(i, j, event)
          /\ messages[j].prog - messages[i].prog + 1 \in {1, 2}
    <3>1. CASE ServerProcesses
      <4>1. PICK i \in accepted, event \in {"processed", "denied", "error", "discarded"} :
              /\ accepted' = accepted \ {i}
              /\ outcome' = [outcome EXCEPT ![i] = event]
              /\ Notify(i, i, event)
        BY <3>1 DEF ServerProcesses
      <4>2. i \in Calls /\ messages[i].prog \in Nat
        BY <1>0, <4>1 DEF TypeOK
      <4>3. accepted' = accepted \ {i, i} /\ outcome' = [k \in Calls |-> IF k \in {i, i} THEN event ELSE outcome[k]]
        BY <4>1, <4>2 DEF TypeOK
      <4>4. messages[i].prog - messages[i].prog + 1 = 1
        BY <4>2
      <4> QED
        BY <4>1, <4>3, <4>4
    <3>2. CASE ServerDiscards
      <4>1. PICK i \in accepted, j \in accepted :
              /\ messages[j].prog = messages[i].prog + 1
              /\ accepted' = accepted \ {i, j}
              /\ outcome' = [k \in Calls |-> IF k \in {i, j} THEN "discarded" ELSE outcome[k]]
              /\ Notify(i, j, "discarded")
        BY <3>2 DEF ServerDiscards
      <4>2. messages[i].prog \in Nat
        BY <1>0, <4>1 DEF TypeOK
      <4> QED
        BY <4>1, <4>2
    <3> QED
      BY <1>11, <3>1, <3>2
  <2>2. accepted' \subseteq Calls /\ outcome' \in [Calls -> Outcomes]
    BY <2>1 DEF TypeOK, Outcomes
  <2>3. stream' \in Seq([sequence : SequenceNames, event : Events, prog : Nat, count : {1, 2}])
    <3>1. /\ sequence(messages[j].kind) \in SequenceNames /\ event \in Events
          /\ messages[j].prog \in Nat
      <4>1. i \in Calls /\ j \in Calls
        BY <2>1 DEF TypeOK
      <4>2. messages[j] \in Msg
        BY <1>0, <4>1
      <4> QED
        BY <2>1, <4>2, StateFacts DEF Events
    <3>2. PICK result :
            result = [sequence |-> sequence(messages[j].kind), prog |-> messages[j].prog,
                      count |-> messages[j].prog - messages[i].prog + 1, event |-> event]
      OBVIOUS
    <3>3. PICK Results :
            Results = [sequence : SequenceNames, event : Events, prog : Nat, count : {1, 2}]
      OBVIOUS
    <3>4. stream' \in {stream, Append(stream, result)}
      BY <2>1, <3>2 DEF Notify
    <3>5. result \in Results /\ stream \in Seq(Results)
      BY <2>1, <3>1, <3>2, <3>3 DEF TypeOK
    <3>6. stream' \in Seq(Results)
      BY <3>4, <3>5
    <3> QED
      BY <3>3, <3>6
  <2> QED
    BY <1>11, <2>2, <2>3 DEF TypeOK, ServerProcesses, ServerDiscards, client, network
<1> QED
  BY <1>1, <1>2, <1>3, <1>4, <1>5, <1>6, <1>7, <1>8, <1>9, <1>10, <1>11 DEF Next

-----------------------------------------------------------------------------
(* Steps that move what is on its way, and change nothing at the server:   *)
(* at most, messages that want no answer leave over a WebSocket.           *)
MovesOnly ==
    /\ UNCHANGED <<nextCall, sequenceMap, told, server, stream>>
    /\ replies' \subseteq replies
    /\ \A i \in Calls :
          /\ \/ messages'[i] = messages[i]
             \/ messages[i].m = 31 /\ messages'[i] = [messages[i] EXCEPT !.m = 32]
          /\ Carries(flight', i) \/ Carries(late', i) => Current(i)

LEMMA MovesInv ==
    ASSUME IInv, TypeOK', MovesOnly,
           NoGaps(flight)', NoGaps(late)', MessagesUnderWay', CountersAgree'
    PROVE  IInv'
<1> USE DEF Exists
<1>1. \A i \in Calls :
        /\ messages'[i].kind = messages[i].kind /\ messages'[i].prog = messages[i].prog
        /\ \/ messages'[i].m = messages[i].m /\ messages'[i] = messages[i]
           \/ messages[i].m = 31 /\ messages'[i].m = 32
  <2> SUFFICES ASSUME NEW i \in Calls
               PROVE  /\ messages'[i].kind = messages[i].kind /\ messages'[i].prog = messages[i].prog
                      /\ \/ messages'[i].m = messages[i].m /\ messages'[i] = messages[i]
                         \/ messages[i].m = 31 /\ messages'[i].m = 32
    OBVIOUS
  <2>1. messages[i] \in Message
    BY Types DEF IInv
  <2>2. \/ messages'[i] = messages[i]
        \/ messages[i].m = 31 /\ messages'[i] = [messages[i] EXCEPT !.m = 32]
    BY DEF MovesOnly
  <2>3. CASE messages'[i] = messages[i]
    BY <2>3
  <2>4. CASE messages[i].m = 31 /\ messages'[i] = [messages[i] EXCEPT !.m = 32]
    <3>1. PICK msg \in Message : msg = messages[i]
      BY <2>1
    <3>2. messages'[i] = [msg EXCEPT !.m = 32]
      BY <2>4, <3>1
    <3>3. messages'[i].kind = msg.kind /\ messages'[i].prog = msg.prog /\ messages'[i].m = 32
      BY <3>2, Moved
    <3> QED
      BY <2>4, <3>1, <3>3
  <2> QED
    BY <2>2, <2>3, <2>4
<1>2. \A i \in Calls : /\ Numbered(i)' <=> Numbered(i)
                       /\ Current(i)' => Current(i)
                       /\ HasArrived(i)' <=> HasArrived(i)
                       /\ isOrdered(i)' <=> isOrdered(i)
                       /\ Aborted(i)' <=> Aborted(i)
  <2> SUFFICES ASSUME NEW i \in Calls
               PROVE  /\ Numbered(i)' <=> Numbered(i)
                      /\ Current(i)' => Current(i)
                      /\ HasArrived(i)' <=> HasArrived(i)
                      /\ isOrdered(i)' <=> isOrdered(i)
                      /\ Aborted(i)' <=> Aborted(i)
    OBVIOUS
  <2>1. Numbered(i)' <=> Numbered(i)
    BY <1>1 DEF Numbered
  <2>2. isOrdered(i)' <=> isOrdered(i)
    BY <1>1 DEF isOrdered
  <2>3. HasArrived(i)' <=> HasArrived(i)
    BY DEF HasArrived, Carries, MovesOnly, server
  <2>4. Aborted(i)' <=> Aborted(i)
    BY <1>1 DEF Aborted
  <2>5. Current(i)' => Current(i)
    <3>1. accepted' = accepted /\ (Exists(messages'[i]) => Exists(messages[i]))
      BY <1>1 DEF MovesOnly, server
    <3>2. Carries(flight', i) \/ Carries(late', i) => Current(i)
      BY DEF MovesOnly
    <3> QED
      BY <3>1, <3>2 DEF Current
  <2> QED
    BY <2>1, <2>2, <2>3, <2>4, <2>5
<1>3. arrived' = arrived /\ arrived \in Seq(Calls)
  BY DEF IInv, TypeOK, MovesOnly, server
<1>4. InOrder'
  <2>1. \A k \in DOMAIN arrived : arrived[k] \in Calls
    BY <1>3
  <2> QED
    BY <1>1, <1>2, <1>3, <2>1 DEF IInv, InOrder
<1>5. NotLost'
  BY <1>1, <1>2 DEF IInv, NotLost
<1>6. OutcomeIsTrue'
  BY DEF IInv, OutcomeIsTrue, MovesOnly, server
<1>7. MessagesAgree'
  <2> SUFFICES ASSUME NEW i \in Calls
               PROVE  WellFormed(i)' /\ NumbersAgree(i)' /\ Places(i)'
    BY DEF MessagesAgree
  <2>1. WellFormed(i) /\ NumbersAgree(i) /\ Places(i)
    BY DEF IInv, MessagesAgree
  <2>2. WellFormed(i)'
    BY <1>1, <1>2, <2>1 DEF WellFormed, MovesOnly
  <2>3. NumbersAgree(i)'
    BY <1>1, <1>2, <2>1 DEF NumbersAgree, MovesOnly, SameSequence, server
  <2>4. Places(i)'
    BY <1>1, <1>2, <2>1 DEF Places, MovesOnly, server
  <2> QED
    BY <2>2, <2>3, <2>4
<1>8. RepliesAgree'
  <2>1. \A reply \in replies : reply.call \in Calls
    BY DEF IInv, TypeOK
  <2> QED
    BY <1>1, <1>2, <2>1 DEF IInv, RepliesAgree, MovesOnly, server
<1>9. StreamAgrees'
  <2>1. \A result : \A i \in Calls : isConcerned(messages'[i], result) => isConcerned(messages[i], result)
    BY <1>1 DEF isConcerned
  <2> QED
    BY <2>1 DEF IInv, StreamAgrees, MovesOnly, server
<1> QED
  BY <1>4, <1>5, <1>6, <1>7, <1>8, <1>9 DEF IInv

(* What is pending stays so, or has left with the WebSocket.               *)
LEMMA BatchLeaves ==
    ASSUME NEW batch \in Batches(messages), flight' = batch,
           \A i \in Calls : /\ messages'[i].kind = messages[i].kind
                            /\ isPending(messages'[i]) => isPending(messages[i])
    PROVE  /\ NoGaps(flight)'
           /\ \A i \in Calls : Carries(flight', i) => Current(i)
<1>1. /\ \A i : Carries(batch, i) => i \in Calls /\ isPending(messages[i])
      /\ \A p \in DOMAIN batch, j \in Calls :
             j < batch[p] /\ isPending(messages[j]) => \E q \in 1..(p - 1) : batch[q] = j
  BY BatchIsInOrder
<1>2. NoGaps(flight)'
  BY <1>1 DEF NoGaps
<1> QED
  BY <1>1, <1>2 DEF Current, Exists, isPending

LEMMA NothingLeaves ==
    ASSUME flight' = <<>>
    PROVE  NoGaps(flight)' /\ \A i : ~Carries(flight', i)
  BY DEF NoGaps, Carries

(* Other steps leave a connection as it is, or leave it behind.            *)
LEMMA GapsKept ==
    ASSUME IInv,
           \A i \in Calls : /\ messages'[i].kind = messages[i].kind
                            /\ isPending(messages'[i]) => isPending(messages[i])
                            /\ HasArrived(i) => HasArrived(i)'
    PROVE  /\ flight' \in {flight, <<>>} => NoGaps(flight)'
           /\ late' \in {flight, late, <<>>} => NoGaps(late)'
<1>1. /\ flight \in Seq(Calls) /\ late \in Seq(Calls)
      /\ NoGaps(flight) /\ NoGaps(late)
  BY DEF IInv, TypeOK
<1>2. ASSUME NEW seq, seq = flight \/ seq = late,
             NEW p \in DOMAIN seq, NEW j \in Calls,
             j < seq[p], isPending(messages'[j]), Numbered(j)', Numbered(seq[p])',
             SameSequence(j, seq[p])'
      PROVE  HasArrived(j)' \/ \E q \in 1..(p - 1) : seq[q] = j
  <2>1. seq[p] \in Calls
    BY <1>1, <1>2, Elements
  <2>2. /\ isPending(messages[j]) /\ Numbered(j) /\ Numbered(seq[p])
        /\ SameSequence(j, seq[p])
    BY <1>2, <2>1 DEF Numbered, SameSequence
  <2>3. HasArrived(j) \/ \E q \in 1..(p - 1) : seq[q] = j
    BY <1>1, <1>2, <2>2 DEF NoGaps
  <2> QED
    BY <2>3
<1>3. flight' = flight => NoGaps(flight)'
  <2>1. PICK seq : seq = flight
    OBVIOUS
  <2>2. NoGaps(seq)'
    BY <1>2, <2>1 DEF NoGaps
  <2> QED
    BY <2>1, <2>2 DEF NoGaps, Numbered, SameSequence
<1>4. late' \in {flight, late} => NoGaps(late)'
  <2>1. ASSUME NEW seq, seq = flight \/ seq = late
        PROVE  NoGaps(seq)'
    BY <1>2, <2>1 DEF NoGaps
  <2>2. PICK seq : seq = late'
    OBVIOUS
  <2> QED
    BY <2>1, <2>2 DEF NoGaps, Numbered, SameSequence
<1> QED
  BY <1>3, <1>4 DEF NoGaps

-----------------------------------------------------------------------------
(* Steps in which the client learns what was made of messages that         *)
(* arrived: a reply moves a pending message on, and a listener that was    *)
(* told nothing is told what is true.                                      *)
Learns(i) ==
    /\ messages'[i].kind = messages[i].kind /\ messages'[i].prog = messages[i].prog
    /\ \/ messages'[i].m = messages[i].m /\ told'[i] = told[i]
       \/ /\ HasArrived(i) /\ told'[i] = told[i]
          /\ \/ messages[i].m = 11 /\ messages'[i].m \in {12, 14}
             \/ messages[i].m = 21 /\ messages'[i].m \in {22, 23}
             \/ messages[i].m = 31 /\ messages'[i].m \in {33, 34}
       \/ /\ HasArrived(i)
          /\ messages[i].m \in {11, 12} /\ messages'[i].m \in {13, 14}
          /\ \E event \in {"processed", "denied", "error", "discarded"} :
                /\ told'[i] = <<event>>
                /\ event = outcome[i] \/ (event = "error" /\ outcome[i] = "refused")
          /\ i \notin accepted

LEMMA LearnsInv ==
    ASSUME IInv, TypeOK',
           UNCHANGED <<nextCall, sequenceMap, channel, flight, late, server>>,
           \A i \in Calls : Learns(i),
           replies' \subseteq replies,
           StreamAgrees', MessagesUnderWay'
    PROVE  IInv'
<1>1. \A i \in Calls :
        /\ messages'[i].kind = messages[i].kind /\ messages'[i].prog = messages[i].prog
        /\ \/ messages'[i].m = messages[i].m
           \/ /\ HasArrived(i)
              /\ \/ messages[i].m = 11 /\ messages'[i].m \in {12, 13, 14}
                 \/ messages[i].m = 12 /\ messages'[i].m \in {13, 14}
                 \/ messages[i].m = 21 /\ messages'[i].m \in {22, 23}
                 \/ messages[i].m = 31 /\ messages'[i].m \in {33, 34}
  BY DEF Learns
<1>2. \A i \in Calls : isPending(messages'[i]) => isPending(messages[i])
  BY <1>1 DEF isPending
<1>3. \A i \in Calls : Exists(messages'[i]) => Exists(messages[i])
  BY <1>1 DEF Exists
<1>4. ASSUME NEW i \in Calls
      PROVE  /\ Numbered(i)' <=> Numbered(i)
             /\ Current(i)' => Current(i)
             /\ HasArrived(i)' <=> HasArrived(i)
             /\ isOrdered(i)' <=> isOrdered(i)
             /\ Aborted(i)' <=> Aborted(i)
  <2>1. Numbered(i)' <=> Numbered(i)
    BY <1>1 DEF Numbered
  <2>2. isOrdered(i)' <=> isOrdered(i)
    BY <1>1 DEF isOrdered
  <2>3. HasArrived(i)' <=> HasArrived(i)
    BY DEF HasArrived, Carries, server
  <2>4. Aborted(i)' <=> Aborted(i)
    BY <1>1 DEF Aborted
  <2>5. Current(i)' => Current(i)
    BY <1>3 DEF Current, server
  <2> QED
    BY <2>1, <2>2, <2>3, <2>4, <2>5
<1>5. InOrder'
  <2>1. arrived' = arrived /\ \A k \in DOMAIN arrived : arrived[k] \in Calls
    BY DEF IInv, TypeOK, server
  <2> QED
    BY <1>1, <1>4, <2>1 DEF IInv, InOrder
<1>6. NotLost'
  BY <1>1, <1>4 DEF IInv, NotLost
<1>7. OutcomeIsTrue'
  <2> SUFFICES ASSUME NEW i \in Calls
               PROVE  /\ Len(told'[i]) <= 1
                      /\ told'[i] \in {<<"processed">>, <<"denied">>, <<"discarded">>}
                            => told'[i] = <<outcome'[i]>>
                      /\ told'[i] = <<"error">> => outcome'[i] \in {"error", "refused"}
    BY DEF OutcomeIsTrue
  <2>1. CASE told'[i] = told[i]
    BY <2>1 DEF IInv, OutcomeIsTrue, server
  <2>2. ASSUME NEW event \in {"processed", "denied", "error", "discarded"},
               told'[i] = <<event>>,
               event = outcome[i] \/ (event = "error" /\ outcome[i] = "refused")
        PROVE  /\ Len(told'[i]) <= 1
               /\ told'[i] \in {<<"processed">>, <<"denied">>, <<"discarded">>}
                     => told'[i] = <<outcome'[i]>>
               /\ told'[i] = <<"error">> => outcome'[i] \in {"error", "refused"}
    <3>1. \A e : <<event>> = <<e>> => event = e
      OBVIOUS
    <3> QED
      BY <2>2, <3>1 DEF server
  <2> QED
    BY <2>1, <2>2 DEF Learns
<1>8. MessagesAgree'
  <2> SUFFICES ASSUME NEW i \in Calls
               PROVE  WellFormed(i)' /\ NumbersAgree(i)' /\ Places(i)'
    BY DEF MessagesAgree
  <2>1. WellFormed(i) /\ NumbersAgree(i) /\ Places(i)
    BY DEF IInv, MessagesAgree
  <2>2. WellFormed(i)'
    <3>1. told'[i] # <<>> => messages'[i].m \in {13, 14, 15}
      <4>0. told[i] # <<>> => messages[i].m \in {13, 14, 15}
        BY <2>1 DEF WellFormed
      <4>1. CASE told'[i] = told[i] /\ messages'[i].m = messages[i].m
        BY <4>0, <4>1
      <4>2. CASE messages[i].m \in {11, 21, 31} /\ told'[i] = told[i]
        BY <4>0, <4>2
      <4>3. CASE messages'[i].m \in {13, 14}
        BY <4>3
      <4> QED
        BY <4>1, <4>2, <4>3 DEF Learns
    <3> QED
      BY <1>1, <1>4, <2>1, <3>1 DEF WellFormed
  <2>3. NumbersAgree(i)'
    BY <1>1, <1>4, <2>1 DEF NumbersAgree, SameSequence, server
  <2>4. Places(i)'
    BY <1>1, <1>4, <2>1 DEF Places, server, Learns
  <2> QED
    BY <2>2, <2>3, <2>4
<1>9. NoGaps(flight)' /\ NoGaps(late)'
  BY <1>1, <1>2, <1>4, GapsKept
<1>10. RepliesAgree'
  <2>1. \A reply \in replies : reply.call \in Calls
    BY DEF IInv, TypeOK
  <2>2. \A i \in Calls : messages'[i].m = 11 => messages[i].m = 11
    BY <1>1
  <2> QED
    BY <1>4, <2>1, <2>2 DEF IInv, RepliesAgree, server
<1>11. CountersAgree'
  <2>1. \A i \in Calls : messages'[i].m = 31 => messages[i].m = 31
    BY <1>1
  <2> QED
    BY <2>1 DEF IInv, CountersAgree, server
<1> QED
  BY <1>5, <1>6, <1>7, <1>8, <1>9, <1>10, <1>11 DEF IInv

LEMMA AppendOne ==
    ASSUME NEW e
    PROVE  Append(<<>>, e) = <<e>> /\ Len(<<e>>) = 1
  OBVIOUS

LEMMA ReplyInv ==
    ASSUME IInv, TypeOK', Reply
    PROVE  IInv'
<1>1. PICK reply \in replies :
          /\ replies' = replies \ {reply}
          /\ IF reply.code = "ok" THEN evtREQOK(reply.call) ELSE evtREQERR(reply.call, reply.code)
  BY DEF Reply
<1>2. PICK i \in Calls : i = reply.call
  BY DEF IInv, TypeOK
<1>3. /\ HasArrived(i)
      /\ reply.code = "refused" /\ messages[i].m = 11 =>
            outcome[i] = "refused" /\ i \notin accepted
      /\ reply.code \in {"ok", "duplicate", "refused"}
  BY <1>2 DEF IInv, RepliesAgree, TypeOK
<1>4. PICK after :
        /\ messages' = [messages EXCEPT ![i].m = after]
        /\ \/ messages[i].m = 11 /\ reply.code = "ok" /\ after = 12
           \/ messages[i].m = 11 /\ reply.code # "ok" /\ after = 14
           \/ messages[i].m = 21 /\ after \in {22, 23}
           \/ messages[i].m = 31 /\ after \in {33, 34}
           \/ messages[i].m \notin {11, 21, 31} /\ after = messages[i].m
  <2>1. CASE reply.code = "ok"
    <3>1. PICK after :
            after = CASE messages[i].m = 11 -> 12 [] messages[i].m = 21 -> 22
                      [] messages[i].m = 31 -> 33 [] OTHER -> messages[i].m
      OBVIOUS
    <3>2. messages' = [messages EXCEPT ![i].m = after]
      BY <1>1, <1>2, <2>1, <3>1 DEF evtREQOK
    <3>3. \/ messages[i].m = 11 /\ after = 12
          \/ messages[i].m = 21 /\ after = 22
          \/ messages[i].m = 31 /\ after = 33
          \/ messages[i].m \notin {11, 21, 31} /\ after = messages[i].m
      BY <3>1
    <3> QED
      BY <2>1, <3>2, <3>3
  <2>2. CASE reply.code # "ok"
    <3>1. PICK after :
            after = CASE messages[i].m = 11 -> 14 [] messages[i].m = 21 -> 23
                      [] messages[i].m = 31 -> 34 [] OTHER -> messages[i].m
      OBVIOUS
    <3>2. messages' = [messages EXCEPT ![i].m = after]
      BY <1>1, <1>2, <2>2, <3>1 DEF evtREQERR
    <3>3. \/ messages[i].m = 11 /\ after = 14
          \/ messages[i].m = 21 /\ after = 23
          \/ messages[i].m = 31 /\ after = 34
          \/ messages[i].m \notin {11, 21, 31} /\ after = messages[i].m
      BY <3>1
    <3> QED
      BY <2>2, <3>2, <3>3
  <2> QED
    BY <2>1, <2>2
<1>5. \A j \in Calls :
        /\ messages'[j].kind = messages[j].kind /\ messages'[j].prog = messages[j].prog
        /\ messages'[j].m = IF j = i THEN after ELSE messages[j].m
  <2>1. \A j \in Calls :
          messages'[j] = IF j = i THEN [messages[i] EXCEPT !.m = after] ELSE messages[j]
    BY <1>4, Types DEF IInv
  <2>2. PICK msg \in Message : msg = messages[i]
    BY Types DEF IInv
  <2>3. messages'[i] = [msg EXCEPT !.m = after]
    BY <2>1, <2>2
  <2>4. messages'[i].kind = msg.kind /\ messages'[i].prog = msg.prog /\ messages'[i].m = after
    BY <2>3, Moved
  <2> QED
    BY <2>1, <2>2, <2>4
<1>6. ASSUME NEW j \in Calls
      PROVE  Learns(j)
  <2>0. WellFormed(i)
    BY DEF IInv, MessagesAgree
  <2>1. messages[i].m = 11 => told[i] = <<>>
    BY <2>0 DEF WellFormed
  <2>2. told' = IF reply.code = "refused" /\ messages[i].m = 11
                  THEN [told EXCEPT ![i] = Append(@, "error")] ELSE told
    <3>1. CASE reply.code = "ok"
      BY <1>1, <1>2, <3>1 DEF evtREQOK
    <3>2. CASE reply.code # "ok"
      <4>1. told' = [told EXCEPT ![i] =
                       IF messages[i].m = 11 /\ reply.code # "duplicate" THEN Append(@, "error") ELSE @]
        BY <1>1, <1>2, <3>2 DEF evtREQERR
      <4>2. told = [told EXCEPT ![i] = told[i]]
        BY DEF IInv, TypeOK
      <4> QED
        BY <1>3, <3>2, <4>1, <4>2
    <3> QED
      BY <3>1, <3>2
  <2>3. CASE j # i
    BY <1>4, <1>5, <2>2, <2>3 DEF Learns, IInv, TypeOK
  <2>4. CASE j = i /\ reply.code = "refused" /\ messages[i].m = 11
    <3>1. told'[i] = <<"error">>
      BY <2>1, <2>2, <2>4, AppendOne DEF IInv, TypeOK
    <3>2. messages'[i].m = 14
      BY <1>4, <1>5, <2>4
    <3> QED
      BY <1>3, <1>5, <2>4, <3>1, <3>2 DEF Learns
  <2>5. CASE j = i /\ ~(reply.code = "refused" /\ messages[i].m = 11)
    BY <1>3, <1>4, <1>5, <2>2, <2>5 DEF Learns
  <2> QED
    BY <2>3, <2>4, <2>5
<1>7. MessagesUnderWay'
  <2>1. ASSUME NEW j \in Calls, isPending(messages'[j])
        PROVE  isPending(messages[j]) /\ j # i
    BY <1>4, <1>5, <2>1 DEF isPending
  <2>2. UNCHANGED <<channel, ctrl, flight>>
    BY DEF Reply
  <2>3. PendingMessages(messages') \subseteq PendingMessages(messages)
    BY <2>1 DEF PendingMessages
  <2> QED
    BY <1>1, <1>2, <2>1, <2>2, <2>3 DEF IInv, MessagesUnderWay
<1>8. StreamAgrees'
  <2>1. \A result : \A j \in Calls : isConcerned(messages'[j], result) => isConcerned(messages[j], result)
    BY <1>4, <1>5 DEF isConcerned
  <2> QED
    BY <2>1 DEF IInv, StreamAgrees, Reply, server
<1> QED
  BY <1>1, <1>6, <1>7, <1>8, LearnsInv DEF Reply, server

LEMMA OutcomeInv ==
    ASSUME IInv, TypeOK', Outcome
    PROVE  IInv'
<1>1. PICK Results :
          /\ Results = [sequence : SequenceNames, event : Events, prog : Nat, count : {1, 2}]
          /\ stream \in Seq(Results) /\ stream # <<>>
  BY DEF Outcome, IInv, TypeOK
<1>2. /\ Head(stream) = stream[1] /\ 1 \in DOMAIN stream
      /\ \A p \in DOMAIN Tail(stream) : p + 1 \in DOMAIN stream /\ Tail(stream)[p] = stream[p + 1]
  BY <1>1, HeadAndTail
<1>3. PICK result : result = Head(stream)
  OBVIOUS
<1>4. /\ result.event \in {"processed", "denied", "error", "discarded"}
      /\ \A i \in Calls : isConcerned(messages[i], result) =>
            outcome[i] = result.event /\ i \notin accepted
  BY <1>2, <1>3, Types DEF IInv, StreamAgrees, Events
<1>5. PICK after \in {13, 14} :
        /\ messages' = [i \in Calls |-> IF isConcerned(messages[i], result)
                          THEN [messages[i] EXCEPT !.m = after] ELSE messages[i]]
        /\ told' = [i \in Calls |-> IF isConcerned(messages[i], result)
                          THEN Append(told[i], result.event) ELSE told[i]]
  BY <1>3 DEF Outcome
<1>6. \A i \in Calls : isConcerned(messages[i], result) =>
        /\ messages'[i].kind = messages[i].kind /\ messages'[i].prog = messages[i].prog
        /\ messages'[i].m = after
  <2>1. \A i \in Calls : messages[i] \in Message
    BY Types DEF IInv
  <2> QED
    BY <1>5, <2>1, Moved
<1>7. ASSUME NEW i \in Calls
      PROVE  Learns(i)
  <2>1. CASE ~isConcerned(messages[i], result)
    BY <1>5, <2>1 DEF Learns
  <2>2. CASE isConcerned(messages[i], result)
    <3>1. messages[i].m \in {11, 12} /\ told[i] = <<>>
      BY <2>2 DEF isConcerned, IInv, MessagesAgree, WellFormed
    <3>2. told'[i] = <<result.event>>
      BY <1>5, <2>2, <3>1, AppendOne
    <3>3. HasArrived(i)
      <4>1. /\ messages[i].prog <= result.prog /\ sequence(messages[i].kind) = result.sequence
            /\ result.prog <= lastProg[result.sequence]
        <5>1. messages[i].prog \in Nat /\ result.prog \in Nat /\ result.count \in {1, 2}
          BY <1>2, <1>3, Types DEF IInv
        <5>2. messages[i].prog <= result.prog /\ sequence(messages[i].kind) = result.sequence
          BY <2>2, <5>1 DEF isConcerned
        <5> QED
          BY <1>2, <1>3, <5>2 DEF IInv, StreamAgrees
      <4>2. Current(i) /\ Numbered(i)
        BY <3>1 DEF Current, Exists, Numbered, IInv, MessagesAgree, WellFormed,
                    hasListener, isFireAndForget
      <4>3. /\ lastProg[sequence(messages[i].kind)] \in Nat /\ messages[i].prog \in Nat
            /\ result.prog \in Nat
        BY <1>2, <1>3, Types DEF IInv
      <4> QED
        BY <4>1, <4>2, <4>3 DEF IInv, MessagesAgree, NumbersAgree
    <3> QED
      <4>1. /\ messages'[i].kind = messages[i].kind /\ messages'[i].prog = messages[i].prog
            /\ messages'[i].m \in {13, 14}
        BY <1>5, <1>6, <2>2
      <4> QED
        BY <1>4, <2>2, <3>1, <3>2, <3>3, <4>1 DEF Learns
  <2> QED
    BY <2>1, <2>2
<1>8. \A i \in Calls : /\ isPending(messages'[i]) => messages'[i] = messages[i]
                       /\ \A other : isConcerned(messages'[i], other) => messages'[i] = messages[i]
  BY <1>5, <1>6 DEF isPending, isConcerned
<1>9. MessagesUnderWay'
  <2>1. UNCHANGED <<channel, ctrl, flight, replies>>
    BY DEF Outcome, network
  <2> QED
    BY <1>8, <2>1 DEF IInv, MessagesUnderWay, PendingMessages
<1>10. StreamAgrees'
  <2>1. stream' = Tail(stream) /\ UNCHANGED <<lastProg, outcome, accepted>>
    BY DEF Outcome, server
  <2>2. ASSUME NEW p \in DOMAIN stream'
        PROVE  /\ stream'[p].event # "abort"
               /\ stream'[p].prog <= lastProg'[stream'[p].sequence]
               /\ \A i \in Calls : isConcerned(messages'[i], stream'[p]) =>
                     outcome'[i] = stream'[p].event /\ i \notin accepted'
    <3>1. PICK q \in DOMAIN stream : stream'[p] = stream[q]
      BY <1>2, <2>1
    <3>2. /\ stream[q].event # "abort"
          /\ stream[q].prog <= lastProg[stream[q].sequence]
          /\ \A i \in Calls : isConcerned(messages[i], stream[q]) =>
                outcome[i] = stream[q].event /\ i \notin accepted
      BY DEF IInv, StreamAgrees
    <3>3. \A i \in Calls : isConcerned(messages'[i], stream[q]) => isConcerned(messages[i], stream[q])
      BY <1>8
    <3> QED
      BY <2>1, <3>1, <3>2, <3>3
  <2> QED
    BY <2>2 DEF StreamAgrees
<1> QED
  BY <1>7, <1>9, <1>10, LearnsInv DEF Outcome, network, server

-----------------------------------------------------------------------------
(* Steps of the server. *)

(* Below, i is a message that reaches the server on a connection that      *)
(* leaves none of the earlier ones of its sequence behind.                 *)
LEMMA ReceiveInv ==
    ASSUME IInv, TypeOK', NEW i \in Calls, NEW code \in {"ok", "duplicate", "refused"},
           Current(i), Receives(i, code),
           \A j \in Calls : j < i /\ isPending(messages[j]) /\ Numbered(j) /\ Numbered(i)
                                /\ SameSequence(j, i) => HasArrived(j),
           UNCHANGED <<client, channel, stream>>,
           replies' \subseteq replies \cup {[call |-> i, code |-> code]},
           \A j \in Calls : (Carries(flight', j) => Carries(flight, j))
                                /\ (Carries(late', j) => Carries(late, j)),
           HasArrived(i)' => NoGaps(flight)' /\ NoGaps(late)',
           MessagesUnderWay'
    PROVE  IInv'
<1>1. UNCHANGED <<messages, nextCall, sequenceMap, told>>
  BY DEF client
<1>2. WellFormed(i) /\ NumbersAgree(i) /\ Places(i)
  BY DEF IInv, MessagesAgree
<1>3. messages[i].m \notin {1, 15, 24, 35} /\ i <= nextCall
  BY <1>2 DEF Places, WellFormed, Calls, IInv, TypeOK
<1>4. isDuplicate(i) <=>
        Numbered(i) /\ messages[i].prog <= lastProg[sequence(messages[i].kind)]
  BY DEF isDuplicate, Numbered
<1>5. Numbered(i) => (isDuplicate(i) <=> HasArrived(i))
  BY <1>2, <1>4 DEF NumbersAgree
<1>6. told[i] # <<>> => isDuplicate(i)
  <2> SUFFICES ASSUME told[i] # <<>>
               PROVE  isDuplicate(i)
    OBVIOUS
  <2>1. messages[i].m \in {13, 14}
    BY <1>2, <1>3 DEF WellFormed
  <2>2. HasArrived(i)
    BY <2>1 DEF IInv, NotLost
  <2>3. Numbered(i)
    BY <1>2, <2>1 DEF WellFormed, Numbered, hasListener, isFireAndForget
  <2> QED
    BY <1>5, <2>2, <2>3
<1>7. messages[i].m \in {11, 12} => Numbered(i)
  BY <1>2 DEF WellFormed, Numbered, hasListener, isFireAndForget
<1>8. \A j \in Calls : /\ Numbered(j)' <=> Numbered(j)
                       /\ isOrdered(j)' <=> isOrdered(j)
                       /\ Aborted(j)' <=> Aborted(j)
  BY <1>1 DEF Numbered, isOrdered, Aborted
<1>9. CASE isDuplicate(i)
  <2>1. UNCHANGED server /\ code = "duplicate" /\ HasArrived(i)
    BY <1>4, <1>5, <1>9 DEF Receives
  <2>2. UNCHANGED <<arrived, accepted, outcome, lastProg>>
    BY <2>1 DEF server
  <2>3. \A j : HasArrived(j)' <=> HasArrived(j)
    BY <2>2 DEF HasArrived, Carries
  <2>4. \A j \in Calls : Current(j)' => Current(j)
    BY <1>1, <2>2 DEF Current
  <2>5. InOrder' /\ NotLost' /\ OutcomeIsTrue' /\ StreamAgrees' /\ CountersAgree'
    BY <1>1, <2>2, <2>3, <1>8 DEF IInv, InOrder, NotLost, OutcomeIsTrue, StreamAgrees,
                                  CountersAgree, HasArrived, Carries, isOrdered, Aborted
  <2>6. MessagesAgree'
    BY <1>1, <1>8, <2>2, <2>3, <2>4 DEF IInv, MessagesAgree, WellFormed, NumbersAgree, Places, SameSequence
  <2>7. RepliesAgree'
    BY <1>1, <2>1, <2>2, <2>3 DEF IInv, RepliesAgree
  <2> QED
    BY <2>1, <2>3, <2>5, <2>6, <2>7 DEF IInv
<1>10. CASE ~isDuplicate(i)
  <2>1. /\ arrived' = Append(arrived, i)
        /\ code # "duplicate"
        /\ accepted' = IF code = "ok" THEN accepted \cup {i} ELSE accepted
        /\ outcome' = [outcome EXCEPT ![i] = IF code = "ok" THEN "none" ELSE "refused"]
        /\ lastProg' = IF ~Numbered(i) THEN lastProg
                       ELSE [lastProg EXCEPT ![sequence(messages[i].kind)] = messages[i].prog]
    BY <1>10 DEF Receives, Numbered
  <2>2. \A j \in Calls : HasArrived(j)' <=> HasArrived(j) \/ j = i
    BY <2>1, AppendCarries, Types DEF IInv, HasArrived
  <2>3. Numbered(i) => ~HasArrived(i) /\ lastProg[sequence(messages[i].kind)] < messages[i].prog
    BY <1>4, <1>5, <1>10, Types DEF IInv
  <2>4. /\ \A j \in Calls : outcome'[j] = IF j # i THEN outcome[j] ELSE
                                 IF code = "ok" THEN "none" ELSE "refused"
        /\ \A s \in SequenceNames : lastProg'[s] =
              IF Numbered(i) /\ s = sequence(messages[i].kind) THEN messages[i].prog ELSE lastProg[s]
    BY <2>1, Types DEF IInv, TypeOK
  <2>5. \A s \in SequenceNames : lastProg[s] <= lastProg'[s] /\ lastProg'[s] \in Nat
    BY <2>3, <2>4, Types DEF IInv
  <2>6. \A j \in Calls : Current(j)' => Current(j)
    BY <1>1, <2>1 DEF Current
  <2>7. told[i] = <<>>
    BY <1>6, <1>10
  <2>8. \A j \in Calls : j < i /\ isOrdered(i) /\ isOrdered(j) => HasArrived(j) \/ Aborted(j)
    <3> SUFFICES ASSUME NEW j \in Calls, j < i, isOrdered(i), isOrdered(j)
                 PROVE  HasArrived(j) \/ Aborted(j)
      OBVIOUS
    <3>1. Numbered(i) /\ Numbered(j) /\ SameSequence(j, i)
      BY DEF isOrdered, Numbered, SameSequence, sequence, isFireAndForget, Unordered
    <3>2. CASE isPending(messages[j])
      BY <3>1, <3>2
    <3>3. CASE messages[j].m \in {12, 13, 14, 22, 23}
      BY <3>3 DEF IInv, NotLost
    <3>4. messages[j].m \in {11, 12, 13, 14, 15, 21, 22, 23, 24}
      <4>1. WellFormed(j) /\ j <= nextCall
        BY <1>3, Types DEF IInv, MessagesAgree
      <4>2. messages[j].m \in States \ {1}
        BY <4>1, Types DEF WellFormed, IInv
      <4> QED
        BY <3>1, <4>1, <4>2 DEF States, WellFormed
    <3> QED
      BY <3>2, <3>3, <3>4 DEF Aborted, isPending
  <2>9. InOrder'
    <3> DEFINE last == Len(arrived) + 1
    <3>1. /\ DOMAIN arrived = 1..Len(arrived) /\ Len(arrived) \in Nat
          /\ DOMAIN arrived' = 1..last /\ arrived'[last] = i
          /\ \A k \in 1..Len(arrived) : arrived'[k] = arrived[k] /\ arrived[k] \in Calls
      BY <2>1, Types, Elements DEF IInv
    <3>2. \A k \in 1..Len(arrived) : HasArrived(arrived[k])
      BY <3>1 DEF HasArrived, Carries
    <3>3. ASSUME NEW k \in 1..last, NEW n \in 1..last, k < n
          PROVE  /\ isOrdered(arrived'[k]) /\ isOrdered(arrived'[n]) => arrived'[k] < arrived'[n]
                 /\ Numbered(arrived'[k]) => arrived'[k] # arrived'[n]
      <4>1. CASE n # last
        <5>1. k \in 1..Len(arrived) /\ n \in 1..Len(arrived)
          BY <3>1, <3>3, <4>1
        <5> QED
          BY <3>1, <3>3, <5>1 DEF IInv, InOrder, Numbered
      <4>2. CASE n = last
        <5>1. /\ k \in 1..Len(arrived) /\ arrived'[n] = i /\ arrived'[k] = arrived[k]
              /\ arrived[k] \in Calls /\ HasArrived(arrived[k])
          BY <3>1, <3>2, <3>3, <4>2
        <5>2. ASSUME Numbered(arrived[k])
              PROVE  arrived[k] # i
          BY <2>3, <5>1, <5>2
        <5>3. ASSUME isOrdered(arrived[k]), isOrdered(i)
              PROVE  arrived[k] < i
          <6>1. Numbered(i) /\ Numbered(arrived[k])
            BY <5>3 DEF isOrdered, Numbered, sequence, isFireAndForget, Unordered
          <6>2. ~HasArrived(i) /\ ~Aborted(i)
            BY <1>3, <2>3, <6>1 DEF Aborted
          <6>3. ~(i < arrived[k])
            BY <5>1, <5>3, <6>2 DEF IInv, InOrder
          <6> QED
            BY <5>1, <5>2, <6>1, <6>3 DEF Calls
        <5> QED
          BY <5>1, <5>2, <5>3
      <4> QED
        BY <4>1, <4>2
    <3>4. ASSUME NEW j \in Calls, NEW k \in Calls, j < k, isOrdered(j)', isOrdered(k)', HasArrived(k)'
          PROVE  HasArrived(j)' \/ Aborted(j)'
      <4>1. isOrdered(j) /\ isOrdered(k) /\ (HasArrived(k) \/ k = i)
        BY <1>8, <2>2, <3>4
      <4>2. HasArrived(j) \/ Aborted(j)
        BY <2>8, <3>4, <4>1 DEF IInv, InOrder
      <4> QED
        BY <1>8, <2>2, <4>2
    <3> QED
      <4>1. \A k, n \in DOMAIN arrived' : k < n =>
              /\ isOrdered(arrived[k])' /\ isOrdered(arrived[n])' => arrived'[k] < arrived'[n]
              /\ ~isFireAndForget(messages'[arrived'[k]].kind) => arrived'[k] # arrived'[n]
        BY <1>1, <3>1, <3>3 DEF isOrdered, Numbered
      <4> QED
        BY <3>4, <4>1 DEF InOrder
  <2>10. NotLost'
    BY <1>1, <2>2 DEF IInv, NotLost
  <2>11. OutcomeIsTrue'
    <3> SUFFICES ASSUME NEW j \in Calls
                 PROVE  /\ Len(told[j]) <= 1
                        /\ told[j] \in {<<"processed">>, <<"denied">>, <<"discarded">>}
                              => told[j] = <<outcome'[j]>>
                        /\ told[j] = <<"error">> => outcome'[j] \in {"error", "refused"}
      BY <1>1 DEF OutcomeIsTrue
    <3>1. CASE j # i
      BY <2>4, <3>1 DEF IInv, OutcomeIsTrue
    <3>2. CASE j = i
      <4>1. \A e : <<>> # <<e>>
        OBVIOUS
      <4> QED
        BY <2>7, <3>2, <4>1
    <3> QED
      BY <3>1, <3>2
  <2>12. MessagesAgree'
    <3> SUFFICES ASSUME NEW j \in Calls
                 PROVE  WellFormed(j)' /\ NumbersAgree(j)' /\ Places(j)'
      BY DEF MessagesAgree
    <3>1. WellFormed(j) /\ NumbersAgree(j) /\ Places(j)
      BY DEF IInv, MessagesAgree
    <3>2. WellFormed(j)'
      BY <1>1, <1>8, <3>1 DEF WellFormed
    <3>3. Places(j)'
      BY <1>1, <1>3, <2>1, <2>2, <2>6, <2>7, <3>1 DEF Places
    <3>4. ASSUME Current(j), Numbered(j)
          PROVE  messages[j].prog <= lastProg'[sequence(messages[j].kind)] <=> HasArrived(j)'
      <4>1. CASE j = i
        BY <2>2, <2>4, <3>4, <4>1, Types DEF IInv
      <4>2. CASE j # i /\ ~(Numbered(i) /\ SameSequence(i, j))
        <5>1. lastProg'[sequence(messages[j].kind)] = lastProg[sequence(messages[j].kind)]
          BY <2>4, <4>2, Types DEF IInv, SameSequence
        <5> QED
          BY <2>2, <3>1, <3>4, <4>2, <5>1 DEF NumbersAgree
      <4>3. CASE j < i /\ Numbered(i) /\ SameSequence(i, j)
        <5>1. HasArrived(j)
          <6>1. CASE isPending(messages[j])
            BY <3>4, <4>3, <6>1 DEF SameSequence
          <6>2. CASE ~isPending(messages[j])
            <7>1. messages[j].m \in States \ {1, 15, 24, 35}
              BY <3>1, <3>4 DEF Places, IInv, TypeOK
            <7>2. messages[j].m \notin {31, 32, 33, 34}
              BY <3>1, <3>4 DEF WellFormed
            <7>3. messages[j].m \in {12, 13, 14, 22, 23}
              BY <6>2, <7>1, <7>2 DEF States, isPending
            <7> QED
              BY <7>3 DEF IInv, NotLost
          <6> QED
            BY <6>1, <6>2
        <5>2. messages[j].prog <= lastProg[sequence(messages[j].kind)]
          BY <3>1, <3>4, <5>1 DEF NumbersAgree
        <5> QED
          BY <2>2, <2>5, <5>1, <5>2, Types DEF IInv
      <4>4. CASE i < j /\ Numbered(i) /\ SameSequence(i, j)
        <5>1. messages[i].prog < messages[j].prog
          BY <1>2, <3>4, <4>4 DEF NumbersAgree
        <5>2. /\ lastProg'[sequence(messages[j].kind)] = messages[i].prog
              /\ lastProg[sequence(messages[j].kind)] < messages[i].prog
          BY <2>3, <2>4, <4>4, Types DEF IInv, SameSequence
        <5>3. ~HasArrived(j)
          BY <3>1, <3>4, <5>1, <5>2, Types DEF NumbersAgree, IInv
        <5> QED
          BY <2>2, <4>4, <5>1, <5>2, <5>3, Types DEF IInv, Calls
      <4> QED
        BY <4>1, <4>2, <4>3, <4>4 DEF Calls
    <3>5. NumbersAgree(j)'
      BY <1>1, <1>8, <2>6, <3>1, <3>4 DEF NumbersAgree, SameSequence
    <3> QED
      BY <3>2, <3>3, <3>5
  <2>13. RepliesAgree'
    <3> SUFFICES ASSUME NEW reply \in replies'
                 PROVE  /\ HasArrived(reply.call)'
                        /\ reply.code = "refused" /\ messages[reply.call].m = 11 =>
                              outcome'[reply.call] = "refused" /\ reply.call \notin accepted'
      BY <1>1 DEF RepliesAgree
    <3>1. CASE reply \in replies
      <4>1. /\ reply.call \in Calls /\ HasArrived(reply.call)
            /\ reply.code = "refused" /\ messages[reply.call].m = 11 =>
                  outcome[reply.call] = "refused" /\ reply.call \notin accepted
        BY <3>1, Types DEF IInv, RepliesAgree
      <4>2. messages[reply.call].m = 11 => reply.call # i
        BY <1>7, <2>3, <4>1
      <4> QED
        BY <2>1, <2>2, <2>4, <4>1, <4>2
    <3>2. CASE reply = [call |-> i, code |-> code]
      <4>1. messages[i].m = 11 => i \notin accepted
        BY <1>2, <1>7, <2>3 DEF Places
      <4> QED
        BY <2>1, <2>2, <2>4, <3>2, <4>1
    <3> QED
      BY <3>1, <3>2
  <2>14. StreamAgrees'
    <3> SUFFICES ASSUME NEW p \in DOMAIN stream
                 PROVE  /\ stream[p].event # "abort"
                        /\ stream[p].prog <= lastProg'[stream[p].sequence]
                        /\ \A j \in Calls : isConcerned(messages[j], stream[p]) =>
                              outcome'[j] = stream[p].event /\ j \notin accepted'
      BY <1>1 DEF StreamAgrees
    <3>1. /\ stream[p].event # "abort"
          /\ stream[p].prog <= lastProg[stream[p].sequence]
          /\ \A j \in Calls : isConcerned(messages[j], stream[p]) =>
                outcome[j] = stream[p].event /\ j \notin accepted
      BY DEF IInv, StreamAgrees
    <3>2. stream[p].sequence \in SequenceNames /\ stream[p].prog \in Nat /\ stream[p].count \in {1, 2}
      BY Types DEF IInv
    <3>3. ~isConcerned(messages[i], stream[p])
      <4> SUFFICES ASSUME isConcerned(messages[i], stream[p])
                   PROVE  FALSE
        OBVIOUS
      <4>1. messages[i].m \in {11, 12} /\ sequence(messages[i].kind) = stream[p].sequence
        BY DEF isConcerned
      <4>2. messages[i].prog <= stream[p].prog
        BY <3>2, Types DEF isConcerned, IInv
      <4> QED
        BY <1>7, <2>3, <3>1, <3>2, <4>1, <4>2, Types DEF IInv
    <3>4. stream[p].prog <= lastProg'[stream[p].sequence]
      BY <2>5, <3>1, <3>2, Types DEF IInv
    <3> QED
      BY <2>1, <2>4, <3>1, <3>3, <3>4
  <2>15. CountersAgree'
    <3>1. Numbered(i) => messages[i].prog < sequenceMap[sequence(messages[i].kind)]
      BY <1>2 DEF NumbersAgree
    <3> QED
      BY <1>1, <2>4, <3>1 DEF IInv, CountersAgree
  <2> QED
    BY <2>2, <2>9, <2>10, <2>11, <2>12, <2>13, <2>14, <2>15 DEF IInv
<1> QED
  BY <1>9, <1>10

(* The server has processed i and j, which are one message or two in a row *)
(* of a sequence.                                                          *)
LEMMA ProcessInv ==
    ASSUME IInv, TypeOK', NEW i \in accepted, NEW j \in accepted,
           NEW event \in {"processed", "denied", "error", "discarded"},
           i = j \/ (isOrdered(i) /\ isOrdered(j) /\ messages[j].prog = messages[i].prog + 1),
           accepted' = accepted \ {i, j},
           outcome' = [k \in Calls |-> IF k \in {i, j} THEN event ELSE outcome[k]],
           Notify(i, j, event),
           UNCHANGED <<client, channel, network, late, arrived, lastProg>>
    PROVE  IInv'
<1>1. UNCHANGED <<messages, nextCall, sequenceMap, told, flight, replies, ctrl>>
  BY DEF client, network
<1>2. i \in Calls /\ j \in Calls
  BY DEF IInv, TypeOK
<1>3. \A k \in Calls : /\ HasArrived(k)' <=> HasArrived(k)
                       /\ Current(k)' => Current(k)
  BY <1>1 DEF HasArrived, Carries, Current
<1>4. InOrder' /\ NotLost' /\ CountersAgree' /\ MessagesUnderWay'
  BY <1>1, <1>3 DEF IInv, InOrder, NotLost, CountersAgree, MessagesUnderWay, HasArrived,
                    Carries, isOrdered, Aborted
<1>5. MessagesAgree'
  BY <1>1, <1>3 DEF IInv, MessagesAgree, WellFormed, NumbersAgree, Places, Numbered, SameSequence
<1>6. NoGaps(flight)' /\ NoGaps(late)'
  BY <1>1, <1>3, GapsKept
<1>7. told[i] = <<>> /\ told[j] = <<>>
  BY <1>2 DEF IInv, MessagesAgree, Places
<1>8. OutcomeIsTrue'
  <2> SUFFICES ASSUME NEW k \in Calls
               PROVE  /\ Len(told[k]) <= 1
                      /\ told[k] \in {<<"processed">>, <<"denied">>, <<"discarded">>}
                            => told[k] = <<outcome'[k]>>
                      /\ told[k] = <<"error">> => outcome'[k] \in {"error", "refused"}
    BY <1>1 DEF OutcomeIsTrue
  <2>1. CASE k \notin {i, j}
    BY <2>1 DEF IInv, OutcomeIsTrue
  <2>2. CASE k \in {i, j}
    <3>1. \A e : <<>> # <<e>>
      OBVIOUS
    <3>2. told[k] = <<>>
      BY <1>7, <2>2
    <3> QED
      BY <3>1, <3>2
  <2> QED
    BY <2>1, <2>2
<1>9. RepliesAgree'
  <2>1. \A reply \in replies : reply.call \in Calls
    BY Types DEF IInv
  <2> QED
    BY <1>1, <1>3, <2>1 DEF IInv, RepliesAgree
<1>10. \A p \in DOMAIN stream :
          /\ stream[p].event # "abort"
          /\ stream[p].prog <= lastProg'[stream[p].sequence]
          /\ \A k \in Calls : isConcerned(messages'[k], stream[p]) =>
                outcome'[k] = stream[p].event /\ k \notin accepted'
  BY <1>1 DEF IInv, StreamAgrees
<1>11. StreamAgrees'
  <2>1. CASE ~(hasListener(messages[i].kind) \/ hasListener(messages[j].kind))
    BY <1>10, <2>1 DEF Notify, StreamAgrees
  <2>2. CASE hasListener(messages[i].kind) \/ hasListener(messages[j].kind)
    <3>1. PICK result :
            result = [sequence |-> sequence(messages[j].kind), prog |-> messages[j].prog,
                      count |-> messages[j].prog - messages[i].prog + 1, event |-> event]
      OBVIOUS
    <3>2. stream' = Append(stream, result)
      BY <2>2, <3>1 DEF Notify
    <3>3. /\ DOMAIN stream' = DOMAIN stream \cup {Len(stream) + 1}
          /\ stream'[Len(stream) + 1] = result
          /\ \A p \in DOMAIN stream : stream'[p] = stream[p]
      <4>1. PICK Results : stream \in Seq(Results)
        BY DEF IInv, TypeOK
      <4> QED
        BY <3>2, <4>1
    <3>4. Numbered(i) /\ Numbered(j) /\ SameSequence(i, j) /\ Current(i) /\ Current(j)
      BY <2>2 DEF Numbered, SameSequence, Current, isOrdered, sequence, hasListener,
                  isFireAndForget, Unordered
    <3>5. HasArrived(j)
      BY <1>2 DEF IInv, MessagesAgree, Places
    <3>6. messages[j].prog <= lastProg[sequence(messages[j].kind)]
      BY <1>2, <3>4, <3>5 DEF IInv, MessagesAgree, NumbersAgree
    <3>7. ASSUME NEW k \in Calls, isConcerned(messages[k], result)
          PROVE  k \in {i, j}
      <4>1. /\ messages[k].prog \in Nat /\ messages[i].prog \in Nat /\ messages[j].prog \in Nat
            /\ i \in Nat /\ j \in Nat /\ k \in Nat
        BY <1>2, Types DEF IInv
      <4>2. messages[k].prog \in messages[i].prog..messages[j].prog
        BY <3>1, <3>7, <4>1 DEF isConcerned
      <4>3. messages[k].prog = messages[i].prog \/ messages[k].prog = messages[j].prog
        BY <4>1, <4>2
      <4>4. Current(k) /\ WellFormed(k)
        BY <3>7 DEF Current, Exists, isConcerned, IInv, MessagesAgree
      <4>5. Numbered(k)
        BY <3>7, <4>4 DEF WellFormed, isConcerned, Numbered, hasListener, isFireAndForget
      <4>6. SameSequence(k, j) /\ SameSequence(j, k) /\ SameSequence(k, i) /\ SameSequence(i, k)
        BY <3>1, <3>4, <3>7 DEF isConcerned, SameSequence
      <4>7. \A a, b \in Calls :
               a < b /\ Current(a) /\ Numbered(a) /\ Current(b) /\ Numbered(b) /\ SameSequence(a, b)
                  => messages[a].prog < messages[b].prog
        BY DEF IInv, MessagesAgree, NumbersAgree
      <4>8. messages[k].prog = messages[i].prog => k = i
        BY <1>2, <3>4, <4>1, <4>4, <4>5, <4>6, <4>7
      <4>9. messages[k].prog = messages[j].prog => k = j
        BY <1>2, <3>4, <4>1, <4>4, <4>5, <4>6, <4>7
      <4> QED
        BY <4>3, <4>8, <4>9
    <3>8. /\ result.event # "abort" /\ result.prog <= lastProg'[result.sequence]
          /\ \A k \in Calls : isConcerned(messages'[k], result) =>
                outcome'[k] = result.event /\ k \notin accepted'
      BY <1>1, <3>1, <3>6, <3>7
    <3> QED
      BY <1>10, <3>3, <3>8 DEF StreamAgrees
  <2> QED
    BY <2>1, <2>2
<1> QED
  BY <1>4, <1>5, <1>6, <1>8, <1>9, <1>11 DEF IInv

-----------------------------------------------------------------------------
(* The end of a session leaves nothing current.                            *)
LEMMA EndSessionInv ==
    ASSUME IInv, TypeOK', EndSession
    PROVE  IInv'
<1>1. /\ flight' = <<>> /\ late' = <<>> /\ replies' = {} /\ stream' = <<>> /\ accepted' = {}
      /\ channel' = "none" /\ UNCHANGED <<nextCall, arrived, outcome>>
      /\ sequenceMap' = [s \in SequenceNames |-> 1] /\ lastProg' = [s \in SequenceNames |-> 0]
  BY DEF EndSession, resetSequenceMap
<1>2. ASSUME NEW i \in Calls
      PROVE  /\ messages'[i].kind = messages[i].kind /\ messages'[i].prog = messages[i].prog
             /\ messages'[i].m = evtAbort(messages[i])
             /\ told'[i] = IF messages[i].m \in {11, 12} THEN Append(told[i], "abort") ELSE told[i]
  BY DEF EndSession, genAbortMessages, IInv, TypeOK
<1>3. ASSUME NEW i \in Calls
      PROVE  \/ messages[i].m \in {11, 12} /\ messages'[i].m = 15
             \/ messages[i].m = 21 /\ messages'[i].m = 24
             \/ messages[i].m = 31 /\ messages'[i].m = 35
             \/ messages[i].m \notin {11, 12, 21, 31} /\ messages'[i].m = messages[i].m
  BY <1>2 DEF evtAbort
<1>4. ASSUME NEW i \in Calls
      PROVE  /\ ~Current(i)' /\ ~isPending(messages'[i])
             /\ Numbered(i)' <=> Numbered(i)
             /\ isOrdered(i)' <=> isOrdered(i)
             /\ HasArrived(i)' <=> HasArrived(i)
             /\ Aborted(i) => Aborted(i)'
  <2>1. ~Exists(messages'[i]) /\ ~isPending(messages'[i])
    BY <1>3 DEF Exists, isPending
  <2>2. ~Current(i)'
    BY <1>1, <2>1, EmptyCarries DEF Current
  <2>3. (Numbered(i)' <=> Numbered(i)) /\ (isOrdered(i)' <=> isOrdered(i))
    BY <1>2 DEF Numbered, isOrdered
  <2>4. HasArrived(i)' <=> HasArrived(i)
    BY <1>1 DEF HasArrived, Carries
  <2>5. Aborted(i) => Aborted(i)'
    BY <1>3 DEF Aborted
  <2> QED
    BY <2>1, <2>2, <2>3, <2>4, <2>5
<1>5. InOrder'
  <2>1. \A k \in DOMAIN arrived : arrived[k] \in Calls
    BY Types, Elements DEF IInv
  <2> QED
    BY <1>1, <1>2, <1>4, <2>1 DEF IInv, InOrder
<1>6. NotLost'
  BY <1>3, <1>4 DEF IInv, NotLost
<1>7. \A i \in Calls : WellFormed(i) /\ Places(i)
  BY DEF IInv, MessagesAgree
<1>8. OutcomeIsTrue'
  <2> SUFFICES ASSUME NEW i \in Calls
               PROVE  /\ Len(told'[i]) <= 1
                      /\ told'[i] \in {<<"processed">>, <<"denied">>, <<"discarded">>}
                            => told'[i] = <<outcome'[i]>>
                      /\ told'[i] = <<"error">> => outcome'[i] \in {"error", "refused"}
    BY DEF OutcomeIsTrue
  <2>1. CASE messages[i].m \in {11, 12}
    <3>1. told[i] = <<>>
      BY <1>7, <2>1 DEF WellFormed
    <3>2. told'[i] = <<"abort">>
      <4>1. told'[i] = Append(<<>>, "abort")
        BY <1>2, <2>1, <3>1
      <4> QED
        BY <4>1, AppendOne
    <3> QED
      BY <3>2
  <2>2. CASE messages[i].m \notin {11, 12}
    BY <1>1, <1>2, <2>2 DEF IInv, OutcomeIsTrue
  <2> QED
    BY <2>1, <2>2
<1>9. MessagesAgree'
  <2> SUFFICES ASSUME NEW i \in Calls
               PROVE  WellFormed(i)' /\ NumbersAgree(i)' /\ Places(i)'
    BY DEF MessagesAgree
  <2>1. WellFormed(i)'
    <3>1. messages'[i].m = 1 <=> messages[i].m = 1
      BY <1>3
    <3>2. told'[i] # <<>> => messages'[i].m \in {13, 14, 15}
      BY <1>2, <1>3, <1>7 DEF WellFormed
    <3> QED
      BY <1>1, <1>2, <1>3, <1>4, <1>7, <3>1, <3>2 DEF WellFormed
  <2>2. NumbersAgree(i)'
    BY <1>4 DEF NumbersAgree
  <2>3. Places(i)'
    BY <1>1, <1>4, <1>7 DEF Places
  <2> QED
    BY <2>1, <2>2, <2>3
<1>10. NoGaps(flight)' /\ NoGaps(late)'
  BY <1>1 DEF NoGaps
<1>11. RepliesAgree' /\ StreamAgrees' /\ MessagesUnderWay'
  BY <1>1 DEF RepliesAgree, StreamAgrees, MessagesUnderWay
<1>12. CountersAgree'
  BY <1>1, Types DEF CountersAgree, IInv
<1> QED
  BY <1>5, <1>6, <1>8, <1>9, <1>10, <1>11, <1>12 DEF IInv

-----------------------------------------------------------------------------
(* The calls of sendMessage. *)

(* The call i is new: nothing is known of it anywhere, and the others stay *)
(* as they are.                                                            *)
NewCall(i) ==
    /\ i \in Calls /\ i = nextCall + 1 /\ nextCall' = i
    /\ UNCHANGED <<session, channel, late, replies, stream, server, losses>>
    /\ \A j \in Calls : j # i => messages'[j] = messages[j] /\ told'[j] = told[j]

LEMMA NewCallIsUnknown ==
    ASSUME IInv, NEW i, NewCall(i)
    PROVE  /\ ~Current(i) /\ ~HasArrived(i) /\ ~HasArrived(i)'
           /\ told[i] = <<>>
           /\ \A reply \in replies : reply.call # i
           /\ \A j \in Calls : /\ HasArrived(j)' <=> HasArrived(j)
                               /\ i < j => messages[j].kind = "fire_and_forget" /\ ~Current(j)
                               /\ Current(j) => j < i
<1>1. i \in Calls /\ i > nextCall /\ i \in Nat /\ nextCall \in Nat /\ \A j \in Calls : j \in Nat
  BY Types DEF NewCall, IInv
<1>2. ASSUME NEW j \in Calls
      PROVE  /\ WellFormed(j) /\ Places(j)
             /\ HasArrived(j)' <=> HasArrived(j)
  BY DEF IInv, MessagesAgree, NewCall, server, HasArrived, Carries
<1>3. ASSUME NEW j \in Calls, j > nextCall
      PROVE  /\ messages[j].m = 1 /\ messages[j].kind = "fire_and_forget"
             /\ ~Current(j) /\ ~HasArrived(j) /\ told[j] = <<>>
  <2>1. messages[j].m = 1 /\ messages[j].kind = "fire_and_forget"
    BY <1>2, <1>3 DEF WellFormed
  <2>2. told[j] = <<>>
    BY <1>2, <2>1 DEF WellFormed
  <2>3. ~Current(j) /\ ~HasArrived(j)
    BY <1>1, <1>2, <1>3, <2>1 DEF Places
  <2> QED
    BY <2>1, <2>2, <2>3
<1>4. \A reply \in replies : reply.call # i
  BY <1>1, <1>3 DEF IInv, RepliesAgree
<1>5. ASSUME NEW j \in Calls
      PROVE  /\ i < j => messages[j].kind = "fire_and_forget" /\ ~Current(j)
             /\ Current(j) => j < i
  <2>1. j > nextCall => messages[j].kind = "fire_and_forget" /\ ~Current(j)
    BY <1>3
  <2>2. i < j => j > nextCall
    BY <1>1
  <2>3. ~(j > nextCall) => j < i
    BY <1>1
  <2> QED
    BY <2>1, <2>2, <2>3
<1> QED
  BY <1>1, <1>2, <1>3, <1>4, <1>5

(* What a connection carried it still carries without gaps.                *)
LEMMA OldGaps ==
    ASSUME IInv, NEW i, NewCall(i), NEW p \in DOMAIN flight, NEW x, x = flight[p],
           NEW j \in Calls, j < x, isPending(messages'[j]),
           Numbered(j)', Numbered(x)', SameSequence(j, x)'
    PROVE  HasArrived(j)' \/ \E q \in 1..(p - 1) : flight[q] = j
<1>1. x \in Calls /\ Current(x)
  BY Types, Elements DEF IInv, Current, Carries
<1>2. x < i /\ \A k \in Calls : k \in Nat
  BY <1>1, NewCallIsUnknown, Types DEF IInv
<1>3. i \in Calls
  BY DEF NewCall
<1>4. x # i /\ j # i
  BY <1>1, <1>2, <1>3
<1>5. messages'[x] = messages[x] /\ messages'[j] = messages[j]
  BY <1>1, <1>4 DEF NewCall
<1>6. isPending(messages[j]) /\ Numbered(j) /\ Numbered(x) /\ SameSequence(j, x)
  BY <1>5 DEF SameSequence, Numbered
<1>7. HasArrived(j) => HasArrived(j)'
  BY NewCallIsUnknown
<1>8. NoGaps(flight)
  BY DEF IInv
<1> QED
  BY <1>6, <1>7, <1>8 DEF NoGaps

(* The message that the call makes: aborted on the spot, or numbered after *)
(* the others and perhaps sent.                                            *)
Enters(i) ==
    /\ messages'[i].m \in {11, 15, 21, 31, 32}
    /\ messages'[i].m = 11 => hasListener(messages'[i].kind)
    /\ messages'[i].m = 21 => Numbered(i)'
    /\ messages'[i].m \in {31, 32} => ~Numbered(i)'
    /\ channel = "ws" => messages'[i].m # 31
    /\ \/ told'[i] = <<>>
       \/ told'[i] = <<"abort">> /\ messages'[i].m = 15
    /\ \A j \in Calls : Carries(flight', j) =>
          Current(j) \/ (j = i /\ messages'[i].m # 15)
    /\ \A s \in SequenceNames : sequenceMap'[s] \in {sequenceMap[s], sequenceMap[s] + 1}
    /\ Numbered(i)' /\ messages'[i].m # 15 =>
          LET s == sequence(messages'[i].kind)
          IN messages'[i].prog = sequenceMap[s] /\ sequenceMap'[s] = sequenceMap[s] + 1

(* What follows for the messages that were there before, whatever becomes  *)
(* of the new one.                                                         *)
LEMMA NewCallInv ==
    ASSUME IInv, TypeOK', NEW i, NewCall(i), Enters(i), NoGaps(flight)', MessagesUnderWay'
    PROVE  IInv'
<1>1. /\ i \in Calls /\ i = nextCall + 1 /\ nextCall' = i /\ nextCall \in Nat
      /\ \A j \in Calls : j \in Nat
      /\ UNCHANGED <<channel, late, replies, stream, arrived, accepted, outcome, lastProg>>
      /\ \A j \in Calls : j # i => messages'[j] = messages[j] /\ told'[j] = told[j]
  BY Types DEF NewCall, server, IInv
<1>15. /\ messages'[i].m \in {11, 15, 21, 31, 32}
       /\ messages'[i].m = 11 => hasListener(messages'[i].kind)
       /\ messages'[i].m = 21 => Numbered(i)'
       /\ messages'[i].m \in {31, 32} => ~Numbered(i)'
       /\ channel = "ws" => messages'[i].m # 31
  BY DEF Enters
<1>16. \/ told'[i] = <<>>
       \/ told'[i] = <<"abort">> /\ messages'[i].m = 15
  BY DEF Enters
<1>17. \A j \in Calls : Carries(flight', j) => Current(j) \/ (j = i /\ messages'[i].m # 15)
  BY DEF Enters
<1>18. \A s \in SequenceNames : sequenceMap'[s] \in {sequenceMap[s], sequenceMap[s] + 1}
  BY DEF Enters
<1>19. Numbered(i)' /\ messages'[i].m # 15 =>
        /\ messages'[i].prog = sequenceMap[sequence(messages'[i].kind)]
        /\ sequenceMap'[sequence(messages'[i].kind)] = sequenceMap[sequence(messages'[i].kind)] + 1
  BY DEF Enters
<1>2. /\ ~Current(i) /\ ~HasArrived(i) /\ ~HasArrived(i)'
      /\ \A reply \in replies : reply.call # i
      /\ \A j \in Calls : /\ HasArrived(j)' <=> HasArrived(j)
                          /\ i < j => messages[j].kind = "fire_and_forget" /\ ~Current(j)
                          /\ Current(j) => j < i
  BY NewCallIsUnknown
<1>3. ASSUME NEW j \in Calls, j # i
      PROVE  /\ messages'[j] = messages[j]
             /\ Numbered(j)' <=> Numbered(j)
             /\ isOrdered(j)' <=> isOrdered(j)
             /\ Aborted(j)' <=> Aborted(j)
             /\ Current(j)' => Current(j)
  <2>1. messages'[j] = messages[j]
    BY <1>1, <1>3
  <2>2. Current(j)' => Current(j)
    BY <1>1, <1>3, <1>17, <2>1 DEF Current
  <2> QED
    BY <2>1, <2>2 DEF Numbered, isOrdered, Aborted
<1>4. Current(i)' => messages'[i].m # 15
  BY <1>1, <1>2, <1>17 DEF Current, Exists
<1>5. \A k \in DOMAIN arrived : arrived[k] \in Calls /\ HasArrived(arrived[k]) /\ arrived[k] # i
  BY <1>2, Types, Elements DEF IInv, HasArrived, Carries
<1>6. InOrder'
  <2>1. \A k, n \in DOMAIN arrived' : k < n =>
          /\ isOrdered(arrived[k])' /\ isOrdered(arrived[n])' => arrived'[k] < arrived'[n]
          /\ ~isFireAndForget(messages'[arrived'[k]].kind) => arrived'[k] # arrived'[n]
    <3>1. \A k \in DOMAIN arrived : /\ isOrdered(arrived[k])' <=> isOrdered(arrived[k])
                                    /\ messages'[arrived'[k]] = messages[arrived[k]]
      BY <1>1, <1>5 DEF isOrdered
    <3> QED
      BY <1>1, <3>1 DEF IInv, InOrder
  <2>2. ASSUME NEW j \in Calls, NEW k \in Calls, j < k, isOrdered(j)', isOrdered(k)', HasArrived(k)'
        PROVE  HasArrived(j)' \/ Aborted(j)'
    <3>1. k # i /\ HasArrived(k)
      BY <1>2, <2>2
    <3>2. isOrdered(k)
      BY <1>3, <2>2, <3>1
    <3>3. ~(i < k)
      BY <1>2, <3>2 DEF isOrdered, sequence, Unordered
    <3>4. j # i
      BY <2>2, <3>3
    <3> QED
      BY <1>2, <1>3, <2>2, <3>1, <3>2, <3>4 DEF IInv, InOrder
  <2> QED
    BY <2>1, <2>2 DEF InOrder
<1>7. NotLost'
  <2> SUFFICES ASSUME NEW j \in Calls, messages'[j].m \in {12, 13, 14, 22, 23, 33, 34}
               PROVE  HasArrived(j)'
    BY DEF NotLost
  <2>1. j # i
    BY <1>15
  <2>2. messages'[j] = messages[j]
    BY <1>1, <2>1
  <2> QED
    BY <1>2, <2>2 DEF IInv, NotLost
<1>8. OutcomeIsTrue'
  <2> SUFFICES ASSUME NEW j \in Calls
               PROVE  /\ Len(told'[j]) <= 1
                      /\ told'[j] \in {<<"processed">>, <<"denied">>, <<"discarded">>}
                            => told'[j] = <<outcome'[j]>>
                      /\ told'[j] = <<"error">> => outcome'[j] \in {"error", "refused"}
    BY DEF OutcomeIsTrue
  <2>1. CASE j # i
    BY <1>1, <2>1 DEF IInv, OutcomeIsTrue
  <2>2. CASE j = i /\ told'[j] = <<>>
    <3>1. \A e : <<>> # <<e>>
      OBVIOUS
    <3> QED
      BY <2>2, <3>1
  <2>3. CASE j = i /\ told'[j] = <<"abort">>
    BY <2>3
  <2> QED
    BY <1>16, <2>1, <2>2, <2>3
<1>9. \A s \in SequenceNames : lastProg[s] < sequenceMap[s] /\ sequenceMap[s] <= sequenceMap'[s]
                               /\ sequenceMap'[s] <= nextCall' + 1
                               /\ sequenceMap'[s] \in Nat
  <2> SUFFICES ASSUME NEW s \in SequenceNames
               PROVE  /\ lastProg[s] < sequenceMap[s] /\ sequenceMap[s] <= sequenceMap'[s]
                      /\ sequenceMap'[s] <= nextCall' + 1
                      /\ sequenceMap'[s] \in Nat
    OBVIOUS
  <2>1. /\ lastProg[s] < sequenceMap[s] /\ sequenceMap[s] <= nextCall + 1
        /\ sequenceMap[s] \in Nat
    BY Types DEF IInv, CountersAgree
  <2>2. sequenceMap'[s] \in {sequenceMap[s], sequenceMap[s] + 1} /\ nextCall' = nextCall + 1
    BY <1>1, <1>18
  <2> QED
    BY <1>1, <2>1, <2>2
<1>10. MessagesAgree'
  <2> SUFFICES ASSUME NEW j \in Calls
               PROVE  WellFormed(j)' /\ NumbersAgree(j)' /\ Places(j)'
    BY DEF MessagesAgree
  <2>1. WellFormed(j) /\ NumbersAgree(j) /\ Places(j)
    BY DEF IInv, MessagesAgree
  <2>2. WellFormed(j)'
    <3>1. CASE j = i
      <4>1. ~(j > nextCall') /\ messages'[j].m # 1
        BY <1>1, <1>15, <3>1
      <4>2. told'[j] # <<>> => messages'[j].m \in {13, 14, 15}
        BY <1>16, <3>1
      <4> QED
        BY <1>15, <3>1, <4>1, <4>2 DEF WellFormed, Numbered
    <3>2. CASE j # i
      <4>1. j > nextCall <=> j > nextCall'
        BY <1>1, <3>2
      <4> QED
        BY <1>1, <1>3, <2>1, <3>2, <4>1 DEF WellFormed
    <3> QED
      BY <3>1, <3>2
  <2>3. Places(j)'
    <3>1. CASE j = i
      <4>1. j \notin accepted'
        BY <1>1, <1>2, <3>1 DEF Current
      <4>2. Current(j)' => messages'[j].m \notin {1, 15, 24, 35}
        BY <1>4, <1>15, <3>1 DEF Current
      <4>3. HasArrived(j)' => j <= nextCall'
        BY <1>1, <3>1
      <4> QED
        BY <4>1, <4>2, <4>3 DEF Places
    <3>2. CASE j # i
      <4>1. messages'[j] = messages[j] /\ told'[j] = told[j] /\ accepted' = accepted
        BY <1>1, <3>2
      <4>2. (Current(j)' => Current(j)) /\ (HasArrived(j)' <=> HasArrived(j))
        BY <1>2, <1>3, <3>2
      <4>3. j <= nextCall => j <= nextCall'
        <5>1. j \in Nat /\ nextCall \in Nat /\ nextCall' = nextCall + 1
          BY <1>1
        <5> QED
          BY <5>1
      <4> QED
        BY <2>1, <4>1, <4>2, <4>3 DEF Places
    <3> QED
      BY <3>1, <3>2
  <2>4. NumbersAgree(j)'
    <3> SUFFICES ASSUME Current(j)', Numbered(j)'
                 PROVE  /\ messages'[j].prog < sequenceMap'[sequence(messages'[j].kind)]
                        /\ messages'[j].prog <= lastProg'[sequence(messages'[j].kind)] <=> HasArrived(j)'
                        /\ \A k \in Calls : j < k /\ Current(k)' /\ Numbered(k)' /\ SameSequence(j, k)'
                              => messages'[j].prog < messages'[k].prog
      BY DEF NumbersAgree
    <3>1. CASE j = i
      <4>1. sequence(messages'[i].kind) \in SequenceNames
        BY DEF sequence, SequenceNames
      <4>2. /\ messages'[i].prog = sequenceMap[sequence(messages'[i].kind)]
            /\ sequenceMap'[sequence(messages'[i].kind)] = sequenceMap[sequence(messages'[i].kind)] + 1
        BY <1>4, <1>19, <3>1 DEF Numbered, Current
      <4>3. ASSUME NEW k \in Calls, i < k
            PROVE  ~Current(k)'
        <5>1. k # i
          BY <1>1, <4>3
        <5> QED
          BY <1>2, <1>3, <4>3, <5>1
      <4> QED
        BY <1>1, <1>2, <1>9, <3>1, <4>1, <4>2, <4>3, Types DEF IInv
    <3>2. CASE j # i
      <4>1. Current(j) /\ Numbered(j) /\ messages'[j] = messages[j] /\ j < i
        BY <1>2, <1>3, <3>2
      <4>2. /\ messages[j].prog < sequenceMap[sequence(messages[j].kind)]
            /\ messages[j].prog <= lastProg[sequence(messages[j].kind)] <=> HasArrived(j)
            /\ sequence(messages[j].kind) \in SequenceNames /\ messages[j].prog \in Nat
        BY <2>1, <4>1, Types DEF NumbersAgree, IInv
      <4>3. ASSUME NEW k \in Calls, j < k, Current(k)', Numbered(k)', SameSequence(j, k)'
            PROVE  messages'[j].prog < messages'[k].prog
        <5>1. CASE k = i
          <6>1. messages'[i].prog = sequenceMap[sequence(messages'[i].kind)]
            BY <1>4, <1>19, <4>3, <5>1 DEF Numbered, Current
          <6>2. sequence(messages'[i].kind) = sequence(messages[j].kind)
            BY <4>1, <4>3, <5>1 DEF SameSequence
          <6> QED
            BY <4>1, <4>2, <5>1, <6>1, <6>2
        <5>2. CASE k # i
          <6>1. Current(k) /\ Numbered(k) /\ messages'[k] = messages[k] /\ SameSequence(j, k)
            BY <1>3, <4>1, <4>3, <5>2 DEF SameSequence
          <6> QED
            BY <2>1, <4>1, <4>3, <6>1 DEF NumbersAgree
        <5> QED
          BY <5>1, <5>2
      <4>4. messages[j].prog < sequenceMap'[sequence(messages[j].kind)]
        BY <1>9, <4>2, Types DEF IInv
      <4> QED
        BY <1>1, <1>2, <4>1, <4>2, <4>3, <4>4
    <3> QED
      BY <3>1, <3>2
  <2> QED
    BY <2>2, <2>3, <2>4
<1>11. NoGaps(late)'
  <2> SUFFICES ASSUME NEW p \in DOMAIN late, NEW j \in Calls,
                      j < late[p], isPending(messages'[j]), Numbered(j)', Numbered(late[p])',
                      SameSequence(j, late[p])'
               PROVE  HasArrived(j)' \/ \E q \in 1..(p - 1) : late[q] = j
    BY <1>1 DEF NoGaps
  <2>1. late[p] \in Calls /\ Current(late[p])
    BY Types, Elements DEF IInv, Current, Carries
  <2>2. late[p] < i /\ late[p] # i /\ j # i
    BY <1>1, <1>2, <2>1
  <2>3. /\ isPending(messages[j]) /\ Numbered(j) /\ Numbered(late[p]) /\ SameSequence(j, late[p])
    BY <1>1, <1>3, <2>1, <2>2 DEF SameSequence
  <2>4. NoGaps(late)
    BY DEF IInv
  <2> QED
    BY <1>2, <2>3, <2>4 DEF NoGaps
<1>12. RepliesAgree'
  <2> SUFFICES ASSUME NEW reply \in replies
               PROVE  /\ HasArrived(reply.call)'
                      /\ reply.code = "refused" /\ messages'[reply.call].m = 11 =>
                            outcome'[reply.call] = "refused" /\ reply.call \notin accepted'
    BY <1>1 DEF RepliesAgree
  <2>1. reply.call \in Calls /\ reply.call # i
    BY <1>2, Types DEF IInv
  <2> QED
    BY <1>1, <1>2, <2>1 DEF IInv, RepliesAgree
<1>13. StreamAgrees'
  <2> SUFFICES ASSUME NEW p \in DOMAIN stream
               PROVE  /\ stream[p].event # "abort"
                      /\ stream[p].prog <= lastProg[stream[p].sequence]
                      /\ \A j \in Calls : isConcerned(messages'[j], stream[p]) =>
                            outcome[j] = stream[p].event /\ j \notin accepted
    BY <1>1 DEF StreamAgrees
  <2>1. /\ stream[p].event # "abort"
        /\ stream[p].prog <= lastProg[stream[p].sequence]
        /\ \A j \in Calls : isConcerned(messages[j], stream[p]) =>
              outcome[j] = stream[p].event /\ j \notin accepted
    BY DEF IInv, StreamAgrees
  <2>2. ~isConcerned(messages'[i], stream[p])
    <3> SUFFICES ASSUME isConcerned(messages'[i], stream[p])
                 PROVE  FALSE
      OBVIOUS
    <3>1. messages'[i].m = 11 /\ sequence(messages'[i].kind) = stream[p].sequence
      BY <1>15 DEF isConcerned
    <3>2. Numbered(i)'
      BY <1>15, <3>1 DEF Numbered, hasListener, isFireAndForget
    <3>3. /\ stream[p].sequence \in SequenceNames /\ stream[p].prog \in Nat
          /\ stream[p].count \in {1, 2} /\ sequenceMap[stream[p].sequence] \in Nat
          /\ lastProg[stream[p].sequence] \in Nat
      BY Types DEF IInv
    <3>4. messages'[i].prog = sequenceMap[stream[p].sequence]
      BY <1>19, <3>1, <3>2
    <3>5. messages'[i].prog <= stream[p].prog
      BY <3>3, <3>4 DEF isConcerned
    <3> QED
      BY <1>9, <2>1, <3>3, <3>4, <3>5
  <2> QED
    BY <1>1, <2>1, <2>2
<1>14. CountersAgree'
  <2>1. channel' = "ws" => \A j \in Calls : messages'[j].m # 31
    BY <1>1, <1>15 DEF IInv, CountersAgree
  <2>2. \A s \in SequenceNames : lastProg'[s] < sequenceMap'[s]
    BY <1>1, <1>9, Types DEF IInv
  <2> QED
    BY <1>9, <2>1, <2>2 DEF CountersAgree
<1> QED
  BY <1>6, <1>7, <1>8, <1>10, <1>11, <1>12, <1>13, <1>14 DEF IInv

LEMMA SendMessageInv ==
    ASSUME IInv, TypeOK', sendMessage
    PROVE  IInv'
<1>1. PICK i : i = nextCall + 1
  OBVIOUS
<1>2. i \in Calls /\ nextCall' = i
  BY <1>1, MessageBounds DEF sendMessage, IInv, TypeOK, Calls
<1>3. PICK kind \in Kinds, enqueueWhileDisconnected \in BOOLEAN :
        \/ /\ messages' = [messages EXCEPT ![i] = [kind |-> kind, prog |-> 0, m |-> 15]]
           /\ told' = [told EXCEPT ![i] = IF hasListener(kind) THEN Append(@, "abort") ELSE @]
           /\ UNCHANGED <<sequenceMap, flight, ctrl>>
        \/ /\ sequenceMap' = getAndSetNextMsgProg(kind)
           /\ evtSendMessage(i, NewMessage(kind))
           /\ UNCHANGED told
  BY <1>2 DEF sendMessage
<1>4. kind \in {"ordered", "ordered_silent", "unordered", "fire_and_forget"}
  BY KindAssumption
<1>5. IInv /\ TypeOK /\ MessagesUnderWay /\ NoGaps(flight)
  BY DEF IInv
<1>6. CASE /\ messages' = [messages EXCEPT ![i] = [kind |-> kind, prog |-> 0, m |-> 15]]
           /\ told' = [told EXCEPT ![i] = IF hasListener(kind) THEN Append(@, "abort") ELSE @]
           /\ UNCHANGED <<sequenceMap, flight, ctrl>>
  <2>1. /\ messages'[i].m = 15
        /\ \A j \in Calls : j # i => messages'[j] = messages[j] /\ told'[j] = told[j]
    BY <1>2, <1>6 DEF IInv, TypeOK
  <2>2. NewCall(i)
    BY <1>1, <1>2, <2>1 DEF NewCall, sendMessage
  <2>3. told[i] = <<>>
    BY <2>2, NewCallIsUnknown
  <2>4. told'[i] = <<>> \/ told'[i] = <<"abort">>
    <3>1. told'[i] = IF hasListener(kind) THEN Append(told[i], "abort") ELSE told[i]
      BY <1>2, <1>6 DEF IInv, TypeOK
    <3> QED
      BY <2>3, <3>1, AppendOne
  <2>5. \A j \in Calls : Carries(flight', j) => Current(j)
    BY <1>6 DEF Current
  <2>6. \A j \in Calls : isPending(messages'[j]) => j # i /\ messages'[j] = messages[j]
    BY <2>1 DEF isPending
  <2>7. MessagesUnderWay'
    <3>1. UNCHANGED <<channel, replies, flight, ctrl>>
      BY <1>6 DEF sendMessage
    <3> QED
      BY <1>5, <2>6, <3>1 DEF MessagesUnderWay, PendingMessages
  <2>8. NoGaps(flight)'
    BY <1>6, <2>2, OldGaps DEF NoGaps, Numbered, SameSequence
  <2>9. \A s \in SequenceNames : sequenceMap'[s] \in {sequenceMap[s], sequenceMap[s] + 1}
    BY <1>6
  <2> QED
    BY <2>1, <2>2, <2>4, <2>5, <2>7, <2>8, <2>9, NewCallInv DEF Enters
<1>7. CASE /\ sequenceMap' = getAndSetNextMsgProg(kind)
           /\ evtSendMessage(i, NewMessage(kind))
           /\ UNCHANGED told
  <2>1. PICK new : new = NewMessage(kind)
    OBVIOUS
  <2>2. PICK added : added = [messages EXCEPT ![i] = new]
    OBVIOUS
  <2>3. \/ /\ channel = "ws"
           /\ flight' = Append(flight, i)
           /\ messages' = [added EXCEPT ![i] = evtWSSent(new)]
           /\ UNCHANGED ctrl
        \/ /\ channel = "http" /\ ctrl = "idle"
           /\ messages' = added
           /\ sendPendingMessagesHTTP(added)
        \/ /\ channel = "none" \/ (channel = "http" /\ ctrl # "idle")
           /\ messages' = added
           /\ UNCHANGED <<flight, ctrl>>
    BY <1>7, <2>1, <2>2 DEF evtSendMessage
  <2>4. /\ new.kind = kind
        /\ kind # "fire_and_forget" => new.prog = sequenceMap[sequence(kind)]
        /\ \/ new.m = 11 /\ hasListener(kind) /\ kind # "fire_and_forget"
           \/ new.m = 21 /\ kind # "fire_and_forget"
           \/ new.m = 31 /\ kind = "fire_and_forget"
    BY <1>4, <2>1 DEF NewMessage, hasListener, isFireAndForget
  <2>5. /\ evtWSSent(new).kind = kind /\ evtWSSent(new).prog = new.prog
        /\ evtWSSent(new).m = IF new.m = 31 THEN 32 ELSE new.m
    BY <2>1, <2>4 DEF evtWSSent, NewMessage
  <2>6. /\ \A j \in Calls : j # i => messages'[j] = messages[j]
        /\ messages'[i].kind = kind /\ messages'[i].prog = new.prog
        /\ messages'[i].m = IF channel = "ws" /\ new.m = 31 THEN 32 ELSE new.m
    BY <1>2, <2>2, <2>3, <2>4, <2>5 DEF IInv, TypeOK
  <2>7. NewCall(i)
    BY <1>1, <1>2, <1>7, <2>6 DEF NewCall, sendMessage
  <2>8. /\ told'[i] = <<>>
        /\ UNCHANGED <<channel, replies, arrived>>
    BY <1>7, <2>7, NewCallIsUnknown DEF NewCall, server
  <2>9. Numbered(i)' <=> kind # "fire_and_forget"
    BY <2>6 DEF Numbered, isFireAndForget
  <2>10. \A j \in Calls : j # i =>
           /\ isPending(messages'[j]) <=> isPending(messages[j])
           /\ Numbered(j)' <=> Numbered(j)
    BY <2>6 DEF Numbered
  <2>11. \A s \in SequenceNames : sequenceMap'[s] \in {sequenceMap[s], sequenceMap[s] + 1}
    BY <1>7 DEF getAndSetNextMsgProg, IInv, TypeOK
  <2>12. kind # "fire_and_forget" => sequenceMap'[sequence(kind)] = sequenceMap[sequence(kind)] + 1
    <3>1. sequence(kind) \in SequenceNames
      BY DEF sequence, SequenceNames
    <3> QED
      BY <1>7, <3>1 DEF getAndSetNextMsgProg, isFireAndForget, IInv, TypeOK
  <2>13. CASE channel = "ws" /\ flight' = Append(flight, i)
    <3>1. flight \in Seq(Calls)
      BY <1>5, Types
    <3>2. \A j \in Calls : Carries(flight', j) <=> Carries(flight, j) \/ j = i
      BY <1>2, <2>13, <3>1, AppendCarries
    <3>3. /\ DOMAIN flight' = 1..(Len(flight) + 1) /\ DOMAIN flight = 1..Len(flight)
          /\ Len(flight) \in Nat /\ flight'[Len(flight) + 1] = i
          /\ \A p \in 1..Len(flight) : flight'[p] = flight[p]
      BY <1>2, <2>13, <3>1
    <3>4. ASSUME NEW j \in Calls, j # i, isPending(messages[j])
          PROVE  HasArrived(j) \/ Carries(flight, j)
      BY <1>5, <2>13, <3>4 DEF MessagesUnderWay, IInv, RepliesAgree
    <3>5. NoGaps(flight)'
      <4> SUFFICES ASSUME NEW p \in 1..(Len(flight) + 1), NEW x, x = flight'[p],
                          NEW j \in Calls, j < x, isPending(messages'[j]),
                          Numbered(j)', Numbered(x)', SameSequence(j, x)'
                   PROVE  HasArrived(j)' \/ \E q \in 1..(p - 1) : flight'[q] = j
        BY <3>3 DEF NoGaps, Numbered, SameSequence
      <4>0. \A k \in Calls : HasArrived(k)' <=> HasArrived(k)
        BY <2>7, NewCallIsUnknown
      <4>1. CASE p = Len(flight) + 1
        <5>1. j # i /\ isPending(messages[j])
          BY <1>5, <2>10, <3>3, <4>1, Types
        <5>2. CASE Carries(flight, j)
          BY <3>3, <4>1, <5>2 DEF Carries
        <5> QED
          BY <3>4, <4>0, <5>1, <5>2
      <4>2. CASE p \in 1..Len(flight)
        <5>1. flight'[p] = flight[p] /\ p \in DOMAIN flight
          BY <3>3, <4>2
        <5>2. HasArrived(j)' \/ \E q \in 1..(p - 1) : flight[q] = j
          BY <1>2, <1>5, <2>7, <5>1, OldGaps
        <5>3. \A q \in 1..(p - 1) : flight'[q] = flight[q]
          BY <3>3, <4>2
        <5> QED
          BY <5>2, <5>3
      <4> QED
        BY <3>3, <4>1, <4>2
    <3>6. MessagesUnderWay'
      <4>1. ASSUME NEW j \in Calls, isPending(messages'[j])
            PROVE  Carries(flight', j) \/ \E reply \in replies : reply.call = j
        <5>1. CASE j = i
          BY <3>2, <5>1
        <5>2. CASE j # i
          BY <1>5, <2>10, <2>13, <3>2, <4>1, <5>2 DEF MessagesUnderWay
        <5> QED
          BY <5>1, <5>2
      <4> QED
        BY <2>8, <2>13, <4>1 DEF MessagesUnderWay
    <3>7. \A j \in Calls : Carries(flight', j) => Current(j) \/ (j = i /\ messages'[i].m # 15)
      BY <2>4, <2>6, <3>2 DEF Current
    <3> QED
      BY <2>4, <2>6, <2>7, <2>8, <2>9, <2>11, <2>12, <2>13, <3>5, <3>6, <3>7, NewCallInv DEF Enters
  <2>14. CASE channel = "http" /\ ctrl = "idle" /\ messages' = added /\ sendPendingMessagesHTTP(added)
    <3>1. \/ flight' = <<>> /\ PendingMessages(messages') = {}
          \/ flight' \in Batches(messages') /\ ctrl' = "busy"
      BY <2>14 DEF sendPendingMessagesHTTP
    <3>2. \A j \in Calls : Carries(flight', j) => isPending(messages'[j])
      BY <3>1, BatchIsInOrder, EmptyCarries
    <3>3. NoGaps(flight)'
      <4>1. CASE flight' = <<>>
        BY <4>1, NothingLeaves
      <4>2. CASE flight' \in Batches(messages')
        <5>1. \A p \in DOMAIN flight', j \in Calls :
                 j < flight'[p] /\ isPending(messages'[j]) => \E q \in 1..(p - 1) : flight'[q] = j
          BY <4>2, BatchIsInOrder
        <5> QED
          BY <5>1 DEF NoGaps
      <4> QED
        BY <3>1, <4>1, <4>2
    <3>4. \A j \in Calls : Carries(flight', j) => Current(j) \/ (j = i /\ messages'[i].m # 15)
      BY <2>4, <2>6, <2>10, <3>2 DEF Current, Exists, isPending
    <3>5. MessagesUnderWay'
      BY <2>8, <2>14, <3>1 DEF MessagesUnderWay
    <3> QED
      BY <2>4, <2>6, <2>7, <2>8, <2>9, <2>11, <2>12, <2>14, <3>3, <3>4, <3>5, NewCallInv DEF Enters
  <2>15. CASE /\ channel = "none" \/ (channel = "http" /\ ctrl # "idle")
              /\ UNCHANGED <<flight, ctrl>>
    <3>1. NoGaps(flight)'
      BY <2>7, <2>15, OldGaps DEF NoGaps, Numbered, SameSequence
    <3>2. MessagesUnderWay'
      BY <2>8, <2>15 DEF MessagesUnderWay
    <3>3. \A j \in Calls : Carries(flight', j) => Current(j)
      BY <2>15 DEF Current
    <3> QED
      BY <2>4, <2>6, <2>7, <2>8, <2>9, <2>11, <2>12, <2>15, <3>1, <3>2, <3>3, NewCallInv DEF Enters
  <2> QED
    BY <2>3, <2>13, <2>14, <2>15
<1> QED
  BY <1>3, <1>6, <1>7

-----------------------------------------------------------------------------
(* The channels. *)

LEMMA WebSocketInv ==
    ASSUME IInv, TypeOK', evtSendPendingMessages, channel' = "ws",
           UNCHANGED <<nextCall, sequenceMap, told, server, stream, late, replies>>
    PROVE  IInv'
<1>1. ASSUME NEW i \in Calls
      PROVE  /\ messages'[i].kind = messages[i].kind
             /\ messages'[i].m # 31
             /\ isPending(messages'[i]) => isPending(messages[i])
             /\ \/ messages'[i] = messages[i]
                \/ messages[i].m = 31 /\ messages'[i] = [messages[i] EXCEPT !.m = 32]
  BY DEF evtSendPendingMessages, evtWSSent, isPending, IInv, TypeOK
<1>2. /\ flight' \in Batches(messages)
      /\ \A i \in PendingMessages(messages) : Carries(flight', i)
  BY DEF evtSendPendingMessages
<1>3. NoGaps(flight)' /\ \A i \in Calls : Carries(flight', i) => Current(i)
  BY <1>1, <1>2, BatchLeaves
<1>4. NoGaps(late)'
  <2>1. \A i \in Calls : HasArrived(i) => HasArrived(i)'
    BY DEF HasArrived, Carries, server
  <2> QED
    BY <1>1, <2>1, GapsKept
<1>5. MessagesUnderWay'
  BY <1>1, <1>2 DEF MessagesUnderWay, PendingMessages
<1>6. CountersAgree'
  BY <1>1 DEF CountersAgree, IInv, server
<1>7. MovesOnly
  BY <1>1, <1>3 DEF MovesOnly, Current
<1> QED
  BY <1>3, <1>4, <1>5, <1>6, <1>7, MovesInv

(* What the other steps of the channels leave alone: they only choose what *)
(* is sent next, on a channel that is no WebSocket any more.               *)
LEMMA OtherChannelInv ==
    ASSUME IInv, TypeOK', UNCHANGED <<client, server, stream>>,
           \/ flight' \in Batches(messages) \/ flight' \in {flight, <<>>},
           late' \in {flight, late, <<>>}, replies' \subseteq replies,
           channel' # "ws" \/ UNCHANGED <<channel, flight, replies>>,
           channel' = "http" /\ ctrl' = "idle" => PendingMessages(messages) = {}
    PROVE  IInv'
<1>1. UNCHANGED <<messages, nextCall, sequenceMap, told>>
  BY DEF client
<1>2. \A i \in Calls : HasArrived(i) => HasArrived(i)'
  BY DEF HasArrived, Carries, server
<1>3. NoGaps(late)' /\ (flight' \in {flight, <<>>} => NoGaps(flight)')
  BY <1>1, <1>2, GapsKept
<1>4. NoGaps(flight)'
  BY <1>1, <1>3, BatchLeaves
<1>5. \A i \in Calls : Carries(flight', i) \/ Carries(late', i) => Current(i)
  BY <1>1, BatchLeaves, EmptyCarries DEF Current
<1>6. MovesOnly
  BY <1>1, <1>5 DEF MovesOnly
<1>7. MessagesUnderWay'
  BY <1>1 DEF IInv, MessagesUnderWay
<1>8. CountersAgree'
  BY <1>1 DEF IInv, CountersAgree, server
<1> QED
  BY <1>3, <1>4, <1>6, <1>7, <1>8, MovesInv

LEMMA HTTPBatch ==
    ASSUME NEW msgs, sendPendingMessagesHTTP(msgs)
    PROVE  /\ flight' \in Batches(msgs) \/ flight' = <<>>
           /\ ctrl' = "idle" => PendingMessages(msgs) = {}
  BY DEF sendPendingMessagesHTTP

LEMMA ChannelInv ==
    ASSUME IInv, TypeOK',
           Connect \/ StartSession \/ Bind \/ LoseChannel \/ CtrlDone \/ CtrlError
             \/ CtrlTimeout \/ OtherRequest
    PROVE  IInv'
<1>1. CASE Connect
  <2>1. channel' = "http" /\ ctrl' = "idle" => PendingMessages(messages) = {}
    BY <1>1 DEF Connect, network, IInv, MessagesUnderWay
  <2> QED
    BY <1>1, <2>1, OtherChannelInv DEF Connect, network
<1>2. CASE StartSession
  <2>1. CASE channel' = "ws" /\ evtSendPendingMessages
    BY <1>2, <2>1, WebSocketInv DEF StartSession
  <2>2. CASE channel' = "none" /\ UNCHANGED <<messages, flight>>
    BY <1>2, <2>2, OtherChannelInv DEF StartSession, client
  <2> QED
    BY <1>2, <2>1, <2>2 DEF StartSession
<1>3. CASE Bind
  <2>1. CASE channel' = "ws" /\ evtSendPendingMessages
    BY <1>3, <2>1, WebSocketInv DEF Bind
  <2>2. CASE channel' = "http" /\ sendPendingMessagesHTTP(messages) /\ UNCHANGED messages
    BY <1>3, <2>2, HTTPBatch, OtherChannelInv DEF Bind, client
  <2> QED
    BY <1>3, <2>1, <2>2 DEF Bind
<1>4. CASE LoseChannel
  BY <1>4, OtherChannelInv DEF LoseChannel, LeaveChannel
<1>5. CASE CtrlDone
  BY <1>5, HTTPBatch, OtherChannelInv DEF CtrlDone
<1>6. CASE CtrlError
  BY <1>6, OtherChannelInv DEF CtrlError, LeaveChannel
<1>7. CASE CtrlTimeout
  BY <1>7, HTTPBatch, OtherChannelInv DEF CtrlTimeout
<1>8. CASE OtherRequest
  BY <1>8, OtherChannelInv DEF OtherRequest
<1> QED
  BY <1>1, <1>2, <1>3, <1>4, <1>5, <1>6, <1>7, <1>8

LEMMA ServerReceivesInv ==
    ASSUME IInv, TypeOK', ServerReceives
    PROVE  IInv'
<1>1. PICK i \in Calls, code \in {"ok", "duplicate", "refused"} :
        /\ i = Head(flight)
        /\ Receives(i, code)
        /\ flight' = Tail(flight)
        /\ replies' = IF channel = "ws" /\ isFireAndForget(messages[i].kind) THEN replies
                      ELSE replies \cup {[call |-> i, code |-> code]}
  BY TailCarries DEF ServerReceives, IInv, TypeOK
<1>2. flight \in Seq(Calls) /\ flight # <<>>
  BY DEF ServerReceives, IInv, TypeOK
<1>3. /\ \A j : Carries(flight, j) <=> j = i \/ Carries(flight', j)
      /\ flight' \in Seq(Calls) /\ flight[1] = i /\ 1 \in DOMAIN flight
      /\ \A p \in DOMAIN flight' : p + 1 \in DOMAIN flight /\ flight'[p] = flight[p + 1]
  BY <1>1, <1>2, TailCarries, HeadAndTail
<1>4. UNCHANGED <<client, session, channel, ctrl, late, stream, losses>> /\ UNCHANGED messages
  BY DEF ServerReceives, client
<1>5. Current(i)
  BY <1>3 DEF Current
<1>6. NoGaps(flight) /\ flight[1] = i /\ 1 \in DOMAIN flight
  BY <1>3 DEF IInv
<1>7. \A j \in Calls : j < i /\ isPending(messages[j]) /\ Numbered(j) /\ Numbered(i)
                           /\ SameSequence(j, i) => HasArrived(j)
  BY <1>6 DEF NoGaps
<1>8. \A j \in Calls : HasArrived(j) => HasArrived(j)'
  <2>1. CASE arrived' = arrived
    BY <2>1 DEF HasArrived, Carries
  <2>2. CASE arrived' = Append(arrived, i)
    <3>1. arrived \in Seq(Calls)
      BY DEF IInv, TypeOK
    <3> QED
      BY <2>2, <3>1, AppendCarries DEF HasArrived
  <2> QED
    BY <1>1, <2>1, <2>2 DEF Receives, server
<1>9. HasArrived(i)' => NoGaps(flight)' /\ NoGaps(late)'
  <2>1. NoGaps(late)'
    BY <1>4, <1>8, GapsKept
  <2>2. ASSUME HasArrived(i)', NEW p \in DOMAIN flight', NEW x \in Calls, x = flight'[p],
               NEW j \in Calls, j < x, isPending(messages[j]),
               Numbered(j), Numbered(x), SameSequence(j, x)
        PROVE  HasArrived(j)' \/ \E q \in 1..(p - 1) : flight'[q] = j
    <3>1. p + 1 \in DOMAIN flight /\ flight[p + 1] = x /\ p \in Nat \ {0}
          /\ DOMAIN flight' = 1..Len(flight') /\ Len(flight') \in Nat
      BY <1>3, <2>2
    <3>2. HasArrived(j) \/ \E q \in 1..p : flight[q] = j
      BY <1>6, <2>2, <3>1 DEF NoGaps
    <3>3. ASSUME NEW q \in 1..p, flight[q] = j
          PROVE  HasArrived(j)' \/ \E r \in 1..(p - 1) : flight'[r] = j
      <4>1. CASE q = 1
        BY <1>6, <2>2, <3>3, <4>1
      <4>2. CASE q # 1
        <5>1. q - 1 \in 1..(p - 1) /\ q - 1 \in DOMAIN flight' /\ (q - 1) + 1 = q
          BY <3>1, <3>3, <4>2
        <5> QED
          BY <1>3, <3>3, <5>1
      <4> QED
        BY <4>1, <4>2
    <3> QED
      BY <1>8, <3>2, <3>3
  <2>3. \A p \in DOMAIN flight' : flight'[p] \in Calls
    BY <1>3, Elements
  <2> QED
    BY <1>4, <2>1, <2>2, <2>3 DEF NoGaps, Numbered, SameSequence
<1>10. MessagesUnderWay'
  <2>1. ASSUME channel = "ws", NEW j \in Calls, isPending(messages[j])
        PROVE  Carries(flight', j) \/ \E reply \in replies' : reply.call = j
    <3>1. Carries(flight, j) \/ \E reply \in replies : reply.call = j
      BY <2>1 DEF IInv, MessagesUnderWay
    <3>2. CASE j = i
      <4>1. messages[i].m \in {11, 21}
        BY <2>1, <3>2 DEF IInv, CountersAgree, isPending
      <4>2. WellFormed(i)
        BY DEF IInv, MessagesAgree
      <4>3. ~isFireAndForget(messages[i].kind)
        BY <4>1, <4>2 DEF WellFormed, Numbered, hasListener, isFireAndForget
      <4> QED
        <5>1. [call |-> i, code |-> code] \in replies'
          BY <1>1, <4>3
        <5> QED
          BY <3>2, <5>1
    <3>3. CASE j # i
      BY <1>1, <1>3, <3>1, <3>3
    <3> QED
      BY <3>2, <3>3
  <2> QED
    BY <1>4, <2>1 DEF IInv, MessagesUnderWay
<1> QED
  BY <1>1, <1>3, <1>4, <1>5, <1>7, <1>9, <1>10, ReceiveInv

LEMMA ServerReceivesLateInv ==
    ASSUME IInv, TypeOK', ServerReceivesLate
    PROVE  IInv'
<1>1. PICK i \in Calls, code \in {"ok", "duplicate", "refused"} :
        i = Head(late) /\ Receives(i, code) /\ late' = Tail(late)
  <2>1. Head(late) \in Calls
    BY TailCarries DEF ServerReceivesLate, IInv, TypeOK
  <2> QED
    BY <2>1 DEF ServerReceivesLate
<1>2. late \in Seq(Calls) /\ late # <<>>
  BY DEF ServerReceivesLate, IInv, TypeOK
<1>3. /\ \A j : Carries(late, j) <=> j = i \/ Carries(late', j)
      /\ late' \in Seq(Calls) /\ late[1] = i /\ 1 \in DOMAIN late
      /\ \A p \in DOMAIN late' : p + 1 \in DOMAIN late /\ late'[p] = late[p + 1]
  BY <1>1, <1>2, TailCarries, HeadAndTail
<1>4. UNCHANGED <<client, session, channel, flight, replies, ctrl, stream>> /\ UNCHANGED messages
  BY DEF ServerReceivesLate, client, network
<1>5. Current(i)
  BY <1>3 DEF Current
<1>6. NoGaps(late) /\ late[1] = i /\ 1 \in DOMAIN late
  BY <1>3 DEF IInv
<1>7. \A j \in Calls : j < i /\ isPending(messages[j]) /\ Numbered(j) /\ Numbered(i)
                           /\ SameSequence(j, i) => HasArrived(j)
  BY <1>6 DEF NoGaps
<1>8. \A j \in Calls : HasArrived(j) => HasArrived(j)'
  <2>1. CASE arrived' = arrived
    BY <2>1 DEF HasArrived, Carries
  <2>2. CASE arrived' = Append(arrived, i)
    <3>1. arrived \in Seq(Calls)
      BY DEF IInv, TypeOK
    <3> QED
      BY <2>2, <3>1, AppendCarries DEF HasArrived
  <2> QED
    BY <1>1, <2>1, <2>2 DEF Receives, server
<1>9. HasArrived(i)' => NoGaps(flight)' /\ NoGaps(late)'
  <2>1. NoGaps(flight)'
    BY <1>4, <1>8, GapsKept
  <2>2. ASSUME HasArrived(i)', NEW p \in DOMAIN late', NEW x \in Calls, x = late'[p],
               NEW j \in Calls, j < x, isPending(messages[j]),
               Numbered(j), Numbered(x), SameSequence(j, x)
        PROVE  HasArrived(j)' \/ \E q \in 1..(p - 1) : late'[q] = j
    <3>1. p + 1 \in DOMAIN late /\ late[p + 1] = x /\ p \in Nat \ {0}
          /\ DOMAIN late' = 1..Len(late') /\ Len(late') \in Nat
      BY <1>3, <2>2
    <3>2. HasArrived(j) \/ \E q \in 1..p : late[q] = j
      BY <1>6, <2>2, <3>1 DEF NoGaps
    <3>3. ASSUME NEW q \in 1..p, late[q] = j
          PROVE  HasArrived(j)' \/ \E r \in 1..(p - 1) : late'[r] = j
      <4>1. CASE q = 1
        BY <1>6, <2>2, <3>3, <4>1
      <4>2. CASE q # 1
        <5>1. q - 1 \in 1..(p - 1) /\ q - 1 \in DOMAIN late' /\ (q - 1) + 1 = q
          BY <3>1, <3>3, <4>2
        <5> QED
          BY <1>3, <3>3, <5>1
      <4> QED
        BY <4>1, <4>2
    <3> QED
      BY <1>8, <3>2, <3>3
  <2>3. \A p \in DOMAIN late' : late'[p] \in Calls
    BY <1>3, Elements
  <2> QED
    BY <1>4, <2>1, <2>2, <2>3 DEF NoGaps, Numbered, SameSequence
<1>10. MessagesUnderWay'
  BY <1>4 DEF IInv, MessagesUnderWay
<1> QED
  BY <1>1, <1>3, <1>4, <1>5, <1>7, <1>9, <1>10, ReceiveInv

LEMMA ServerProcessesInv ==
    ASSUME IInv, TypeOK', ServerProcesses \/ ServerDiscards
    PROVE  IInv'
<1>1. CASE ServerProcesses
  <2>1. PICK i \in accepted, event \in {"processed", "denied", "error", "discarded"} :
          /\ accepted' = accepted \ {i}
          /\ outcome' = [outcome EXCEPT ![i] = event]
          /\ Notify(i, i, event)
    BY <1>1 DEF ServerProcesses
  <2>2. PICK j \in accepted : j = i
    OBVIOUS
  <2>3. /\ accepted' = accepted \ {i, j}
        /\ outcome' = [k \in Calls |-> IF k \in {i, j} THEN event ELSE outcome[k]]
        /\ Notify(i, j, event)
    BY <2>1, <2>2 DEF IInv, TypeOK, Notify
  <2>4. UNCHANGED <<client, channel, network, late, arrived, lastProg>>
    BY <1>1 DEF ServerProcesses
  <2> QED
    BY <2>2, <2>3, <2>4, ProcessInv
<1>2. CASE ServerDiscards
  <2>1. PICK i \in accepted, j \in accepted :
          /\ isOrdered(i) /\ isOrdered(j)
          /\ messages[j].prog = messages[i].prog + 1
          /\ accepted' = accepted \ {i, j}
          /\ outcome' = [k \in Calls |-> IF k \in {i, j} THEN "discarded" ELSE outcome[k]]
          /\ Notify(i, j, "discarded")
    BY <1>2 DEF ServerDiscards
  <2>2. UNCHANGED <<client, channel, network, late, arrived, lastProg>>
    BY <1>2 DEF ServerDiscards
  <2> QED
    BY <2>1, <2>2, ProcessInv
<1> QED
  BY <1>1, <1>2

-----------------------------------------------------------------------------
(* The invariant holds initially and no step breaks it.                    *)
LEMMA InitInv == Init => IInv
<1> SUFFICES ASSUME Init
             PROVE  IInv
  OBVIOUS
<1>1. \A i \in Calls : messages[i].kind = "fire_and_forget" /\ messages[i].prog = 0
                       /\ messages[i].m = 1 /\ told[i] = <<>>
  BY DEF Init, NotSent
<1>2. /\ flight = <<>> /\ late = <<>> /\ arrived = <<>> /\ accepted = {} /\ stream = <<>>
      /\ replies = {} /\ nextCall = 0 /\ channel = "none"
  BY DEF Init
<1>3. TypeOK
  <2>1. /\ messages \in [Calls -> [kind : Kinds \cup {"fire_and_forget"},
                                   prog : 0..MaxMessages, m : States]]
        /\ nextCall \in 0..MaxMessages /\ losses \in 0..MaxLosses
        /\ sequenceMap \in [SequenceNames -> 1..(MaxMessages + 1)]
        /\ lastProg \in [SequenceNames -> 0..MaxMessages]
    BY MessageBounds DEF Init, NotSent, States
  <2>2. told \in [Calls -> Seq(Events)]
    BY DEF Init
  <2>3. outcome \in [Calls -> Outcomes]
    BY DEF Init, Outcomes
  <2> QED
    BY <2>1, <2>2, <2>3 DEF TypeOK, Init
<1>4. \A i : ~HasArrived(i) /\ ~Carries(flight, i) /\ ~Carries(late, i)
  BY <1>2, EmptyCarries DEF HasArrived
<1>5. \A i \in Calls : ~Current(i) /\ i > nextCall /\ i # 0
  BY <1>1, <1>2, <1>4, MessageBounds DEF Current, Exists, Calls
<1>6. MessagesAgree
  BY <1>1, <1>2, <1>4, <1>5 DEF MessagesAgree, WellFormed, NumbersAgree, Places
<1>7. OutcomeIsTrue
  <2>1. \A e : <<>> # <<e>> /\ Len(<<>>) = 0
    OBVIOUS
  <2> QED
    BY <1>1, <2>1 DEF OutcomeIsTrue
<1>8. InOrder /\ NotLost
  BY <1>1, <1>2, <1>4 DEF InOrder, NotLost
<1>9. NoGaps(flight) /\ NoGaps(late) /\ RepliesAgree /\ StreamAgrees /\ MessagesUnderWay
  BY <1>2 DEF NoGaps, RepliesAgree, StreamAgrees, MessagesUnderWay
<1>10. CountersAgree
  BY <1>2 DEF CountersAgree, Init
<1> QED
  BY <1>3, <1>6, <1>7, <1>8, <1>9, <1>10 DEF IInv

LEMMA NextInv == IInv /\ [Next]_vars => IInv'
<1> SUFFICES ASSUME IInv, [Next]_vars
             PROVE  IInv'
  OBVIOUS
<1>1. CASE Next
  <2>1. TypeOK'
    BY <1>1, TypePreserved DEF IInv
  <2> QED
    BY <1>1, <2>1, SendMessageInv, ReplyInv, OutcomeInv, ChannelInv, EndSessionInv,
       ServerReceivesInv, ServerReceivesLateInv, ServerProcessesInv DEF Next
<1>2. CASE UNCHANGED vars
  <2>1. IInv' <=> IInv
    BY <1>2 DEF vars, client, network, server, IInv, TypeOK, InOrder, NotLost, OutcomeIsTrue,
                MessagesAgree, NoGaps, RepliesAgree, StreamAgrees, MessagesUnderWay,
                CountersAgree, WellFormed, NumbersAgree, Places, Current, HasArrived, Carries,
                Numbered, SameSequence, isOrdered, Aborted
  <2> QED
    BY <2>1
<1> QED
  BY <1>1, <1>2

LEMMA Invariant == Spec => []IInv
  BY InitInv, NextInv, PTL DEF Spec

(* What the client keeps is current, and numbered as what is.              *)
LEMMA KeptInOrder == IInv => NumbersAscend
  BY DEF IInv, MessagesAgree, NumbersAgree, NumbersAscend, Current, Numbered, SameSequence

(* Every message that has a number reaches the server once, those of a     *)
(* sequence in the order of the calls of sendMessage; what the client      *)
(* stops sending did arrive, what it keeps is numbered in the order it is  *)
(* kept in, and none waits where a channel could take it (evtREQOK,        *)
(* evtREQERR, sendPendingMessagesWS and sendPendingMessagesHTTP), for any  *)
(* number of messages and of lost channels.                                *)
THEOREM MessagesArrive == Spec => []ArriveInOrder
<1>1. IInv => ArriveInOrder
  BY KeptInOrder DEF IInv, ArriveInOrder
<1> QED
  BY <1>1, Invariant, PTL

(* A listener is told one thing at most, and it is what the server made of *)
(* that message (doMSGDONE, doMSGFAIL, doREQERR, doAbort).                 *)
THEOREM ListenersAreToldTheTruth == Spec => []OutcomeIsTrue
<1>1. IInv => OutcomeIsTrue
  BY DEF IInv
<1> QED
  BY <1>1, Invariant, PTL
=============================================================================
