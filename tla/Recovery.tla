------------------------------ MODULE Recovery ------------------------------
(***************************************************************************)
(* The data plane of a session: how ClientMachine counts the notifications *)
(* of the server (rec_serverProg, rec_clientProg) so that the listeners    *)
(* see each of them once and in order although the session moves from one  *)
(* stream connection to the next (LOOP and rebind), loses connections and  *)
(* recovers them (bind_session with LS_recovery_from, answered by PROG).   *)
(*                                                                         *)
(* The states of the statechart are grouped by what they do to the data:   *)
(*   "off"      no session                        (s_m other than s150)    *)
(*   "bound"    notifications are being read      (s300 s220 s230 s510     *)
(*              on a regular stream connection     s611 s810 s901)         *)
(*   "unbound"  a LOOP was read and the next      (s200, s500-s502, s600,  *)
(*              bind is not answered yet           s601, s610, s612, s613, *)
(*                                                 s800, s801, s811, s900, *)
(*                                                 s902-s904)              *)
(*   "pause"    waiting before a recovery         (s_rec = s1000)          *)
(*   "sent"     reading a recovery connection     (s_rec = s1001)          *)
(*   "retry"    waiting for another attempt       (s_rec = s1003)          *)
(*                                                                         *)
(* The server and the network are external: the server numbers the         *)
(* notifications of a session 1, 2, 3, ..., a stream connection carries a  *)
(* contiguous range of them in order, and the answer to a bind starts with *)
(* a PROG line saying where that range begins.                             *)
(***************************************************************************)
EXTENDS Naturals, Sequences

CONSTANTS
    MaxLines,         \* bound: notifications the server produces in a session
    MaxLosses,        \* bound: connections lost before the network is good
    RecoveryEnabled   \* options.sessionRecoveryTimeout # 0

ASSUME BoundsAssumption == MaxLines \in Nat /\ MaxLosses \in Nat
ASSUME OptionAssumption == RecoveryEnabled \in BOOLEAN

VARIABLES
    phase,        \* the group of states the client is in
    serverProg,   \* rec_serverProg: number of the last line read
    clientProg,   \* rec_clientProg: number of the last line delivered
    delivered,    \* what the listeners have seen in this session
    conn,         \* the stream connection, see Connections
    produced,     \* how many notifications the server has produced
    losses        \* connections lost so far

client == <<phase, serverProg, clientProg, delivered>>
vars == <<phase, serverProg, clientProg, delivered, conn, produced, losses>>

Phases == {"off", "bound", "unbound", "pause", "sent", "retry"}

(* A connection carries the lines read+1 .. sent, and then LOOP if loop.   *)
(* "announced" tells whether its PROG line has been read.  When it is not  *)
(* open, "sent" is where the server would go on if it had to: it cannot    *)
(* know how much of what it wrote has reached the client.                  *)
Connections ==
    [open : BOOLEAN, announced : BOOLEAN, loop : BOOLEAN,
     start : Nat, read : Nat, sent : Nat]

NewConnection(pos, said) ==
    [open |-> TRUE, announced |-> said, loop |-> FALSE,
     start |-> pos, read |-> pos, sent |-> pos]

NoConnection(pos) ==
    [open |-> FALSE, announced |-> FALSE, loop |-> FALSE,
     start |-> pos, read |-> pos, sent |-> pos]

-----------------------------------------------------------------------------
(* Counters. *)

(* Faulty: a line repeated after a recovery is taken for a new one. *)
isFreshData_Always == TRUE

isFreshData == serverProg = clientProg

(* A line is passed to the listeners when it is fresh, and only counted    *)
(* when it is one that a recovery connection repeats.                      *)
onFreshData ==
    /\ serverProg' = serverProg + 1
    /\ clientProg' = clientProg + 1
    /\ delivered' = Append(delivered, conn.read + 1)

onStaleData ==
    /\ serverProg' = serverProg + 1
    /\ UNCHANGED <<clientProg, delivered>>

(* Faulty: the server is trusted to resume exactly where it was asked to. *)
doPROG_Ignored(prog) == UNCHANGED serverProg

(* PROG is believed on a recovery connection, unless it would leave a gap, *)
(* and it is only checked on the others.                                   *)
doPROG(prog) == serverProg' = prog

(* Faulty: a recovery that skips a line is accepted. *)
progMismatch_OffByOne(prog) ==
    IF phase = "sent" THEN prog > clientProg + 1 ELSE prog # serverProg

progMismatch(prog) ==
    IF phase = "sent" THEN prog > clientProg ELSE prog # serverProg

(* Faulty: the counters of a session survive it. *)
disposeSession_KeepsCounters ==
    /\ phase' = "off"
    /\ delivered' = <<>>
    /\ conn' = NoConnection(0)
    /\ produced' = 0
    /\ UNCHANGED <<serverProg, clientProg>>

(* evtRetry and evtTerminate both come here when a session is open. *)
disposeSession ==
    /\ phase' = "off"
    /\ serverProg' = 0
    /\ clientProg' = 0
    /\ delivered' = <<>>
    /\ conn' = NoConnection(0)
    /\ produced' = 0

-----------------------------------------------------------------------------
Init ==
    /\ phase = "off"
    /\ serverProg = 0
    /\ clientProg = 0
    /\ delivered = <<>>
    /\ conn = NoConnection(0)
    /\ produced = 0
    /\ losses = 0

(* CONOK of a create_session: a session begins, with its lines to come. *)
StartSession ==
    /\ phase = "off"
    /\ phase' = "bound"
    /\ conn' = NewConnection(0, TRUE)
    /\ UNCHANGED <<serverProg, clientProg, delivered, produced, losses>>

(* The session ends while it is open: disconnect(), the page is frozen,    *)
(* END, CONERR or ERROR, a loss when recovery is off, recovery abandoned.  *)
EndSession ==
    /\ phase # "off"
    /\ disposeSession
    /\ UNCHANGED losses

(* One of U, SUBOK, SUBCMD, UNSUB, EOS, CS, OV, CONF, MSGDONE, MSGFAIL. *)
ReadData ==
    /\ phase \in {"bound", "sent"}
    /\ conn.open /\ conn.announced /\ conn.read < conn.sent
    /\ IF isFreshData THEN onFreshData ELSE onStaleData
    /\ conn' = [conn EXCEPT !.read = @ + 1]
    /\ UNCHANGED <<phase, produced, losses>>

(* PROG: its number is that of the line before it. *)
evtPROG ==
    /\ phase \in {"bound", "sent"}
    /\ conn.open
    /\ IF progMismatch(conn.read)
         THEN disposeSession /\ UNCHANGED losses
         ELSE /\ IF phase = "sent" THEN doPROG(conn.read) ELSE UNCHANGED serverProg
              /\ conn' = [conn EXCEPT !.announced = TRUE]
              /\ UNCHANGED <<phase, clientProg, delivered, produced, losses>>

(* LOOP: the connection is over and the session goes on with a new bind. *)
evtLOOP ==
    /\ phase \in {"bound", "sent"}
    /\ conn.open /\ conn.announced /\ conn.loop /\ conn.read = conn.sent
    /\ phase' = "unbound"
    /\ conn' = NoConnection(conn.sent)
    /\ UNCHANGED <<serverProg, clientProg, delivered, produced, losses>>

(* CONOK of a bind_session. *)
evtCONOK ==
    /\ phase = "unbound"
    /\ conn.open
    /\ phase' = "bound"
    /\ UNCHANGED <<serverProg, clientProg, delivered, conn, produced, losses>>

-----------------------------------------------------------------------------
(* Losses and recovery. *)

(* A stream connection fails or times out: the lines it still carried are  *)
(* gone.  The client pauses and then asks to recover.                      *)
evtTransportError ==
    /\ phase \in {"bound", "unbound"}
    /\ RecoveryEnabled
    /\ losses < MaxLosses
    /\ losses' = losses + 1
    /\ phase' = "pause"
    /\ conn' = NoConnection(conn.sent)
    /\ UNCHANGED <<serverProg, clientProg, delivered, produced>>

(* While WS polling is being set up (s600, s601) a failure makes the       *)
(* client bind over HTTP at once, as if nothing could have been lost; so   *)
(* does a WebSocket that does not open (s500).                             *)
bindElsewhere ==
    /\ phase = "unbound"
    /\ losses < MaxLosses
    /\ losses' = losses + 1
    /\ conn' = NoConnection(conn.sent)
    /\ UNCHANGED <<client, produced>>

(* Faulty: the retry timer of s1003 leads nowhere. *)
sendRecovery_FirstOnly ==
    /\ phase = "pause"
    /\ phase' = "sent"
    /\ UNCHANGED <<serverProg, clientProg, delivered, conn, produced, losses>>

(* evtRecoveryTimeout in s1000, evtRetryTimeout and evtOnlineAgain in s1003 *)
sendRecovery ==
    /\ phase \in {"pause", "retry"}
    /\ phase' = "sent"
    /\ UNCHANGED <<serverProg, clientProg, delivered, conn, produced, losses>>

(* A recovery connection fails while there is still time for another       *)
(* attempt.  (When there is not, the session ends: EndSession.)            *)
evtCheckRecoveryTimeout ==
    /\ phase = "sent"
    /\ losses < MaxLosses
    /\ losses' = losses + 1
    /\ phase' = "retry"
    /\ conn' = NoConnection(conn.sent)
    /\ UNCHANGED <<serverProg, clientProg, delivered, produced>>

-----------------------------------------------------------------------------
(* The server. *)

ServerProduces ==
    /\ phase # "off"
    /\ produced < MaxLines
    /\ produced' = produced + 1
    /\ UNCHANGED <<client, conn, losses>>

ServerWrites ==
    /\ conn.open /\ ~conn.loop /\ conn.sent < produced
    /\ conn' = [conn EXCEPT !.sent = @ + 1]
    /\ UNCHANGED <<client, produced, losses>>

(* End of a polling cycle, content length exhausted, or force_rebind: not  *)
(* before something has been written, if there is something to write.      *)
ServerLoops ==
    /\ conn.open /\ ~conn.loop
    /\ conn.sent > conn.start \/ conn.sent = produced
    /\ conn' = [conn EXCEPT !.loop = TRUE]
    /\ UNCHANGED <<client, produced, losses>>

(* A bind_session reaches the server, which goes on where it stopped. *)
ServerBinds ==
    /\ phase = "unbound" /\ ~conn.open
    /\ conn' = NewConnection(conn.sent, FALSE)
    /\ UNCHANGED <<client, produced, losses>>

(* A recovery request for the lines after clientProg: the server may start *)
(* earlier, or later if it no longer keeps what was asked.                 *)
ServerRecovers ==
    /\ phase = "sent" /\ ~conn.open
    /\ \E pos \in 0..produced : conn' = NewConnection(pos, FALSE)
    /\ UNCHANGED <<client, produced, losses>>

Server == ServerProduces \/ ServerWrites \/ ServerLoops \/ ServerBinds \/ ServerRecovers

Client ==
    \/ StartSession \/ EndSession
    \/ ReadData \/ evtPROG \/ evtLOOP \/ evtCONOK
    \/ evtTransportError \/ bindElsewhere \/ sendRecovery \/ evtCheckRecoveryTimeout

Next == Client \/ Server

Spec == Init /\ [][Next]_vars

(* The network carries what is written, the server answers and writes what *)
(* it has, and the pauses of the client end (their timers are armed by the *)
(* step that enters them).  Nothing forces a loss, a LOOP, the end of the  *)
(* session or the production of a line.                                    *)
Fairness ==
    /\ WF_vars(ReadData) /\ WF_vars(evtPROG /\ ~conn.announced) /\ WF_vars(evtLOOP)
    /\ WF_vars(evtCONOK) /\ WF_vars(sendRecovery)
    /\ WF_vars(ServerWrites) /\ WF_vars(ServerBinds) /\ WF_vars(ServerRecovers)

FairSpec == Spec /\ Fairness

-----------------------------------------------------------------------------
(* Properties. *)

(* Every variable has its type, and no counter of the client exceeds what  *)
(* a session can contain.                                                  *)
TypeOK ==
    /\ phase \in Phases
    /\ serverProg \in 0..MaxLines /\ clientProg \in 0..MaxLines
    /\ delivered \in Seq(Nat)
    /\ conn \in Connections
    /\ produced \in 0..MaxLines
    /\ losses \in 0..MaxLosses

(* The listeners have seen the lines 1 to clientProg of the session, each  *)
(* once and in order, whatever was lost, repeated or rebound in between.   *)
ExactlyOnce == delivered = [i \in 1..clientProg |-> i]

(* The assertions of onFreshData, onStaleData and doPROG cannot fail: the  *)
(* client never counts a line it has not delivered.                        *)
ServerProgBehind == serverProg <= clientProg /\ clientProg <= produced

(* Once the position of a connection is known, the counter of the client   *)
(* is the number that the server gives to the last line read from it; and  *)
(* a rebind never finds the counter ahead of the server.                   *)
CounterAgrees ==
    /\ phase \in {"bound", "sent"} /\ conn.open /\ conn.announced
          => serverProg = conn.read
    /\ phase \in {"bound", "unbound"} => serverProg <= conn.sent

(* The session implements exactly-once in-order delivery. *)
Abstract == INSTANCE Delivery WITH produced <- produced, delivered <- delivered
DeliverySpec == Abstract!Spec

(* Every line produced is delivered in the end, unless the session ends.   *)
EventuallyDelivered ==
    \A n \in 1..MaxLines :
        (produced = n) ~> (clientProg >= n \/ phase = "off")
=============================================================================
