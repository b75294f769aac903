--------------------------- MODULE RecoveryProofs ---------------------------
(***************************************************************************)
(* Proofs that a session delivers every line once and in order (Recovery)  *)
(* for any number of lines and losses, with or without recovery.           *)
(*                                                                         *)
(* ExactlyOnce is not inductive: a step that delivers a line appends the   *)
(* number the server gave it, conn.read + 1, and what makes this clientProg*)
(* + 1 is that the counter and the server agree (CounterAgrees), which in  *)
(* turn needs the ranges of the connection (WireOK).                       *)
(***************************************************************************)
EXTENDS Recovery, TLAPS

(* The positions of a connection are in order and within what exists, and  *)
(* nothing is read before the position of the connection is known.         *)
WireOK ==
    /\ conn.start <= conn.read /\ conn.read <= conn.sent /\ conn.sent <= produced
    /\ phase \in {"pause", "retry", "off"} => ~conn.open
    /\ phase = "bound" => conn.open
    /\ phase = "unbound" /\ conn.open => ~conn.announced
    /\ ~conn.open => ~conn.announced

(* Without a session nothing is counted. *)
OffIsClean ==
    phase = "off" => /\ serverProg = 0 /\ clientProg = 0
                     /\ conn.sent = 0 /\ produced = 0

IInv ==
    /\ TypeOK
    /\ WireOK
    /\ OffIsClean
    /\ ServerProgBehind
    /\ CounterAgrees
    /\ ExactlyOnce

-----------------------------------------------------------------------------
(* The record constructors build connections. *)
LEMMA ConnectionType ==
    ASSUME NEW pos \in Nat, NEW said \in BOOLEAN
    PROVE  /\ NewConnection(pos, said) \in Connections
           /\ NoConnection(pos) \in Connections
BY DEF NewConnection, NoConnection, Connections

(* Writing one more line on a connection gives a connection. *)
LEMMA WrittenConnection ==
    ASSUME NEW k \in Connections
    PROVE  [k EXCEPT !.sent = k.sent + 1] \in Connections
BY DEF Connections

(* Appending the next number to 1, ..., k gives 1, ..., k + 1. *)
LEMMA AppendNext ==
    ASSUME NEW k \in Nat, NEW s, s = [i \in 1..k |-> i]
    PROVE  /\ s \in Seq(Nat)
           /\ Len(s) = k
           /\ Append(s, k + 1) = [i \in 1..(k + 1) |-> i]
<1>1. s \in Seq(Nat) /\ Len(s) = k
  OBVIOUS
<1>2. Append(s, k + 1) = [i \in 1..(k + 1) |-> i]
  BY <1>1
<1> QED
  BY <1>1, <1>2

(* The empty sequence is 1, ..., 0. *)
LEMMA EmptyCounts == <<>> = [i \in 1..0 |-> i]
OBVIOUS

-----------------------------------------------------------------------------
(* The inductive invariant holds initially. *)
LEMMA InitInv == Init => IInv
<1> SUFFICES ASSUME Init PROVE IInv
  OBVIOUS
<1> USE BoundsAssumption DEF Init
<1>1. conn \in Connections
  BY ConnectionType
<1>2. TypeOK
  BY <1>1 DEF TypeOK, Phases
<1>3. WireOK /\ OffIsClean /\ ServerProgBehind /\ CounterAgrees
  BY DEF WireOK, OffIsClean, ServerProgBehind, CounterAgrees, NoConnection
<1>4. ExactlyOnce
  BY EmptyCounts DEF ExactlyOnce
<1> QED
  BY <1>2, <1>3, <1>4 DEF IInv

(* Whatever ends the session leaves the state that Init describes. *)
LEMMA DisposeInv ==
    ASSUME IInv, disposeSession, losses' \in 0..MaxLosses
    PROVE  IInv'
<1> USE BoundsAssumption DEF disposeSession
<1>1. conn' \in Connections
  BY ConnectionType
<1>2. TypeOK'
  BY <1>1 DEF TypeOK, Phases
<1>3. WireOK' /\ OffIsClean' /\ ServerProgBehind' /\ CounterAgrees'
  BY DEF WireOK, OffIsClean, ServerProgBehind, CounterAgrees, NoConnection
<1>4. ExactlyOnce'
  BY EmptyCounts DEF ExactlyOnce
<1> QED
  BY <1>2, <1>3, <1>4 DEF IInv

(* A step that neither delivers nor forgets keeps ExactlyOnce. *)
LEMMA UnchangedDelivery ==
    ASSUME ExactlyOnce, UNCHANGED <<clientProg, delivered>>
    PROVE  ExactlyOnce'
BY DEF ExactlyOnce

(* Reading a line: fresh or stale, the counter moves with the connection.  *)
LEMMA ReadDataInv == IInv /\ ReadData => IInv'
<1> SUFFICES ASSUME IInv, ReadData PROVE IInv'
  OBVIOUS
<1> USE BoundsAssumption DEF IInv, TypeOK
<1>1. /\ conn' = [conn EXCEPT !.read = conn.read + 1]
      /\ conn.read < conn.sent /\ conn.open /\ conn.announced
      /\ phase \in {"bound", "sent"}
      /\ UNCHANGED <<phase, produced, losses>>
  BY DEF ReadData
<1>2. conn' \in Connections
  BY <1>1 DEF Connections
<1>3. serverProg = conn.read
  BY <1>1 DEF CounterAgrees
<1>4. serverProg' = serverProg + 1
  BY DEF ReadData, onFreshData, onStaleData
<1>5. /\ conn.read \in Nat /\ conn.sent \in Nat /\ conn.start \in Nat
      /\ conn.sent <= produced
  BY DEF Connections, WireOK
<1>6. CASE isFreshData
  <2>1. /\ clientProg' = clientProg + 1
        /\ delivered' = Append(delivered, conn.read + 1)
        /\ serverProg = clientProg
    BY <1>6 DEF ReadData, onFreshData, isFreshData
  <2>2. ExactlyOnce' /\ delivered' \in Seq(Nat)
    <3>0. clientProg \in Nat
      OBVIOUS
    <3>1. delivered' = [i \in 1..(clientProg + 1) |-> i]
      BY <2>1, <1>3, <3>0, AppendNext DEF ExactlyOnce
    <3> QED
      BY <2>1, <3>0, <3>1, AppendNext DEF ExactlyOnce
  <2>3. ServerProgBehind'
    BY <1>1, <1>3, <1>4, <1>5, <2>1 DEF ServerProgBehind
  <2>4. TypeOK'
    BY <1>1, <1>2, <1>3, <1>4, <1>5, <2>1, <2>2 DEF Phases
  <2>5. WireOK' /\ CounterAgrees' /\ OffIsClean'
    BY <1>1, <1>3, <1>4, <1>5 DEF WireOK, CounterAgrees, OffIsClean, Connections
  <2> QED
    BY <2>2, <2>3, <2>4, <2>5
<1>7. CASE ~isFreshData
  <2>1. UNCHANGED <<clientProg, delivered>> /\ serverProg # clientProg
    BY <1>7 DEF ReadData, onStaleData, isFreshData
  <2>2. ServerProgBehind'
    BY <1>1, <1>4, <2>1 DEF ServerProgBehind
  <2>3. TypeOK'
    BY <1>1, <1>2, <1>3, <1>4, <1>5, <2>1 DEF Phases
  <2>4. WireOK' /\ CounterAgrees' /\ OffIsClean'
    BY <1>1, <1>3, <1>4, <1>5 DEF WireOK, CounterAgrees, OffIsClean, Connections
  <2> QED
    BY <2>1, <2>2, <2>3, <2>4, UnchangedDelivery
<1> QED
  BY <1>6, <1>7

(* PROG: believed, checked, or the end of the session. *)
LEMMA PROGInv == IInv /\ evtPROG => IInv'
<1> SUFFICES ASSUME IInv, evtPROG PROVE IInv'
  OBVIOUS
<1> USE BoundsAssumption DEF IInv, TypeOK
<1>1. CASE progMismatch(conn.read)
  <2>1. disposeSession /\ losses' \in 0..MaxLosses
    BY <1>1 DEF evtPROG
  <2> QED
    BY <2>1, DisposeInv DEF IInv
<1>2. CASE ~progMismatch(conn.read)
  <2>1. /\ conn' = [conn EXCEPT !.announced = TRUE]
        /\ UNCHANGED <<phase, clientProg, delivered, produced, losses>>
        /\ phase \in {"bound", "sent"} /\ conn.open
        /\ IF phase = "sent" THEN serverProg' = conn.read ELSE serverProg' = serverProg
    BY <1>2 DEF evtPROG, doPROG
  <2>2. conn' \in Connections /\ conn.read \in Nat
    BY <2>1 DEF Connections
  <2>3. serverProg' = conn.read /\ conn.read <= clientProg
    BY <1>2, <2>1, <2>2 DEF progMismatch, ServerProgBehind
  <2>4. TypeOK' /\ ServerProgBehind'
    BY <2>1, <2>2, <2>3 DEF Phases, ServerProgBehind
  <2>5. WireOK' /\ OffIsClean' /\ CounterAgrees'
    BY <2>1, <2>2, <2>3 DEF WireOK, OffIsClean, CounterAgrees, Connections
  <2> QED
    BY <2>1, <2>4, <2>5, UnchangedDelivery
<1> QED
  BY <1>1, <1>2

(* The steps of the client that move between connections. *)
LEMMA ClientMovesInv ==
    ASSUME IInv,
           \/ StartSession \/ evtLOOP \/ evtCONOK \/ evtTransportError
           \/ bindElsewhere \/ sendRecovery \/ evtCheckRecoveryTimeout
    PROVE  IInv'
<1> USE BoundsAssumption DEF IInv, TypeOK
<1>1. conn.sent \in Nat /\ conn.read \in Nat /\ conn.start \in Nat
  BY DEF Connections
<1>2. UNCHANGED <<clientProg, delivered, serverProg, produced>> /\ losses' \in 0..MaxLosses
  <2>1. losses' = losses \/ (losses < MaxLosses /\ losses' = losses + 1)
    BY DEF StartSession, evtLOOP, evtCONOK, evtTransportError, bindElsewhere,
           sendRecovery, evtCheckRecoveryTimeout
  <2>2. UNCHANGED <<clientProg, delivered, serverProg, produced>>
    BY DEF StartSession, evtLOOP, evtCONOK, evtTransportError, bindElsewhere,
           sendRecovery, evtCheckRecoveryTimeout, client
  <2> QED
    BY <2>1, <2>2
<1>3. ExactlyOnce' /\ ServerProgBehind'
  BY <1>2, UnchangedDelivery DEF ServerProgBehind
<1>4. CASE StartSession
  <2>1. phase = "off" /\ phase' = "bound" /\ conn' = NewConnection(0, TRUE)
    BY <1>4 DEF StartSession
  <2>2. TypeOK'
    BY <1>2, <2>1, ConnectionType DEF Phases
  <2>3. WireOK' /\ OffIsClean' /\ CounterAgrees'
    BY <1>2, <2>1 DEF WireOK, OffIsClean, CounterAgrees, NewConnection
  <2> QED
    BY <1>3, <2>2, <2>3
<1>5. CASE evtLOOP
  <2>1. /\ phase \in {"bound", "sent"} /\ phase' = "unbound"
        /\ conn.open /\ conn.announced /\ conn.read = conn.sent
        /\ conn' = NoConnection(conn.sent)
    BY <1>5 DEF evtLOOP
  <2>2. TypeOK'
    BY <1>1, <1>2, <2>1, ConnectionType DEF Phases
  <2>3. WireOK' /\ OffIsClean' /\ CounterAgrees'
    BY <1>1, <1>2, <2>1 DEF WireOK, OffIsClean, CounterAgrees, NoConnection
  <2> QED
    BY <1>3, <2>2, <2>3
<1>6. CASE evtCONOK
  <2>1. phase = "unbound" /\ phase' = "bound" /\ conn.open /\ conn' = conn
    BY <1>6 DEF evtCONOK
  <2> QED
    BY <1>1, <1>2, <1>3, <2>1 DEF Phases, WireOK, OffIsClean, CounterAgrees
<1>7. CASE sendRecovery
  <2>1. phase \in {"pause", "retry"} /\ phase' = "sent" /\ conn' = conn
    BY <1>7 DEF sendRecovery
  <2> QED
    BY <1>1, <1>2, <1>3, <2>1 DEF Phases, WireOK, OffIsClean, CounterAgrees
<1>8. CASE evtTransportError \/ evtCheckRecoveryTimeout \/ bindElsewhere
  <2>1. /\ conn' = NoConnection(conn.sent)
        /\ phase # "off"
        /\ \/ phase' \in {"pause", "retry"}
           \/ phase' = phase /\ phase = "unbound"
    BY <1>8 DEF evtTransportError, evtCheckRecoveryTimeout, bindElsewhere, client
  <2>2. TypeOK'
    BY <1>1, <1>2, <2>1, ConnectionType DEF Phases
  <2>3. WireOK' /\ OffIsClean' /\ CounterAgrees'
    BY <1>1, <1>2, <2>1 DEF WireOK, OffIsClean, CounterAgrees, NoConnection, Phases
  <2> QED
    BY <1>3, <2>2, <2>3
<1> QED
  BY <1>4, <1>5, <1>6, <1>7, <1>8

(* The steps of the server touch the connection only. *)
LEMMA ServerInv == IInv /\ Server => IInv'
<1> SUFFICES ASSUME IInv, Server PROVE IInv'
  OBVIOUS
<1> USE BoundsAssumption DEF IInv, TypeOK
<1>1. /\ conn.sent \in Nat /\ conn.read \in Nat /\ conn.start \in Nat
      /\ conn.open \in BOOLEAN /\ conn.announced \in BOOLEAN
  BY DEF Connections
<1>2. UNCHANGED <<phase, serverProg, clientProg, delivered, losses>>
  BY DEF Server, ServerProduces, ServerWrites, ServerLoops, ServerBinds,
         ServerRecovers, client
<1>3. ExactlyOnce'
  BY <1>2, UnchangedDelivery
<1>4. CASE ServerProduces
  <2>1. /\ phase # "off" /\ conn' = conn
        /\ produced < MaxLines /\ produced' = produced + 1
    BY <1>4 DEF ServerProduces
  <2> QED
    BY <1>1, <1>2, <1>3, <2>1
    DEF WireOK, OffIsClean, CounterAgrees, ServerProgBehind
<1>5. CASE ServerWrites
  <2>1. /\ conn.open /\ conn.sent < produced /\ produced' = produced
        /\ conn' = [conn EXCEPT !.sent = conn.sent + 1]
    BY <1>5 DEF ServerWrites
  <2>2. conn' \in Connections
    BY <2>1, WrittenConnection
  <2>3. TypeOK' /\ ServerProgBehind'
    BY <1>2, <2>1, <2>2 DEF ServerProgBehind
  <2>4. WireOK' /\ OffIsClean' /\ CounterAgrees'
    BY <1>1, <1>2, <2>1 DEF WireOK, OffIsClean, CounterAgrees, Connections
  <2> QED
    BY <1>3, <2>3, <2>4
<1>6. CASE ServerLoops
  <2>1. produced' = produced /\ conn' = [conn EXCEPT !.loop = TRUE]
    BY <1>6 DEF ServerLoops
  <2>2. conn' \in Connections
    BY <1>1, <2>1 DEF Connections
  <2>3. TypeOK' /\ ServerProgBehind'
    BY <1>2, <2>1, <2>2 DEF ServerProgBehind
  <2>4. WireOK' /\ OffIsClean' /\ CounterAgrees'
    BY <1>1, <1>2, <2>1 DEF WireOK, OffIsClean, CounterAgrees, Connections
  <2> QED
    BY <1>3, <2>3, <2>4
<1>7. CASE ServerBinds
  <2>1. phase = "unbound" /\ conn' = NewConnection(conn.sent, FALSE) /\ produced' = produced
    BY <1>7 DEF ServerBinds
  <2>2. TypeOK' /\ ServerProgBehind'
    BY <1>1, <1>2, <2>1, ConnectionType DEF ServerProgBehind
  <2>3. WireOK' /\ OffIsClean' /\ CounterAgrees'
    BY <1>1, <1>2, <2>1 DEF WireOK, OffIsClean, CounterAgrees, NewConnection
  <2> QED
    BY <1>3, <2>2, <2>3
<1>8. CASE ServerRecovers
  <2>1. PICK pos \in 0..produced : conn' = NewConnection(pos, FALSE)
    BY <1>8 DEF ServerRecovers
  <2>2. phase = "sent" /\ produced' = produced /\ pos \in Nat /\ pos <= produced
    BY <1>8 DEF ServerRecovers
  <2>3. TypeOK' /\ ServerProgBehind'
    BY <1>2, <2>1, <2>2, ConnectionType DEF ServerProgBehind
  <2>4. WireOK' /\ OffIsClean' /\ CounterAgrees'
    BY <1>2, <2>1, <2>2 DEF WireOK, OffIsClean, CounterAgrees, NewConnection
  <2> QED
    BY <1>3, <2>3, <2>4
<1> QED
  BY <1>4, <1>5, <1>6, <1>7, <1>8 DEF Server

(* Every step keeps the invariant. *)
LEMMA NextInv == IInv /\ [Next]_vars => IInv'
<1> SUFFICES ASSUME IInv, [Next]_vars PROVE IInv'
  OBVIOUS
<1>1. CASE EndSession
  <2>1. disposeSession /\ losses' \in 0..MaxLosses
    BY <1>1 DEF EndSession, IInv, TypeOK
  <2> QED
    BY <2>1, DisposeInv
<1>2. CASE ReadData
  BY <1>2, ReadDataInv
<1>3. CASE evtPROG
  BY <1>3, PROGInv
<1>4. CASE \/ StartSession \/ evtLOOP \/ evtCONOK \/ evtTransportError
           \/ bindElsewhere \/ sendRecovery \/ evtCheckRecoveryTimeout
  BY <1>4, ClientMovesInv
<1>5. CASE Server
  BY <1>5, ServerInv
<1>6. CASE UNCHANGED vars
  BY <1>6 DEF vars, IInv, TypeOK, WireOK, OffIsClean, ServerProgBehind,
              CounterAgrees, ExactlyOnce
<1> QED
  BY <1>1, <1>2, <1>3, <1>4, <1>5, <1>6 DEF Next, Client

(* The inductive invariant always holds. *)
THEOREM Invariance == Spec => []IInv
<1>1. Init => IInv
  BY InitInv
<1>2. IInv /\ [Next]_vars => IInv'
  BY NextInv
<1> QED
  BY <1>1, <1>2, PTL DEF Spec

(* Every variable keeps its type. *)
THEOREM TypeCorrect == Spec => []TypeOK
BY Invariance, PTL DEF IInv

(* The listeners see the lines of the session each once and in order. *)
THEOREM DeliveredExactlyOnce == Spec => []ExactlyOnce
BY Invariance, PTL DEF IInv

(* The assertions of onFreshData, onStaleData and doPROG never fail. *)
THEOREM AssertionsHold == Spec => [](ServerProgBehind /\ CounterAgrees)
BY Invariance, PTL DEF IInv

(* Once the server has told where it starts, the client and the server     *)
(* count the same lines, whatever was lost or read twice before.           *)
THEOREM CountersMeet == Spec => []CounterAgrees
BY Invariance, PTL DEF IInv

-----------------------------------------------------------------------------
(* Refinement: a step of the session is a step of Delivery or a stutter.   *)
LEMMA StepRefines == IInv /\ [Next]_vars => [Abstract!Next]_(Abstract!vars)
<1> SUFFICES ASSUME IInv, [Next]_vars PROVE [Abstract!Next]_(Abstract!vars)
  OBVIOUS
<1> USE DEF Abstract!Next, Abstract!vars
<1>1. ASSUME disposeSession PROVE Abstract!Reset
  BY <1>1 DEF disposeSession, Abstract!Reset
<1>2. CASE EndSession
  BY <1>1, <1>2 DEF EndSession
<1>3. CASE ReadData
  <2>1. produced' = produced /\ conn.read < conn.sent /\ conn.open /\ conn.announced
        /\ phase \in {"bound", "sent"}
    BY <1>3 DEF ReadData
  <2>2. CASE isFreshData
    <3>1. /\ delivered' = Append(delivered, conn.read + 1)
          /\ serverProg = clientProg
      BY <1>3, <2>2 DEF ReadData, onFreshData, isFreshData
    <3>2. serverProg = conn.read
      BY <2>1 DEF IInv, CounterAgrees
    <3>3. clientProg \in Nat /\ clientProg < produced
      <4>1. /\ conn.read \in Nat /\ conn.sent \in Nat /\ produced \in Nat
            /\ conn.sent <= produced /\ conn.read < conn.sent
        BY <2>1 DEF IInv, TypeOK, WireOK, Connections
      <4> QED
        BY <3>1, <3>2, <4>1
    <3>4. Len(delivered) = clientProg
      BY <3>3, AppendNext DEF IInv, ExactlyOnce
    <3>5. Abstract!Deliver
      <4>1. conn.read + 1 = Len(delivered) + 1
        BY <3>1, <3>2, <3>4
      <4>2. Len(delivered) < produced
        BY <3>3, <3>4
      <4> QED
        BY <2>1, <3>1, <4>1, <4>2 DEF Abstract!Deliver
    <3> QED
      BY <3>5
  <2>3. CASE ~isFreshData
    BY <1>3, <2>1, <2>3 DEF ReadData, onStaleData
  <2> QED
    BY <2>2, <2>3
<1>4. CASE evtPROG
  BY <1>1, <1>4 DEF evtPROG
<1>5. CASE ServerProduces
  BY <1>5 DEF ServerProduces, client, Abstract!Produce
<1>6. CASE \/ StartSession \/ evtLOOP \/ evtCONOK \/ evtTransportError
           \/ bindElsewhere \/ sendRecovery \/ evtCheckRecoveryTimeout
           \/ ServerWrites \/ ServerLoops \/ ServerBinds \/ ServerRecovers
           \/ UNCHANGED vars
  BY <1>6 DEF StartSession, evtLOOP, evtCONOK, evtTransportError, bindElsewhere,
              sendRecovery, evtCheckRecoveryTimeout, ServerWrites, ServerLoops,
              ServerBinds, ServerRecovers, client, vars
<1> QED
  BY <1>2, <1>3, <1>4, <1>5, <1>6 DEF Next, Client, Server

(* The session implements exactly-once in-order delivery. *)
THEOREM Refinement == Spec => DeliverySpec
<1>1. Init => Abstract!Init
  BY DEF Init, Abstract!Init
<1>2. IInv /\ [Next]_vars => [Abstract!Next]_(Abstract!vars)
  BY StepRefines
<1> QED
  BY <1>1, <1>2, Invariance, PTL DEF Spec, DeliverySpec, Abstract!Spec
=============================================================================
