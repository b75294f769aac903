------------------------------- MODULE Delays -------------------------------
(* How long the client waits before it tries again to create a session:       *)
(* RetryDelayCounter, the connection timeout and the pause of ClientMachine,  *)
(* in time relative to the last attempt. ClientMachine says what else happens *)
(* in these states; timers there expire at any moment.                        *)
EXTENDS Integers, FiniteSetsExt

CONSTANTS
    RetryDelays,    \* values of the option retryDelay
    FirstPauses,    \* results of randomGenerator(firstRetryMaxDelay)
    SameDelays,     \* retries before the delay grows: 10
    LongestDelay,   \* to which it grows: 60 seconds
    MaxSince        \* bound: a timer is no later than this

ASSUME DelaysAssumption ==
    /\ RetryDelays \subseteq Nat \ {0} /\ FirstPauses \subseteq Nat
    /\ {SameDelays, LongestDelay, MaxSince} \subseteq Nat

VARIABLE delays     \* [m, attempt, current, option, since, left, base, retries]

(* The attempts under way: a WebSocket that is opening (s120) or that has     *)
(* opened (s122), HTTP (s130), HTTP when the server is not busy (s140).       *)
Creating == {120, 122, 130, 140}
NoTimer == -1
Most(a, b) == IF a > b THEN a ELSE b
Fewest(a, b) == IF a < b THEN a ELSE b

(* Fault: the delay grows one retry too early.                                *)
increase_Early(d) ==
    IF d.attempt < SameDelays THEN [d EXCEPT !.attempt = @ + 1]
    ELSE IF d.current < LongestDelay THEN [d EXCEPT !.current = Fewest(2 * @, LongestDelay)] ELSE d

increase(d) ==
    IF d.attempt <= SameDelays THEN [d EXCEPT !.attempt = @ + 1]
    ELSE IF d.current < LongestDelay THEN [d EXCEPT !.current = Fewest(2 * @, LongestDelay)] ELSE d
reset(d) == [d EXCEPT !.attempt = 1, !.current = d.option, !.base = d.option, !.retries = 0]

waitingInterval(expected, since) == Most(0, expected - since)
Schedule(d, m, after) == [d EXCEPT !.m = m, !.left = after]

(* openWS_Create and sendCreateHTTP note the time of the attempt.             *)
Attempt(d, m) == Schedule([d EXCEPT !.since = 0], m, IF m = 140 THEN LongestDelay ELSE d.current)
evtSelectCreate(d) == {Attempt(d, 120), Attempt(d, 130)}
Pause(d, m) == Schedule(d, m, waitingInterval(d.current, d.since))
AfterFailure(d) == Pause(d, IF d.m = 140 THEN 111 ELSE 112)
Ended(d) == Schedule(reset(d), 100, NoTimer)

DelaysInit ==
    \E o \in RetryDelays :
        delays = [m |-> 100, attempt |-> 1, current |-> o, option |-> o, since |-> 0, left |-> NoTimer,
                  base |-> o, retries |-> 0]

connect == delays.m = 100 /\ delays' \in evtSelectCreate(reset(delays))
disconnect == delays.m # 100 /\ delays' = Ended(delays)
setRetryDelay(o) == delays' = [delays EXCEPT !.option = o]

(* A WebSocket that does not open in time is given up for HTTP at once; any   *)
(* other attempt is followed by a pause.                                      *)
evtWSOK == delays.m = 120 /\ delays' = [delays EXCEPT !.m = 122]
FailAttempt ==
    \/ delays.m = 120 /\ delays' = Attempt(delays, 130)
    \/ delays.m \in Creating \ {120} /\ delays' = AfterFailure(delays)
evtTransportTimeout == delays.left = 0 /\ FailAttempt
evtTransportError == FailAttempt

(* The server refuses: for a while (a pause, then from the beginning), or     *)
(* until it is less busy (a session that waits for it is asked at once).      *)
evtCONERR ==
    /\ delays.m \in Creating \ {120}
    /\ delays' \in {Pause(delays, 112), Attempt(delays, 140), Ended(delays)}
evtCONOK == delays.m \in Creating \ {120} /\ delays' = Schedule(reset(delays), 150, NoTimer)

(* A session that is lost is followed by a pause at random, one that never    *)
(* got beyond its first data by a pause since the attempt.                    *)
LoseSession ==
    /\ delays.m = 150
    /\ delays' \in {Schedule(delays, 113, p) : p \in FirstPauses} \cup {Pause(delays, 112)}

evtRetryTimeout ==
    /\ delays.left = 0
    /\ LET grown == [increase(delays) EXCEPT !.retries = Fewest(@ + 1, SameDelays + LongestDelay)]
       IN \/ delays.m = 113 /\ delays' \in evtSelectCreate(delays)
          \/ delays.m = 112 /\ delays' \in evtSelectCreate(grown)
          \/ delays.m = 111 /\ delays' = Attempt(grown, 140)

(* The network is back: a pause is cut short.                                 *)
evtOnlineAgain == delays.m = 112 /\ delays' \in evtSelectCreate(delays)

Tick ==
    /\ delays.m # 100 /\ delays.since < MaxSince
    /\ delays' = [delays EXCEPT !.since = @ + 1, !.left = IF @ > 0 THEN @ - 1 ELSE @]

DelaysNext ==
    \/ connect \/ disconnect \/ evtWSOK \/ evtTransportTimeout \/ evtTransportError
    \/ evtCONERR \/ evtCONOK \/ LoseSession \/ evtRetryTimeout
    \/ evtOnlineAgain \/ Tick
    \/ \E o \in RetryDelays : setRetryDelay(o)
-----------------------------------------------------------------------------
TwoTo[n \in 0..LongestDelay] == IF n = 0 THEN 1 ELSE 2 * TwoTo[n - 1]

(* The delay after so many retries since the application connected or a       *)
(* session was created: the one configured then, doubled by each retry after  *)
(* the first ones up to the longest, and never less than configured.          *)
DelayAfter(retries, base) ==
    IF retries <= SameDelays THEN base
    ELSE Most(base, Fewest(LongestDelay, base * TwoTo[retries - SameDelays]))

(* Attempts follow each other by the delay that many failures ask for, from   *)
(* the start of one to the start of the next, whatever the first one ended    *)
(* by: a pause is set to end then and no later.                               *)
PausesGrow ==
    /\ delays.left > 0 /\ delays.m \in {111, 112, 120, 122, 130} =>
          delays.since + delays.left = DelayAfter(delays.retries, delays.base)
    /\ delays.left = 0 /\ delays.m \in {111, 112} =>
          delays.since >= DelayAfter(delays.retries, delays.base)
=============================================================================
