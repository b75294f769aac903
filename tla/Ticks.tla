-------------------------------- MODULE Ticks --------------------------------
(* The ticks of the web library's executor: an interval, which is slow in a   *)
(* page out of sight, and for urgent tasks a tick at once, by a message the   *)
(* page posts to itself or by the next tick of Node, of which one is under    *)
(* way at a time. What a turn does with the tasks is in Events.               *)
EXTENDS Integers

CONSTANTS
    Surroundings,      \* where the library runs, see below
    MaxUrgent,         \* bound: urgent tasks, messages on their way
    TicksAvoided       \* what does not happen: "post_fails", "other_messages"

VARIABLE ticks         \* [where, generator, timer, pending, transit, waiting]

(* A page posts messages, which come "later" or "at once" (old Explorers); an *)
(* older one has none; a worker starts its executor after a while.            *)
Pages == {"page", "local_page", "at_once_page", "older_page"}
origin(t) == IF t.where = "local_page" THEN "*" ELSE "own"

(* --- the executor -----------------------------------------------------------*)
(* execute: all that waits runs, and nothing after the page is unloaded.      *)
execute(t) == IF t.timer = "cleared" THEN t ELSE [t EXCEPT !.waiting = 0]
doTick(t) == execute([t EXCEPT !.pending = FALSE])

(* generateTickExecution: the second attempt follows one that fails.          *)
Posts(t) == IF t.where = "at_once_page" THEN {doTick(t)} ELSE {[t EXCEPT !.transit = @ + 1]}
Outcomes(t) == IF "post_fails" \in TicksAvoided THEN Posts(t) ELSE Posts(t) \cup {t}
generateTickExecution(t) ==
    IF t.generator = "none" THEN {t}
    ELSE IF t.generator = "node" THEN {[t EXCEPT !.transit = @ + 1]} ELSE Outcomes(t)
generateTick(t) == IF t.pending THEN {t} ELSE generateTickExecution([t EXCEPT !.pending = TRUE])

(* doInit: a page tries its messages, and does without when the tick was done *)
(* before the call returned.                                                  *)
RolledBack(t) == IF t.pending THEN t ELSE [t EXCEPT !.generator = "none"]
doInit(t) ==
    LET timed == [t EXCEPT !.timer = "set"]
    IN IF t.where \in Pages \ {"older_page"}
       THEN {RolledBack(p) : p \in generateTick([timed EXCEPT !.generator = "post"])}
       ELSE {[timed EXCEPT !.generator = IF t.where = "node" THEN "node" ELSE "none"]}

(* --- actions ---------------------------------------------------------------*)
TicksInit ==
    \E w \in Surroundings :
        LET t == [where |-> w, generator |-> "none", timer |-> "none", pending |-> FALSE, transit |-> 0,
                  waiting |-> 0]
        IN IF w = "worker" THEN ticks = t ELSE ticks \in doInit(t)
Start == ticks.timer = "none" /\ ticks' \in doInit(ticks)
addTimedTask0 ==
    /\ ticks.waiting < MaxUrgent
    /\ ticks' \in generateTick([ticks EXCEPT !.waiting = @ + 1])
Interval == ticks.timer = "set" /\ ticks' = execute(ticks)
(* The handler of messages: one of its own page ticks whatever it says.       *)
OwnTick ==
    /\ ticks.transit > 0
    /\ ticks' = doTick([ticks EXCEPT !.transit = @ - 1])
OtherMessage(data, from) ==
    /\ ticks.generator = "post" /\ "other_messages" \notin TicksAvoided
    /\ ticks.transit < MaxUrgent
    /\ (data = "Lightstreamer.run" /\ origin(ticks) = "*") \/ from = origin(ticks)
    /\ ticks' = doTick(ticks)
Unloaded == ticks.timer # "cleared" /\ ticks' = [ticks EXCEPT !.timer = "cleared"]

TicksNext ==
    \/ Start \/ addTimedTask0 \/ Interval \/ OwnTick \/ Unloaded
    \/ \E data \in {"Lightstreamer.run", "other"}, from \in {"own", "foreign"} : OtherMessage(data, from)
-----------------------------------------------------------------------------
(* An urgent task waits for the interval only where there is no other tick:   *)
(* elsewhere one is on its way, and never more than one.                      *)
UrgentIsTicked ==
    /\ ticks.waiting > 0 /\ ticks.timer = "set" /\ ticks.generator # "none" => ticks.transit > 0
    /\ "other_messages" \in TicksAvoided => ticks.transit <= 1
=============================================================================
