----------------------------- MODULE SimpleTasks -----------------------------
(* ExecutorSimple: the executor of the web library that has a timer of the    *)
(* browser for each task, which a delay does not move: it is served when the  *)
(* timer fires, by another one.                                               *)
EXTENDS Integers, FiniteSets

CONSTANTS
    SimpleTaskIds,     \* tasks
    TaskTimes,         \* times of tasks and their delays
    MaxWaited,         \* bound: units of time that pass
    SimpleAvoided      \* "stops_again": what is stopped has its timer set

ASSUME SimpleTasksAssumption ==
    IsFiniteSet(SimpleTaskIds) /\ 0 \notin SimpleTaskIds /\ TaskTimes \subseteq Nat

VARIABLE simple        \* [task, active, running, served, now]

NoTask == 0
Unset == -1

(* --- the executor ----------------------------------------------------------*)
getQueueLength(s) == s.active
packTask == [state |-> "packed", repetitive |-> FALSE, time |-> 0, delay |-> 0, left |-> Unset, due |-> 0, early |-> FALSE, runs |-> 0]
addPackedTimedTask(s, t, time, repetitive) ==
    [s EXCEPT !.active = @ + 1,
              !.task[t] = [@ EXCEPT !.state = "added", !.time = time, !.repetitive = repetitive, !.left = time]]
stopTask(s, t) == [s EXCEPT !.active = @ - 1, !.task[t] = [@ EXCEPT !.left = Unset, !.state = "stopped"]]
(* What runs may call the executor before it returns.                         *)
runTask(s, t) ==
    LET k == s.task[t] IN
    [s EXCEPT !.running = t,
              !.task[t] = [k EXCEPT !.runs = @ + 1, !.early = @ \/ s.now < k.due, !.left = IF k.repetitive THEN k.time ELSE Unset]]
getExecuteTaskClosure(s, t) ==
    IF s.task[t].delay # 0
    THEN [addPackedTimedTask([s EXCEPT !.task[t].delay = 0], t, s.task[t].delay, FALSE) EXCEPT !.served = @ + 1]
    ELSE runTask(s, t)

(* --- actions ---------------------------------------------------------------*)
SimpleTasksInit == simple = [task |-> [t \in SimpleTaskIds |-> packTask], active |-> 0, running |-> NoTask, served |-> 0, now |-> 0]
addTask(t, time, repetitive) ==
    /\ simple.task[t].state = "packed"
    /\ simple' = [addPackedTimedTask(simple, t, time, repetitive) EXCEPT !.task[t].due = simple.now + time]
StopTask(t) ==
    /\ simple.task[t].state # "packed"
    /\ "stops_again" \in SimpleAvoided => simple.task[t].left # Unset
    /\ simple.active > -2
    /\ simple' = stopTask(simple, t)
(* It throws for a repetitive one.                                            *)
delayTask(t, delay) ==
    LET k == simple.task[t] IN
    /\ k.state = "added" /\ ~k.repetitive /\ k.due + delay <= MaxWaited
    /\ simple' = [simple EXCEPT !.task[t] = [k EXCEPT !.delay = @ + delay, !.due = @ + delay]]
TimerFires(t) ==
    /\ simple.running = NoTask /\ simple.task[t].left = 0
    /\ simple' = getExecuteTaskClosure(simple, t)
Returns ==
    /\ simple.running # NoTask
    /\ simple' = [simple EXCEPT !.running = NoTask, !.active = IF simple.task[simple.running].repetitive THEN @ ELSE @ - 1]
(* Timers are never early, and late when the page is busy.                    *)
TimePasses ==
    /\ simple.now < MaxWaited
    /\ simple' = [simple EXCEPT !.now = @ + 1,
                                !.task = [t \in SimpleTaskIds |-> LET k == simple.task[t] IN IF k.left > 0 THEN [k EXCEPT !.left = @ - 1] ELSE k]]

SimpleTasksNext ==
    \/ \E t \in SimpleTaskIds : StopTask(t) \/ TimerFires(t)
    \/ \E t \in SimpleTaskIds, time \in TaskTimes : delayTask(t, time) \/ \E repetitive \in BOOLEAN : addTask(t, time, repetitive)
    \/ Returns \/ TimePasses
-----------------------------------------------------------------------------
OnTheirWay(s) == {t \in SimpleTaskIds : s.task[t].left # Unset \/ (s.running = t /\ ~s.task[t].repetitive)}

(* A task never runs before its time and all its delays have passed, and once *)
(* if it is not repetitive, unless it was stopped; the length of the queue is *)
(* that of the tasks on their way, and of every delay that was served: it is  *)
(* never decremented for those.                                               *)
SimpleTasksInTime ==
    /\ \A t \in SimpleTaskIds :
          LET k == simple.task[t] IN
          /\ ~k.early
          /\ k.runs > 1 => k.repetitive
          /\ k.left = Unset /\ k.state = "added" /\ ~k.repetitive => k.runs = 1
    /\ getQueueLength(simple) = Cardinality(OnTheirWay(simple)) + simple.served
=============================================================================
