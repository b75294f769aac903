------------------------------- MODULE Events -------------------------------
(* The executor of the web library, a queue of timed tasks sorted only when   *)
(* something new is in it; an EventDispatcher that tells its listeners        *)
(* through it (or, with useSynchEvents, at once); a Dismissable object that   *)
(* cleans itself some time after its last user has left; and repetitive       *)
(* tasks. A turn of the executor takes one task after the other: between two  *)
(* of them, and between two listeners told at once, their callbacks may call  *)
(* anything.                                                                  *)
EXTENDS Positions, TLC

CONSTANTS
    Handlers, Users,
    Synchs,           \* the values of synchEvents
    MaxCalls, MaxNow,    \* bounds: calls of the application, time
    TouchTimeout, Step,
    EventsAvoided        \* what does not happen: "removal_while_dispatched"

ASSUME EventsAssumption == {TouchTimeout, Step} \subseteq Nat /\ Synchs \subseteq BOOLEAN

NoDispatch == [n |-> 0, i |-> 0]

VARIABLE events
EventsSymmetry == Permutations(Handlers) \cup Permutations(Users)

(* --- Executor ------------------------------------------------------------*)
(* packTask and addPackedTimedTask.                                           *)
Pack(what, l, n) == [what |-> what, l |-> l, n |-> n, time |-> 0, id |-> 0]
addTimedTasks(e, tasks, delay) ==
    [e EXCEPT !.queue = @ \o [i \in DOMAIN tasks |-> [tasks[i] EXCEPT !.time = e.now + delay, !.id = e.nextId + i - 1]],
              !.nextId = @ + Len(tasks), !.newStuff = @ \/ tasks # <<>>]
addTimedTask(e, task, delay) == addTimedTasks(e, <<task>>, delay)
sortFun(a, b) == a.time < b.time \/ (a.time = b.time /\ a.id < b.id)
UpToIt(queue, i) == {j \in DOMAIN queue : ~sortFun(queue[i], queue[j])}
Ranked(queue, r) == CHOOSE i \in DOMAIN queue : Cardinality(UpToIt(queue, i)) = r
InOrder(queue) == [r \in DOMAIN queue |-> queue[Ranked(queue, r)]]

IsLive(e, task) == task.what = "repeat" => e.repeats[task.n] = "live"

(* --- EventDispatcher -----------------------------------------------------*)
(* Owed: what a listener should still be told. Who joins while an event is    *)
(* told at once is told it too.                                               *)
(* A registration is an object of its own: its listening flag is what tells   *)
(* the events still in the queue from those of a later registration.          *)
Registered(e) == {e.objs[e.list[i]].handler : i \in DOMAIN e.list}
find(e, h) == CHOOSE i \in DOMAIN e.list : e.objs[e.list[i]].handler = h
Forced(task) == task.what \in {"start", "end"}
Owe(e, h, item) == [e EXCEPT !.owed[h] = Append(@, item)]
Told(e, h, item) ==
    IF e.owed[h] # <<>> /\ Head(e.owed[h]) = item THEN [e EXCEPT !.owed[h] = Tail(@)]
    ELSE Owe(e, h, <<"unexpected", 0>>)
dispatchToOneListenerExecution_Whoever(e, task) == Told(e, e.objs[task.l].handler, <<task.what, task.n>>)
dispatchToOneListenerExecution(e, task) ==
    LET obj == e.objs[task.l]
    IN IF Forced(task) \/ obj.listening THEN Told(e, obj.handler, <<task.what, task.n>>) ELSE e
dispatchToOneListener(e, task) ==
    IF e.synch THEN Told(e, e.objs[task.l].handler, <<task.what, task.n>>) ELSE addTimedTask(e, task, 0)

Listen(e, h) ==
    LET o == Len(e.objs) + 1
        added == [e EXCEPT !.objs = Append(@, [handler |-> h, listening |-> TRUE]), !.list = Append(@, o)]
    IN IF h \in Registered(e) THEN e
       ELSE LET told == dispatchToOneListener(Owe(added, h, <<"start", o>>), Pack("start", o, o))
            IN IF e.dispatch = NoDispatch THEN told ELSE Owe(told, h, <<"event", e.n>>)
Unlisten(e, h) ==
    LET o == e.list[find(e, h)]
        removed == [e EXCEPT !.objs[o].listening = FALSE, !.list = Pick(@, DOMAIN @ \ {find(e, h)}),
                             !.owed[h] = Pick(@, {i \in DOMAIN @ : @[i][1] # "event"})]
    IN IF h \notin Registered(e) THEN e
       ELSE dispatchToOneListener(Owe(removed, h, <<"end", o>>), Pack("end", o, o))
OweAll(e, n) == [e EXCEPT !.owed = [h \in Handlers |-> IF h \in Registered(e) THEN Append(@[h], <<"event", n>>)
                                                      ELSE @[h]]]

(* --- actions -------------------------------------------------------------*)
InitialEvents(synch) ==
    [queue |-> <<>>, repeated |-> <<>>, now |-> 0, nextId |-> 0, newStuff |-> FALSE, looping |-> FALSE,
 objs |-> <<>>, list |-> <<>>, synch |-> synch, dispatch |-> NoDispatch, n |-> 0,
 owed |-> [h \in Handlers |-> <<>>], users |-> {}, inUse |-> 0, touchPhase |-> 0, clean |-> TRUE, repeats |-> <<>>]
EventsInit == \E s \in Synchs : events = InitialEvents(s)

Calls == Len(events.objs) + events.n + events.touchPhase + Len(events.repeats)
addListener(h) == Calls < MaxCalls /\ events' = Listen(events, h)
removeListener(h) ==
    /\ "removal_while_dispatched" \in EventsAvoided => events.dispatch = NoDispatch
    /\ events' = Unlisten(events, h)

(* dispatchEvent goes along the list as it is at each step (List.forEach).    *)
dispatchEvent ==
    LET n == events.n + 1
        e == OweAll([events EXCEPT !.n = n], n)
    IN /\ Calls < MaxCalls /\ events.dispatch = NoDispatch
       /\ events' = IF e.synch THEN [e EXCEPT !.dispatch = [n |-> n, i |-> 1]]
                    ELSE addTimedTasks(e, [i \in DOMAIN e.list |-> Pack("event", e.list[i], n)], 0)
NextListener ==
    LET d == events.dispatch
        e == [events EXCEPT !.dispatch.i = @ + 1]
    IN /\ d # NoDispatch
       /\ events' = IF d.i > Len(events.list) THEN [events EXCEPT !.dispatch = NoDispatch]
                    ELSE dispatchToOneListener(e, Pack("event", events.list[d.i], d.n))

touch(u) ==
    /\ u \notin events.users /\ Calls < MaxCalls
    /\ events' = [events EXCEPT !.users = @ \cup {u}, !.touchPhase = @ + 1, !.clean = FALSE,
                                !.inUse = (IF @ < 0 THEN 0 ELSE @) + 1]
dismiss(u) ==
    LET e == [events EXCEPT !.users = @ \ {u}, !.inUse = @ - 1]
    IN /\ u \in events.users
       /\ events' = IF e.inUse <= 0 THEN addTimedTask(e, Pack("verify", 0, e.touchPhase), TouchTimeout) ELSE e
verifyTouches(e, task) == IF task.n = e.touchPhase /\ e.inUse <= 0 THEN [e EXCEPT !.clean = TRUE] ELSE e

addRepetitiveTask ==
    LET r == Len(events.repeats) + 1
    IN Calls < MaxCalls /\ events' = addTimedTask([events EXCEPT !.repeats = Append(@, "live")], Pack("repeat", 0, r), Step)
stopRepetitiveTask(r) == events.repeats[r] = "live" /\ events' = [events EXCEPT !.repeats[r] = "stopped"]

(* execute: a turn begins, takes what is due, and ends by putting the tasks   *)
(* to be repeated in the queue again.                                         *)
Turn(now) ==
    /\ ~events.looping /\ events.dispatch = NoDispatch
    /\ events' = [events EXCEPT !.now = now, !.looping = TRUE, !.newStuff = FALSE,
                                !.queue = IF events.newStuff THEN InOrder(@) ELSE @]
IsDue == events.queue # <<>> /\ Head(events.queue).time <= events.now
executeTask ==
    /\ events.looping /\ IsDue /\ events.dispatch = NoDispatch
    /\ LET task == Head(events.queue)
           e == [events EXCEPT !.queue = Tail(@)]
       IN \/ task.what \in {"start", "event", "end"}
             /\ events' = dispatchToOneListenerExecution(e, task)
          \/ task.what = "verify" /\ events' = verifyTouches(e, task)
          \/ task.what = "repeat" /\ events' = IF IsLive(e, task) THEN [e EXCEPT !.repeated = Append(@, task)] ELSE e
EndOfTurn ==
    LET e == [events EXCEPT !.looping = FALSE, !.repeated = <<>>, !.nextId = IF events.queue = <<>> THEN 0 ELSE @]
        again == Pick(events.repeated, {i \in DOMAIN events.repeated : IsLive(events, events.repeated[i])})
    IN /\ events.looping /\ ~IsDue /\ events.dispatch = NoDispatch
       /\ events' = addTimedTasks(e, again, Step)

EventsNext ==
    \/ \E h \in Handlers : addListener(h) \/ removeListener(h)
    \/ dispatchEvent \/ NextListener
    \/ \E u \in Users : touch(u) \/ dismiss(u)
    \/ addRepetitiveTask
    \/ \E r \in DOMAIN events.repeats : stopRepetitiveTask(r)
    \/ \E now \in {events.now, events.now + 1} : now <= MaxNow /\ Turn(now)
    \/ executeTask \/ EndOfTurn
EventsSpec == EventsInit /\ [][EventsNext]_events
-----------------------------------------------------------------------------
(* What is still to be told to a listener is what it is owed, in that order:  *)
(* its beginning, the events of the time it was registered and only those,    *)
(* its end. When events are told at once nothing is owed once they are told.  *)
IsFor(e, h, t) ==
    /\ t.what \in {"start", "event", "end"} /\ e.objs[t.l].handler = h
    /\ Forced(t) \/ e.objs[t.l].listening
WhatIsTold(e) == [i \in DOMAIN e.queue |-> <<e.queue[i].what, e.queue[i].n>>]
Undelivered(e, h) == Pick(WhatIsTold(e), {i \in DOMAIN e.queue : IsFor(e, h, e.queue[i])})
EventsReachListeners ==
    IF events.synch THEN events.dispatch = NoDispatch => \A h \in Handlers : events.owed[h] = <<>>
    ELSE \A h \in Handlers : Undelivered(events, h) = events.owed[h]

(* A Dismissable is never clean while somebody uses it, and when nobody does  *)
(* the check that cleans it is in the queue.                                  *)
DismissedInTime ==
    /\ events.users # {} => ~events.clean
    /\ events.users = {} /\ ~events.clean =>
          \E i \in DOMAIN events.queue : events.queue[i].what = "verify" /\ events.queue[i].n = events.touchPhase

(* A task to be repeated is in the executor exactly once, whatever stops it   *)
(* or others meanwhile, and nothing else stays for ever.                      *)
Times(r) ==
    LET here(s) == Cardinality({i \in DOMAIN s : s[i].what = "repeat" /\ s[i].n = r})
    IN here(events.queue) + here(events.repeated)
RepeatedOnce ==
    \A r \in DOMAIN events.repeats : IF events.repeats[r] = "live" THEN Times(r) = 1 ELSE Times(r) <= 1

(* The tasks of one turn run by time and, at one time, as they were given,    *)
(* although a turn does not sort again what its own tasks add.                *)
RunsInOrder ==
    events.looping /\ IsDue => \A i \in DOMAIN events.queue : ~sortFun(events.queue[i], Head(events.queue))
=============================================================================
