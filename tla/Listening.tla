------------------------------ MODULE Listening ------------------------------
(* A widget that listens to subscriptions: AbstractWidget counts those that   *)
(* are subscribed, to clean itself when the first one starts and when the     *)
(* last one ends, and takes from the first it listens to what makes the key   *)
(* of a row. The events of a subscription wait in the queue of the client,    *)
(* while its state is already the new one.                                    *)
EXTENDS Integers, Sequences, FiniteSets

CONSTANTS
    Subs,            \* the subscriptions
    Modes,           \* {"MERGE", "DISTINCT", "COMMAND"}
    QueueBound,      \* bound: of the events that wait
    ListenAvoided    \* what the application does not do

VARIABLE listens

None == "none"
InQueue(h, e) == \E i \in DOMAIN h.queue : h.queue[i] = e
Enqueue(h, e, s) == [h EXCEPT !.queue = Append(@, <<e, s>>)]
FireIfListening(h, e, s) == IF s \in h.listeners THEN Enqueue(h, e, s) ELSE h

(* Rows are known by the subscription they come from, and by whether the      *)
(* widget has been without subscriptions since (ghost), as has what it has    *)
(* been told of them (ghost told).                                            *)
clean(h) == [h EXCEPT !.rows = {}]
Tell(h, s) == [h EXCEPT !.told = @ \cup {s}]
Untell(h, s) ==
    [h EXCEPT !.told = @ \ {s}, !.rows = IF h.told = {s} THEN {[r EXCEPT !.old = TRUE] : r \in @} ELSE @]

chooseInterpretation(h) ==
    LET mode == IF h.master = None THEN "MERGE" ELSE h.mode[h.master]
    IN [h EXCEPT !.kind = CASE mode = "MERGE" -> "item" [] mode = "DISTINCT" -> "update" [] OTHER -> "key",
                 !.keyField = IF mode = "COMMAND" /\ h.byName THEN "name" ELSE @]

(* The positions of key and command are known while the subscription they     *)
(* are asked of is subscribed; otherwise onSubscription ends by an exception, *)
(* which the dispatcher of events logs.                                       *)
NeedsPositions(h) == h.kind = "key" /\ h.keyField = None
onSubscription(h, s) ==
    LET first == Tell(IF h.active = 0 /\ h.cleanFirst THEN clean(h) ELSE h, s)
    IN IF ~NeedsPositions(h) THEN [first EXCEPT !.active = @ + 1]
       ELSE IF h.status[h.master] = "subscribed" THEN [first EXCEPT !.active = @ + 1, !.keyField = "position"]
       ELSE first
onUnsubscription(h, s) ==
    LET last == Untell([h EXCEPT !.active = @ - 1], s)
    IN IF last.active = 0 /\ h.cleanLast THEN clean(last) ELSE last

(* Fault: the subscription is not asked whether it is subscribed already.     *)
onListenStart_NotAsked(h, s) ==
    IF h.master # None THEN h
    ELSE IF h.forced THEN [h EXCEPT !.master = s] ELSE chooseInterpretation([h EXCEPT !.master = s])

onListenStart(h, s) ==
    LET mastered == IF h.master # None THEN h ELSE [h EXCEPT !.master = s]
        chosen == IF h.master = None /\ ~h.forced THEN chooseInterpretation(mastered) ELSE mastered
    IN IF h.status[s] = "subscribed" THEN onSubscription(chosen, s) ELSE chosen
onListenEnd(h, s) == IF h.status[s] = "subscribed" THEN onUnsubscription(h, s) ELSE Untell(h, s)
onItemUpdate(h, s) == [h EXCEPT !.rows = @ \cup {[from |-> s, old |-> FALSE]}]

(* What the parts that pass avoid, each a defect described in the README: a   *)
(* COMMAND subscription whose fields have no names (here not to be told apart *)
(* from one that is not the first to be subscribed), and a subscription that  *)
(* starts or ends before the widget is told that it listens to it or no       *)
(* longer does.                                                               *)
ListeningInit ==
    \E mode \in [Subs -> Modes], byName, first, last \in BOOLEAN :
        /\ "positions_unknown" \in ListenAvoided => byName
        /\ listens = [mode |-> mode, byName |-> byName, status |-> [s \in Subs |-> "idle"], listeners |-> {},
                       queue |-> <<>>, active |-> 0, cleanFirst |-> first, cleanLast |-> last, master |-> None,
                       kind |-> "item", forced |-> FALSE, keyField |-> None, rows |-> {}, told |-> {}]

MayChange(s) ==
    "changes_while_told" \in ListenAvoided =>
        ~InQueue(listens, <<"start", s>>) /\ ~InQueue(listens, <<"end", s>>)
Room == Len(listens.queue) < QueueBound

ListenTo(s) ==
    /\ Room /\ s \notin listens.listeners
    /\ listens' = Enqueue([listens EXCEPT !.listeners = @ \cup {s}], "start", s)
StopListening(s) ==
    /\ Room /\ s \in listens.listeners
    /\ listens' = Enqueue([listens EXCEPT !.listeners = @ \ {s}], "end", s)
Subscribed(s) ==
    /\ Room /\ MayChange(s) /\ listens.status[s] = "idle"
    /\ listens' = FireIfListening([listens EXCEPT !.status[s] = "subscribed"], "subscription", s)
Unsubscribed(s) ==
    /\ Room /\ MayChange(s) /\ listens.status[s] = "subscribed"
    /\ listens' = FireIfListening([listens EXCEPT !.status[s] = "idle"], "unsubscription", s)
Updated(s) ==
    /\ Room /\ listens.status[s] = "subscribed" /\ s \in listens.listeners
    /\ listens' = Enqueue(listens, "update", s)

(* The queue of the client runs the next event.                               *)
RunEvent ==
    /\ listens.queue # <<>>
    /\ LET e == Head(listens.queue)
           h == [listens EXCEPT !.queue = Tail(@)]
       IN listens' = CASE e[1] = "start" -> onListenStart(h, e[2])
                       [] e[1] = "end" -> onListenEnd(h, e[2])
                       [] e[1] = "subscription" -> onSubscription(h, e[2])
                       [] e[1] = "unsubscription" -> onUnsubscription(h, e[2])
                       [] e[1] = "update" -> onItemUpdate(h, e[2])

forceSubscriptionInterpretation(kind) ==
    /\ listens.rows = {}
    /\ listens' = IF kind = None THEN chooseInterpretation([listens EXCEPT !.forced = FALSE])
                  ELSE [listens EXCEPT !.kind = kind, !.forced = TRUE]

ListeningNext ==
    \/ \E s \in Subs : ListenTo(s) \/ StopListening(s) \/ Subscribed(s) \/ Unsubscribed(s) \/ Updated(s)
    \/ RunEvent
    \/ \E kind \in {None, "item", "update"} : forceSubscriptionInterpretation(kind)
-----------------------------------------------------------------------------
(* Once the events are told, the widget counts exactly the subscriptions it   *)
(* listens to that are subscribed; it keeps no row of before the first one    *)
(* and none after the last one, if it is to clean itself then.                *)
SubscriptionsCounted ==
    listens.queue = <<>> =>
      /\ listens.told = {s \in listens.listeners : listens.status[s] = "subscribed"}
      /\ listens.active = Cardinality(listens.told)
      /\ listens.cleanFirst /\ listens.active > 0 => \A r \in listens.rows : ~r.old
      /\ listens.cleanLast /\ listens.active = 0 => listens.rows = {}
=============================================================================
