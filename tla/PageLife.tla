------------------------------ MODULE PageLife ------------------------------
(* The life of the page as EnvironmentStatus tells it: handlers added for the *)
(* load of the page, for its unload and for the moment before it. Several     *)
(* sources may tell one event; a handler added too late runs on its own. A    *)
(* handler that runs may add and remove others.                               *)
EXTENDS Positions

CONSTANTS PageHandlers, PageEvents, MaxAdded, MaxFirings, PageAvoided

VARIABLE page

PreUnload == "preunload"
CountOf(s, P, h) == Cardinality({j \in P : s[j] = h})
NoRuns == [h \in PageHandlers |-> 0]
NewEvent == [list |-> <<>>, i |-> 0, inProgress |-> FALSE, done |-> FALSE, later |-> <<>>,
             owed |-> NoRuns, added |-> 0, fired |-> 0]
PageInit == page = [k \in PageEvents |-> NewEvent]

Executing(k) == page[k].i > 0
Idle == \A k \in PageEvents : ~Executing(k)

(* isPreOnload, isPreUnload; the handlers of the moment before the unload     *)
(* stay, and those added while it is told run on their own as well.           *)
IsPre(k) == ~page[k].inProgress /\ ~page[k].done
addHandler(k, h) ==
    LET e == page[k]
        added == IF k = PreUnload \/ IsPre(k) THEN [e EXCEPT !.list = Append(@, h)] ELSE e
        late == IF k = PreUnload THEN e.inProgress ELSE ~IsPre(k)
    IN /\ e.added < MaxAdded
       /\ "adding_before_unload" \in PageAvoided /\ k = PreUnload => ~Executing(k)
       /\ page' = [page EXCEPT ![k] = [added EXCEPT !.added = @ + 1, !.later = IF late THEN Append(@, h) ELSE @,
                                                    !.owed[h] = IF k = PreUnload /\ ~late THEN @ ELSE @ + 1]]
removeHandler(k, h) ==
    LET e == page[k]
        places == {i \in DOMAIN e.list : e.list[i] = h}
    IN /\ "removing_while_told" \in PageAvoided => ~Executing(k)
       /\ places # {}
       /\ page' = [page EXCEPT ![k] = [e EXCEPT !.list = Pick(@, DOMAIN @ \ {Nth(places, 1)}),
                                                !.owed[h] = IF k = PreUnload \/ e.done THEN @ ELSE @ - 1]]

(* getEventClosure: nothing if the event was told already; else the handlers  *)
(* along the list as it is, which is emptied in the end. The moment before    *)
(* the unload may come again.                                                 *)
Fire(k) ==
    LET e == page[k] IN
    /\ Idle /\ e.fired < MaxFirings
    /\ page' = [page EXCEPT ![k] =
                  [e EXCEPT !.fired = @ + 1, !.inProgress = IF e.done THEN @ ELSE TRUE, !.i = IF e.done THEN 0 ELSE 1,
                            !.owed = IF k # PreUnload THEN @
                                     ELSE [h \in PageHandlers |-> @[h] + CountOf(e.list, DOMAIN e.list, h)]]]
Ran(e, h) == [e EXCEPT !.owed[h] = @ - 1]
ExecuteNext(k) ==
    LET e == page[k]
        told == [e EXCEPT !.i = 0, !.inProgress = FALSE, !.done = k # PreUnload,
                          !.list = IF k = PreUnload THEN @ ELSE <<>>]
    IN /\ Executing(k)
       /\ page' = [page EXCEPT ![k] = IF e.i > Len(e.list) THEN told ELSE Ran([e EXCEPT !.i = @ + 1], e.list[e.i])]
asynchSingleEventExecution(k) ==
    LET e == page[k] IN
    /\ Idle /\ e.later # <<>>
    /\ page' = [page EXCEPT ![k] = Ran([e EXCEPT !.later = Tail(@)], Head(e.later))]

PageNext ==
    \E k \in PageEvents :
      \/ \E h \in PageHandlers : addHandler(k, h) \/ removeHandler(k, h)
      \/ Fire(k) \/ ExecuteNext(k) \/ asynchSingleEventExecution(k)
PageSpec == PageInit /\ [][PageNext]_page
-----------------------------------------------------------------------------
(* A handler runs once for each time it was added, whether it came before,    *)
(* while or after the event was told; and those of the moment before the      *)
(* unload once each time: no run too many, none missing in the end.           *)
HandlersRunOnce ==
    \A k \in PageEvents, h \in PageHandlers :
      /\ page[k].owed[h] >= 0
      /\ ~Executing(k) /\ page[k].later = <<>> /\ (k = PreUnload \/ page[k].done) => page[k].owed[h] = 0
=============================================================================
