-------------------------------- MODULE Grid --------------------------------
(* A DynaGrid or a StaticGrid of the web library, from the calls that reach   *)
(* it to the rows of the page. Everything runs on one thread, but a call runs *)
(* listeners of the application in the middle, onVisualUpdate and             *)
(* onCurrentPagesChanged, and those may call updateRow and removeRow again:   *)
(* on the row being updated the call is merged, on any other it is postponed  *)
(* (suspendedUpdates) until the current one is done, and while no row is (as  *)
(* when the pages change with a new row or a new limit) it runs at once.      *)
(* g.stack holds the calls under way, the innermost first; whenever a         *)
(* listener runs, the model stops to let it choose.                           *)
EXTENDS DynaRows, TLC

S == INSTANCE StaticRows

CONSTANTS
    Classes,         \* {"dyna", "static"}
    Kinds,           \* of the rows: {"item", "update", "key"}
    MaxKey,          \* keys are 1..MaxKey
    ItemKeys,        \* the rows of the item whose snapshot is cleared
    Values,          \* of the field a grid may be sorted by
    Limits,          \* the values of setMaxDynaRows, or the rows of the page
    MaxPage,         \* the pages gone to
    Sorts,           \* the arguments of setSort
    ListenerValues,  \* in the updates a listener makes
    ListenerCalls,   \* calls that wait at most at a time
    MaxDepth,        \* frames under way at most when a listener calls
    Avoided          \* what the application does not do, see MayX below

ASSUME GridAssumption ==
    /\ Classes \subseteq {"dyna", "static"} /\ Kinds \subseteq {"item", "update", "key"}
    /\ MaxKey \in Nat /\ ItemKeys \subseteq 1..MaxKey
    /\ Values \subseteq Nat /\ Limits \subseteq Nat /\ Sorts \subseteq {"off", "asc", "desc"}

VARIABLE g
Keys == 1..MaxKey
Fields == Values \cup {Undef}

(* The frames of the stack: an update or a removal, a change of the limit,    *)
(* the loop over postponed calls, a loop over rows to remove (clean,          *)
(* onClearSnapshot) or over rows in excess, what onItemUpdate does last.      *)
(* A call is at the listener of its row, at the listener of the pages, or     *)
(* limiting the rows.                                                         *)
Frame(op, k, v, keys, evict) ==
    [op |-> op, at |-> "listener", key |-> k, val |-> v, keys |-> keys, evict |-> evict]
Dequeuing == Frame("dequeue", Null, Undef, <<>>, FALSE)
Push(h, f) == [h EXCEPT !.stack = <<f>> \o @]
Pop(h) == [h EXCEPT !.stack = Tail(@)]
Top == Head(g.stack)

(* A call done is followed by dequeuePostponedUpdates. Called from within     *)
(* another one, it leaves nothing to do to the outer: one frame stands for    *)
(* both.                                                                      *)
Done(h) == IF Len(h.stack) > 1 /\ h.stack[2] = Dequeuing THEN Pop(h) ELSE [h EXCEPT !.stack[1] = Dequeuing]
Idle == g.stack = <<>>
Seeing == ~Idle /\ Top.op \in {"update", "remove"} /\ Top.at = "listener"
Paging == ~Idle /\ Top.at = "pages"
Listening == Seeing \/ Paging

(* calculatePages: when the number of pages changes, the call on top of the   *)
(* stack stops at onCurrentPagesChanged.                                      *)
NowPages(h) == IF h.maxRow <= 0 THEN 1 ELSE (h.rowCount + h.maxRow - 1) \div h.maxRow
calculatePages(h) ==
    IF h.pages = NowPages(h) THEN h ELSE [h EXCEPT !.pages = NowPages(h), !.stack[1].at = "pages"]
StopsAtPages(h) == Head(h.stack).at = "pages"

(* removeRow, up to the call of the first listener.                           *)
deleteLater(h, k) == [h EXCEPT !.later = Append(@, [op |-> "remove", key |-> k, val |-> Undef])]
StartRemoval(h, k) ==
    IF h.class = "dyna" THEN calculatePages([h EXCEPT !.rowCount = @ - 1]) ELSE h
removeRow(h, k, evict) ==
    IF h.busy # Null THEN deleteLater(h, k)
    ELSE IF ~HasRow(h, k) THEN h
    ELSE [StartRemoval(Push(h, Frame("remove", k, Undef, <<>>, evict)), k) EXCEPT !.busy = -1]

(* updateRow, up to the call of the listener.                                 *)
mergeUpdate(h, v) == [h EXCEPT !.stack[1].val = Merged(@, v)]
updateLater(h, k, v) == [h EXCEPT !.later = Append(@, [op |-> "update", key |-> k, val |-> v])]
StartUpdate(h, k, v) ==
    IF h.class = "dyna" THEN [h EXCEPT !.clones = @ \cup {k}] ELSE S!PlaceRow(h, k, v)
updateRow(h, k, v) ==
    IF h.busy = k THEN mergeUpdate(h, v)
    ELSE IF h.busy # Null THEN updateLater(h, k, v)
    ELSE [Push(StartUpdate(h, k, v), Frame("update", k, v, <<>>, FALSE)) EXCEPT !.busy = k]

(* What follows the listener in removeRowExecution of a DynaGrid: the row     *)
(* leaves its parent and others fill the space.                               *)
Unlinked(h, k) ==
    LET onTop == h.kind = "update" /\ h.onTop /\ h.sort = "off"
        up == IF onTop THEN "next" ELSE "prev"
        down == IF onTop THEN "prev" ELSE "next"
        h1 == removeChild(h, k, ParentOf(h, k))
        h2 == fitFreeSpace(h1, "shown", up, BeforePage(h1), onTop)
    IN CASE IsSonOf(h, k, "shown") -> fitFreeSpace(h1, down, "shown", h.maxRow, onTop)
         [] IsSonOf(h, k, down) -> h1
         [] OTHER -> IF h2 = h1 THEN h1 ELSE fitFreeSpace(h2, down, "shown", h.maxRow, onTop)
FinishRemoval(h, k) ==
    LET unlinked == IF h.class = "dyna" THEN [Unlinked(h, k) EXCEPT !.clones = @ \ {k}] ELSE S!WipeRow(h, k)
        dropped == DelReverse(DelRow(unlinked, k), k)
    IN Done([dropped EXCEPT !.fifo = IF h.kind = "update" THEN removeFromFifo(@, k) ELSE @, !.busy = Null])

(* What follows the listener in updateRowExecution of a DynaGrid: the row     *)
(* takes its place, then the rows in excess go.                               *)
Placed(h, k, v) ==
    LET isNew == ~HasRow(h, k)
        count == IF isNew THEN h.rowCount + 1 ELSE h.rowCount
    IN IF h.sort # "off" /\ v # Undef /\ v # ValueOf(h, k)
       THEN [insertNodeAtIndex(h, calculateSortedPosition(h, v), k) EXCEPT !.rowCount = count]
       ELSE IF isNew THEN [appendNode(h, k, ~h.onTop) EXCEPT !.rowCount = count]
       ELSE h
Commit(h, k, v) ==
    Done([InsertRow(h, k, v) EXCEPT
            !.fifo = IF ~HasRow(h, k) /\ h.kind = "update" THEN newKey(@, k) ELSE @, !.busy = Null])
Counted(h, k, v) == LET p == calculatePages(h) IN IF StopsAtPages(p) THEN p ELSE Commit(p, k, v)
AfterListener(h, k, v) ==
    LET p == [Placed(h, k, v) EXCEPT !.busy = Null]
    IN CASE h.class = "static" -> Commit(S!ShowRow(h, k, v), k, v)
         [] h.class = "dyna" /\ HasRow(h, k) -> Commit(p, k, v)
         [] h.class = "dyna" /\ ~HasRow(h, k) ->
              IF h.kind = "update" THEN [p EXCEPT !.stack[1].at = "limit"] ELSE Counted(p, k, v)
-----------------------------------------------------------------------------
Cells(limit) == [i \in 1..limit |-> Null]
InitialGrid(class, kind, limit, bottom) ==
    [class |-> class, kind |-> kind, values |-> <<>>, items |-> {}, fifo |-> EmptyFifo,
     sort |-> "off", onTop |-> FALSE, busy |-> Null, later |-> <<>>, stack |-> <<>>,
     rowCount |-> 0, maxRow |-> limit, served |-> 0, failed |-> FALSE,
     prev |-> <<>>, shown |-> <<>>, next |-> <<>>, top |-> bottom, bottom |-> bottom,
     page |-> 1, pages |-> 0, clones |-> {},
     at |-> <<>>, cells |-> IF class = "static" THEN Cells(limit) ELSE <<>>]
Init == \E class \in Classes, kind \in Kinds, limit \in Limits, bottom \in {Brother, Null} :
    /\ class = "static" => limit > 0
    /\ bottom = IF class = "dyna" /\ kind = "update" THEN Brother ELSE Null
    /\ g = InitialGrid(class, kind, limit, bottom)

(* What the runs that pass avoid, each a defect described in the README:      *)
(* - calls_while_limited: a listener calls a DynaGrid that adds a row and     *)
(*   drops its oldest one for it, or will when it makes the postponed calls;  *)
(* - calls_while_paged: onCurrentPagesChanged runs for a new row that is      *)
(*   drawn and not yet in the model (Adding), and a call from there, or from  *)
(*   a listener of such a call, is about that row, overtakes postponed ones,  *)
(*   or needs the value or the arrival of that row to place another;          *)
(* - sorted_cells: a StaticGrid is sorted, but while it is empty and for rows *)
(*   that never move;                                                         *)
(* - top_of_pages, top_after_sort: rows are added on top of pages, or after a *)
(*   sort;                                                                    *)
(* - partial_rows: a new row has no value.                                    *)
Sorted == g.sort # "off"
IsAdded(f) == f.op = "update" /\ f.at = "pages"
Adding == {f.key : f \in {c \in ToSet(g.stack) : IsAdded(c)}}
Lasting(k) == HasRow(g, k) /\ g.busy \in {Null, k}
Moves(k, v) == ~Lasting(k) \/ v \notin {Undef, g.values[k]}
MayCall(k) ==
    \/ Idle
    \/ /\ Listening /\ Len(g.later) < ListenerCalls /\ Len(g.stack) <= MaxDepth
       /\ ~("calls_while_limited" \in Avoided /\ g.kind = "update" /\ g.class = "dyna" /\ g.maxRow > 0
            /\ (\/ \E c \in ToSet(g.later) : c.op = "update"
                \/ g.rowCount >= g.maxRow /\ \E f \in ToSet(g.stack) : f.op = "update" /\ ~HasRow(g, f.key)))
       /\ ~("calls_while_paged" \in Avoided /\ Adding # {}
            /\ (k \in Adding \/ (g.busy = Null /\ g.later # <<>>)))
       /\ ~("sorted_cells" \in Avoided /\ Sorted /\ g.class = "static")
MaySort == ~(g.class = "static" /\ "sorted_cells" \in Avoided /\ (g.kind # "update" \/ g.rowCount > 0))
           /\ ~(g.class = "dyna" /\ "top_after_sort" \in Avoided /\ g.onTop)
MayAddOnTop == ~(g.class = "dyna" /\ "top_of_pages" \in Avoided /\ g.kind # "update")
               /\ ~(g.class = "dyna" /\ "top_after_sort" \in Avoided /\ Sorted)
MayWrite(k, v) ==
    /\ "partial_rows" \in Avoided /\ ~Lasting(k) => v \in Values
    /\ "sorted_cells" \in Avoided /\ Lasting(k) /\ Sorted /\ g.class = "static" => ~Moves(k, v)
    /\ ~("calls_while_paged" \in Avoided /\ Adding # {}
         /\ ((g.kind = "update" /\ ~Lasting(k)) \/ (Sorted /\ Moves(k, v))))

(* updateRow and removeRow, of any row, by the application or by a listener.  *)
(* The keys of a grid of updates are numbered as they are first used. To      *)
(* remove a row that is neither in the model nor under way does nothing.      *)
NewKey(k) == g.kind = "update" => k <= g.served + 1
Served(h, k) == [h EXCEPT !.served = IF g.kind = "update" /\ k > @ THEN k ELSE @]
UpdateRow(k, v) ==
    /\ MayCall(k) /\ NewKey(k) /\ MayWrite(k, v) /\ (Idle \/ v \in ListenerValues)
    /\ g' = Served(updateRow(g, k, v), k)
UnderWay(k) == \E c \in ToSet(g.stack \o g.later) : c.key = k
RemoveRow(k) == MayCall(k) /\ (HasRow(g, k) \/ UnderWay(k)) /\ g' = removeRow(g, k, FALSE)

(* onItemUpdate: a DELETE removes the row, anything else updates it and makes *)
(* it a row of its item.                                                      *)
onItemUpdate(k, v) ==
    /\ Idle /\ MayWrite(k, v) /\ (g.kind = "update" => k = g.served + 1)
    /\ \/ /\ g.kind = "key" /\ g' = removeRow(g, k, FALSE)
       \/ g' = Served(updateRow(Push(g, Frame("item", k, Undef, <<>>, FALSE)), k, v), k)
RegisterItem ==
    /\ ~Idle /\ Top.op = "item"
    /\ g' = Pop(IF Top.key \in ItemKeys THEN InsertItem(g, Top.key) ELSE g)

(* onClearSnapshot removes the rows of the item, clean all of them.           *)
ForEachRow(h, keys) == Push(h, Frame("each", Null, Undef, SetToSeq(keys), FALSE))
onClearSnapshot == Idle /\ g' = ForEachRow([g EXCEPT !.items = {}], g.items)
clean == Idle /\ g' = ForEachRow(g, DOMAIN g.values)
NextRemoval ==
    /\ ~Idle /\ Top.op = "each"
    /\ g' = IF Top.keys = <<>> THEN Pop(g)
            ELSE removeRow([g EXCEPT !.stack[1].keys = Tail(@)], Head(Top.keys), FALSE)

(* onVisualUpdate returns.                                                    *)
ListenerReturns ==
    /\ Seeing
    /\ g' = IF Top.op = "remove" THEN FinishRemoval(g, Top.key) ELSE AfterListener(g, Top.key, Top.val)

(* limitRows: the oldest row goes until no more than maxRow are left.         *)
limitRows ==
    /\ ~Idle /\ (Top.op = "limit" \/ (Top.op = "update" /\ Top.at = "limit"))
    /\ g' = IF g.maxRow > 0 /\ g.rowCount > g.maxRow THEN removeRow(g, getOldestKey(g), TRUE)
            ELSE IF Top.op = "limit" THEN Pop(g) ELSE Counted(g, Top.key, Top.val)

(* dequeuePostponedUpdates.                                                   *)
dequeuePostponedUpdates ==
    /\ ~Idle /\ Top.op = "dequeue"
    /\ g' = IF g.later = <<>> THEN Pop(g)
            ELSE LET c == Head(g.later)
                     h == [g EXCEPT !.later = Tail(@)]
                 IN IF c.op = "remove" THEN removeRow(h, c.key, FALSE) ELSE updateRow(h, c.key, c.val)

(* setSort, setAddOnTop, setMaxDynaRows and goToPage.                         *)
setSort(s) ==
    /\ Idle /\ MaySort
    /\ \/ s = "off" /\ g' = [g EXCEPT !.sort = "off"]
       \/ s # "off" /\ g.class = "dyna" /\ g' = sortTable([g EXCEPT !.sort = s])
       \/ /\ s # "off" /\ g.class = "static"
          /\ \E arranged \in S!SortedArrangements([g EXCEPT !.sort = s]) :
                g' = S!Arranged([g EXCEPT !.sort = s], arranged)
setAddOnTop == Idle /\ g.rowCount = 0 /\ MayAddOnTop /\ g' = [g EXCEPT !.onTop = ~@]
ShiftedUp(h, to) ==
    FoldLeft(LAMBDA m, i : IF ShiftsDown(m, "prev", (to - 1) * m.maxRow)
                           THEN shiftDown(shiftDown(m, "prev", "shown", (to - 1) * m.maxRow), "shown", "next", m.maxRow)
                           ELSE m, h, h.prev)
ShiftedDown(h, to) ==
    FoldLeft(LAMBDA m, i : IF Len(m.prev) < (to - 1) * m.maxRow /\ m.shown # <<>>
                           THEN fitFreeSpace(fitFreeSpace(m, "shown", "prev", (to - 1) * m.maxRow, FALSE),
                                             "next", "shown", m.maxRow, FALSE)
                           ELSE m, h, h.shown \o h.next)
changePage(h, to) ==
    IF h.rowCount <= 0 THEN h
    ELSE [(IF h.page >= to THEN ShiftedUp(h, to) ELSE ShiftedDown(h, to)) EXCEPT !.page = to]
Resized(h) == changePage(sortTable(Pop(h)), 1)
setMaxDynaRows(limit) ==
    /\ Idle /\ g.class = "dyna"
    /\ LET h == Push([g EXCEPT !.maxRow = limit],
                     Frame(IF g.kind = "update" THEN "limit" ELSE "resize", Null, Undef, <<>>, FALSE))
           p == calculatePages(h)
       IN g' = CASE g.kind = "update" -> h
                 [] g.kind # "update" /\ StopsAtPages(p) -> p
                 [] g.kind # "update" /\ ~StopsAtPages(p) -> Resized(p)
goToPage(to) ==
    /\ Idle /\ g.class = "dyna" /\ g.kind # "update" /\ g.maxRow > 0
    /\ g' = changePage(g, to)

(* onCurrentPagesChanged returns: a removal goes on to the listener of its    *)
(* row, a new row enters the model, a new limit has the pages dealt again.    *)
PagesListenerReturns ==
    /\ Paging
    /\ g' = CASE Top.op = "remove" -> [g EXCEPT !.stack[1].at = "listener"]
              [] Top.op = "update" -> Commit(g, Top.key, Top.val)
              [] Top.op = "resize" -> Resized(g)

Next ==
    \/ \E k \in Keys : \E v \in Fields : UpdateRow(k, v) \/ onItemUpdate(k, v)
    \/ \E k \in Keys : RemoveRow(k)
    \/ onClearSnapshot \/ clean \/ setAddOnTop
    \/ \E s \in Sorts : setSort(s)
    \/ \E limit \in Limits : setMaxDynaRows(limit)
    \/ \E to \in 1..MaxPage : goToPage(to)
    \/ ListenerReturns \/ PagesListenerReturns \/ RegisterItem \/ NextRemoval \/ limitRows \/ dequeuePostponedUpdates
Spec == Init /\ [][Next]_g
-----------------------------------------------------------------------------
TypeOK ==
    /\ g.values \in UNION {[ks -> Fields \cup {Null}] : ks \in SUBSET Keys}
    /\ g.items \subseteq Keys /\ g.clones \subseteq Keys /\ g.busy \in {-1} \cup 0..MaxKey
    /\ g.rowCount \in 0..MaxKey /\ g.page \in 1..MaxPage
    /\ \A p \in Parents : g[p] \in Seq(Keys)

(* At rest the page shows exactly the rows of the model: every row once, in   *)
(* one parent or at one position and in its own cells, and the count, the     *)
(* arrival order and the clones know the same rows.                           *)
ShownRows == IF g.class = "dyna" THEN RowsInOrder(g) ELSE S!KeysInOrder(g)
RowsAgree ==
    Idle =>
      /\ ~g.failed /\ g.later = <<>> /\ g.busy = Null
      /\ ToSet(ShownRows) = DOMAIN g.values /\ Len(ShownRows) = g.rowCount
      /\ g.rowCount = Cardinality(DOMAIN g.values)
      /\ g.kind = "update" => ToSet(Arrivals(g)) = DOMAIN g.values
      /\ g.class = "dyna" => g.clones = DOMAIN g.values
      /\ g.class = "static" => \A i \in DOMAIN g.cells :
            IF i <= g.rowCount THEN g.cells[i] \in {ShownRows[i], Null} ELSE g.cells[i] = Null

(* At rest the current page is full as long as there are rows for it, the     *)
(* pages before it are full, and a grid of updates keeps no more rows than it *)
(* shows.                                                                     *)
Least(a, b) == IF a < b THEN a ELSE b
PagesFilled ==
    Idle /\ g.class = "dyna" =>
      /\ g.maxRow = 0 => Len(g.shown) = g.rowCount
      /\ g.maxRow > 0 => /\ Len(g.prev) = Least(g.rowCount, BeforePage(g))
                         /\ Len(g.shown) = Least(g.rowCount - Len(g.prev), g.maxRow)
      /\ g.kind = "update" /\ g.maxRow > 0 => g.rowCount <= g.maxRow

(* At rest the rows of a sorted grid are sorted, whatever updates moved them. *)
RowsSorted ==
    Idle /\ Sorted => InSortOrder(g, [i \in DOMAIN ShownRows |-> ValueOf(g, ShownRows[i])])

(* At rest the page is full and in order.                                     *)
ShowsThePage == TypeOK /\ PagesFilled /\ RowsSorted

(* A new row of a grid that is not sorted is shown first or last, as the      *)
(* application chose, wherever the sorts and the removals of the past have    *)
(* left the others.                                                           *)
NewRowAtItsEnd ==
    [][g'.sort = "off" =>
         \A k \in (ToSet(ShownRows)' \cap Keys) \ ToSet(ShownRows) :
            k = IF g.onTop THEN Head(ShownRows)' ELSE Last(ShownRows)']_g

(* The grid implements Table. An update counts as carried out once its row is *)
(* drawn and updateInProgress is cleared, so rows that onCurrentPagesChanged  *)
(* keeps out of the model are rows of the table. The calls to carry out are   *)
(* those on the stack, the outermost first, and then those postponed.         *)
CallsUnderWay == SelectSeq(Reverse(g.stack), LAMBDA f : f.op \in {"update", "remove"} /\ ~f.evict /\ ~IsAdded(f))
Calls == [i \in DOMAIN CallsUnderWay |->
            [op |-> CallsUnderWay[i].op, key |-> CallsUnderWay[i].key, val |-> CallsUnderWay[i].val]] \o g.later
Drawn == IF Adding = {} THEN g.values
         ELSE [k \in Adding |-> (CHOOSE f \in ToSet(g.stack) : IsAdded(f) /\ f.key = k).val] @@ g.values
ArrivedRows == IF g.kind = "update" THEN Arrivals(g) \o SetToSeq(Adding) ELSE <<>>
PromisedTable == [rows |-> Drawn, age |-> ArrivedRows, todo |-> Calls,
                  limit |-> g.maxRow, bounded |-> g.kind = "update"]
Promised == INSTANCE Table WITH table <- PromisedTable, NoField <- Undef
CallsCarriedOut == Promised!TableSpec
=============================================================================
