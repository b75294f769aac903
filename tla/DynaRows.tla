------------------------------ MODULE DynaRows ------------------------------
(* The rows a DynaGrid shows: clones of a template held by three parents, the *)
(* pages before the current one and the pages after it (InvisibleParent,      *)
(* arrays) and the current page (VisibleParent, the DOM). A parent is the     *)
(* sequence of the keys of its DynaElements. topChild is the DOM node before  *)
(* which a row is added on top: a row, the node that follows the template in  *)
(* the page (Brother), or nothing (Null).                                     *)
EXTENDS RowModel

Brother == -1
Parents == {"prev", "shown", "next"}

RowsInOrder(g) == g.prev \o g.shown \o g.next
IsSonOf(g, k, p) == Contains(g[p], k)
ParentOf(g, k) == IF \E p \in Parents : IsSonOf(g, k, p)
                  THEN CHOOSE p \in Parents : IsSonOf(g, k, p) ELSE "none"
getNodeByIndex(g, i) == IF i \in 1..g.rowCount /\ i <= Len(RowsInOrder(g)) THEN RowsInOrder(g)[i] ELSE Null

(* removeChild of the two parents; only the visible one has a topChild, which *)
(* moves to the next sibling of the node removed.                             *)
NextSibling(g, k) ==
    LET i == CHOOSE i \in DOMAIN g.shown : g.shown[i] = k
    IN IF i < Len(g.shown) THEN g.shown[i + 1] ELSE g.bottom
removeChild(g, k, p) ==
    [g EXCEPT ![p] = SelectSeq(@, LAMBDA j : j # k),
              !.top = IF p = "shown" /\ @ = k THEN NextSibling(g, k) ELSE @]
isolation(g, k) == IF ParentOf(g, k) = "none" THEN g ELSE removeChild(g, k, ParentOf(g, k))

(* A row moved inside the visible parent stays its son: the DOM moves it and  *)
(* topChild keeps pointing at the same node.                                  *)
insertOperation(g, k, p) ==
    IF p = "shown" /\ IsSonOf(g, k, p) THEN [g EXCEPT ![p] = SelectSeq(@, LAMBDA j : j # k)]
    ELSE isolation(g, k)
insertBefore(g, k, ref, p) ==
    IF ref = k THEN g
    ELSE LET h == insertOperation(g, k, p)
             i == CHOOSE i \in DOMAIN h[p] : h[p][i] = ref
         IN [h EXCEPT ![p] = InsertAt(@, i, k)]

(* appendChild: at the bottom, or before topChild (in an invisible parent,    *)
(* before the first row). A node put before itself stays where it is.         *)
AppendBottom(g, k, p) ==
    LET h == insertOperation(g, k, p)
    IN [h EXCEPT ![p] = Append(@, k), !.top = IF p = "shown" /\ @ = Null THEN k ELSE @]
AppendTop(g, k, p) ==
    LET h == insertOperation(g, k, p)
        at == IF p = "shown" /\ h.top \in {Null, Brother} THEN Len(h[p]) + 1
              ELSE IF p = "shown" THEN CHOOSE i \in DOMAIN h[p] : h[p][i] = h.top
              ELSE 1
    IN IF p = "shown" /\ h.top = k THEN g
       ELSE [h EXCEPT ![p] = InsertAt(@, at, k), !.top = IF p = "shown" THEN k ELSE @]
appendChild(g, k, onBottom, p) == IF onBottom THEN AppendBottom(g, k, p) ELSE AppendTop(g, k, p)

(* A row moves from the start of one parent to a neighbour with room, or from *)
(* the end of one that has too many to the start of the neighbour.            *)
fitFreeSpace(g, from, to, maxForTo, onTop) ==
    IF g.maxRow > 0 /\ Len(g[to]) < maxForTo /\ g[from] # <<>>
    THEN appendChild(g, g[from][1], ~onTop, to) ELSE g
ShiftsDown(g, from, maxForFrom) == g.maxRow > 0 /\ Len(g[from]) > maxForFrom
shiftDown(g, from, to, maxForFrom) ==
    IF ~ShiftsDown(g, from, maxForFrom) THEN g
    ELSE IF g[to] = <<>> THEN appendChild(g, Last(g[from]), TRUE, to)
    ELSE insertBefore(g, Last(g[from]), g[to][1], to)

BeforePage(g) == g.maxRow * (g.page - 1)

(* Fault: the row always goes to the bottom of its parent.                    *)
appendNode_Bottom(g, k, onBottom) ==
    appendChild(g, k, TRUE, IF g.next # <<>> \/ (Len(g.shown) = g.maxRow /\ g.maxRow > 0) THEN "next"
                            ELSE IF Len(g.prev) < BeforePage(g) THEN "prev" ELSE "shown")

appendNode(g, k, onBottom) ==
    LET up == IF onBottom THEN "prev" ELSE "next"
        down == IF onBottom THEN "next" ELSE "prev"
    IN IF g[down] # <<>> \/ (Len(g.shown) = g.maxRow /\ g.maxRow > 0)
       THEN appendChild(g, k, onBottom, down)
       ELSE IF g.shown # <<>> \/ Len(g[up]) = BeforePage(g)
       THEN appendChild(g, k, onBottom, "shown")
       ELSE appendChild(g, k, onBottom, up)

(* Fault: the space left by a row that moves is not filled.                   *)
Rebalance_OnlyOverflow(g, firstP, afterP) ==
    IF afterP = "shown" /\ firstP \in {"none", "next"} THEN shiftDown(g, "shown", "next", g.maxRow) ELSE g

(* Rows overflow page by page after an insertion, or fill the space that a    *)
(* move upwards has left.                                                     *)
Rebalance(g, firstP, afterP) ==
    CASE afterP = "shown" /\ firstP \in {"none", "next"} -> shiftDown(g, "shown", "next", g.maxRow)
      [] afterP # "prev" /\ firstP = "prev" ->
           LET h == fitFreeSpace(g, "shown", "prev", BeforePage(g), FALSE)
           IN IF afterP = "next" THEN fitFreeSpace(h, "next", "shown", g.maxRow, FALSE) ELSE h
      [] afterP = "prev" /\ firstP # "prev" ->
           IF ShiftsDown(g, "prev", BeforePage(g))
           THEN shiftDown(shiftDown(g, "prev", "shown", BeforePage(g)), "shown", "next", g.maxRow)
           ELSE g
      [] afterP = "next" /\ firstP # "prev" -> fitFreeSpace(g, "next", "shown", g.maxRow, FALSE)
      [] OTHER -> g
insertNodeAtIndex(g, i, k) ==
    LET ref == getNodeByIndex(g, i)
        h == IF ref = Null THEN appendNode(g, k, TRUE) ELSE insertBefore(g, k, ref, ParentOf(g, ref))
    IN IF i > g.rowCount + 1 \/ ref = k THEN g
       ELSE Rebalance(h, ParentOf(g, k), ParentOf(h, k))

calculateSortedPosition(g, v) ==
    SearchPlace(g, [i \in 1..g.rowCount |-> ValueOf(g, getNodeByIndex(g, i))], v)

(* sortTable takes every row out, inserts it in a temporary parent by binary  *)
(* search (in the order found, if no sort is set) and deals the pages again.  *)
SortedRows(g) ==
    LET insert(seq, k) ==
            IF g.sort = "off" THEN Append(seq, k)
            ELSE InsertAt(seq, SearchPlace(g, [i \in DOMAIN seq |-> ValueOf(g, seq[i])], ValueOf(g, k)), k)
    IN FoldLeft(insert, <<>>, RowsInOrder(g))
Emptied(g) == [g EXCEPT !.prev = <<>>, !.shown = <<>>, !.next = <<>>,
                        !.top = IF Contains(g.shown, @) THEN g.bottom ELSE @]
DealRow(g, k) ==
    LET n == Len(RowsInOrder(g)) + 1
    IN appendChild(g, k, TRUE, IF n <= BeforePage(g) THEN "prev"
                               ELSE IF g.maxRow <= 0 \/ n <= g.maxRow * g.page THEN "shown" ELSE "next")
sortTable(g) == FoldLeft(DealRow, Emptied(g), SortedRows(g))
=============================================================================
