----------------------------- MODULE StaticRows -----------------------------
(* The rows a StaticGrid shows: cells that are already in the page, maxRow    *)
(* rows of them, and cells the grid makes for rows out of sight. at is        *)
(* keyRowMap, a DoubleKeyMap: the position of each key, a number, or a string *)
(* after sortTable, which reads positions back as names of properties. cells  *)
(* says whose content the cells of each position show.                        *)
EXTENDS RowModel

Position(i) == [pos |-> i, string |-> FALSE]
getPosition(g, k) == IF k \in DOMAIN g.at THEN g.at[k].pos ELSE Null
KeysAt(g, i) == {k \in DOMAIN g.at : g.at[k].pos = i}
existReverse(g, i) == KeysAt(g, i) # {}
getReverse(g, i) == IF existReverse(g, i) THEN CHOOSE k \in KeysAt(g, i) : TRUE ELSE Null
RowExists(g, i) == i \in DOMAIN g.cells

(* DoubleKeyMap.set: a key moved to a position in use swaps with its owner; a *)
(* key that had no position takes it from its owner.                          *)
set(g, k, p) ==
    LET owner == KeysAt(g, p.pos) \ {k}
        swapped == k \in DOMAIN g.at /\ owner # {}
        kept == IF swapped THEN DOMAIN g.at ELSE (DOMAIN g.at \cup {k}) \ owner
    IN [g EXCEPT !.at = [j \in kept |-> IF j = k THEN p
                                        ELSE IF j \in owner THEN g.at[k] ELSE g.at[j]]]
remove(g, k) == [g EXCEPT !.at = [j \in DOMAIN @ \ {k} |-> @[j]]]

(* CellMatrix.scrollRow copies the content of a row of cells, making the      *)
(* cells if there are none; clean empties them.                               *)
scrollRow(g, from, to) ==
    [g EXCEPT !.cells = [i \in DOMAIN @ \cup {to} |-> IF i = to THEN @[from] ELSE @[i]]]
cleanCells(g, i) == IF RowExists(g, i) THEN [g EXCEPT !.cells[i] = Null] ELSE g

(* The oldest row, or the one pushed beyond the last cells of the page, is    *)
(* deleted without the notifications of a removal.                            *)
scrollOut(g, k) ==
    LET h == DelRow(remove(g, k), k)
    IN [h EXCEPT !.rowCount = @ - 1, !.fifo = IF g.kind = "update" THEN removeFromFifo(@, k) ELSE @]

(* One step of makeRoom: the row at from moves to the next position to, or is *)
(* scrolled out where there is no such row.                                   *)
MoveRow(g, from, to) ==
    IF ~RowExists(g, to) /\ g.kind = "update" THEN scrollOut(g, getReverse(g, from))
    ELSE set(scrollRow(g, from, to), getReverse(g, from), Position(to))
Moves(g, orig, end) ==
    IF orig # Null /\ orig > end THEN [i \in 1..(orig - end) |-> <<orig - i, orig - i + 1>>]
    ELSE IF orig # Null THEN [i \in 1..(end - orig) |-> <<orig + i, orig + i - 1>>]
    ELSE IF g.sort # "off" \/ g.onTop
    THEN [i \in 1..(g.rowCount - end + 1) |-> <<g.rowCount - i + 1, g.rowCount - i + 2>>]
    ELSE [i \in 1..end |-> <<i, i - 1>>]

(* makeRoom moves the row of a key to position end (or makes position end     *)
(* free for a new key). Adding 1 to a position that is a string appends a     *)
(* digit: the row read is one that does not exist and the call fails (or, on  *)
(* a grid that scrolls rows out, never ends).                                 *)
makeRoom(g, end, k) ==
    LET orig == getPosition(g, k)
        content == IF orig = Null THEN Null ELSE g.cells[orig]
        moved == FoldLeft(LAMBDA h, m : MoveRow(h, m[1], m[2]), g, Moves(g, orig, end))
    IN IF end = orig THEN g
       ELSE IF orig # Null /\ orig < end /\ g.at[k].string THEN [g EXCEPT !.failed = TRUE]
       ELSE IF orig = Null THEN cleanCells(moved, end)
       ELSE set([moved EXCEPT !.cells[end] = content], k, Position(end))

(* The order in which sortTable's quick sort leaves equal rows is not that    *)
(* of the grid: any arrangement that is sorted may result.                    *)
KeysInOrder(g) == [i \in 1..g.rowCount |-> getReverse(g, i)]
SortedArrangements(g) ==
    {s \in {[i \in 1..g.rowCount |-> KeysInOrder(g)[p[i]]] : p \in Permutations(1..g.rowCount)} :
        InSortOrder(g, [i \in 1..g.rowCount |-> ValueOf(g, s[i])])}
Arranged(g, s) ==
    [g EXCEPT !.at = [k \in DOMAIN @ |-> [pos |-> CHOOSE i \in DOMAIN s : s[i] = k, string |-> TRUE]],
              !.cells = [i \in DOMAIN @ |->
                           IF i \in DOMAIN s /\ s[i] # KeysInOrder(g)[i] THEN @[getPosition(g, s[i])] ELSE @[i]]]

(* updateRowExecution, up to the call of the listener: the position of the    *)
(* row, the oldest scrolled out of a full sorted grid, room made.             *)
calculateSortedPosition(g, v) ==
    SearchPlace(g, [i \in 1..g.rowCount |-> IF existReverse(g, i) THEN ValueOf(g, getReverse(g, i)) ELSE Null], v)
Moving(g, k, v) == g.sort # "off" /\ v # Undef /\ v # ValueOf(g, k)
ChosenPosition(g, k, v) ==
    IF Moving(g, k, v) THEN calculateSortedPosition(g, v)
    ELSE IF HasRow(g, k) THEN getPosition(g, k)
    ELSE IF g.onTop THEN 1
    ELSE IF g.kind = "update" /\ g.rowCount = g.maxRow THEN g.rowCount
    ELSE g.rowCount + 1
OldestOut(g, k, i) ==
    LET free == getPosition(g, getOldestKey(g))
        h == scrollOut(g, getOldestKey(g))
    IN [g |-> [set(h, k, g.at[getOldestKey(g)]) EXCEPT !.rowCount = @ + 1],
        i |-> IF free < i THEN i - 1 ELSE i]
PlaceRow(g, k, v) ==
    LET isNew == ~HasRow(g, k)
        full == g.kind = "update" /\ g.maxRow = g.rowCount /\ isNew /\ g.sort # "off"
        i == ChosenPosition(g, k, v)
        a == IF full THEN OldestOut(g, k, i) ELSE [g |-> g, i |-> i]
        b == IF existReverse(a.g, a.i) /\ getReverse(a.g, a.i) # k THEN makeRoom(a.g, a.i, k) ELSE a.g
        c == [set(b, k, Position(a.i)) EXCEPT !.rowCount = IF isNew /\ ~full THEN @ + 1 ELSE @]
    IN IF b.failed THEN b
       ELSE IF g.kind # "update" /\ a.i > g.maxRow /\ ~RowExists(c, a.i) THEN scrollRow(c, a.i - 1, a.i)
       ELSE c

(* removeRowExecution after the call of the listener: the row is made the     *)
(* last one, cleaned and dropped.                                             *)
WipeRow(g, k) ==
    LET h == IF getPosition(g, k) # g.rowCount THEN makeRoom(g, g.rowCount, k) ELSE g
    IN IF h.failed THEN h
       ELSE [remove(cleanCells(h, getPosition(h, k)), k) EXCEPT !.rowCount = @ - 1]

(* visualUpdateExecution writes the updated fields in the cells of the row.   *)
ShowRow(g, k, v) == IF v = Undef THEN g ELSE [g EXCEPT !.cells[getPosition(g, k)] = k]
=============================================================================
