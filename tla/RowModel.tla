------------------------------ MODULE RowModel ------------------------------
(* The model of rows behind every widget of the web library: the values that  *)
(* AbstractWidget keeps in a Matrix, the arrival order it keeps to know which *)
(* row is the oldest, the map from an item to its rows (a DoubleKeyMatrix),   *)
(* and the comparison of AbstractGrid that sorts them.                        *)
(* A widget is a record g; an operation is an operator from widgets to        *)
(* widgets. A row is reduced to one field, the one a grid may be sorted by.   *)
EXTENDS Integers, Sequences, FiniteSets, SequencesExt

CONSTANT MaxFifoHoles     \* MAX_FIFO_HOLES of AbstractWidget

Undef == -1               \* the field is not in the row, or not in the update
Null == 0                 \* the field is there and is null

(* Matrix and DoubleKeyMatrix: a row is a value, a missing row is not in the  *)
(* domain; the rows of an item are the keys inserted for it.                  *)
HasRow(g, k) == k \in DOMAIN g.values
ValueOf(g, k) == IF HasRow(g, k) /\ g.values[k] # Undef THEN g.values[k] ELSE Null
Merged(old, new) == IF new = Undef THEN old ELSE new
(* Fault: the update replaces the row, so fields it does not have are lost.   *)
InsertRow_Replaces(g, k, v) == [g EXCEPT !.values = [j \in DOMAIN g.values \cup {k} |-> IF j = k THEN v ELSE g.values[j]]]
InsertRow(g, k, v) ==
    [g EXCEPT !.values = [j \in DOMAIN g.values \cup {k} |->
        IF j # k THEN g.values[j]
        ELSE IF HasRow(g, k) THEN Merged(g.values[k], v) ELSE v]]
DelRow(g, k) == [g EXCEPT !.values = [j \in DOMAIN g.values \ {k} |-> g.values[j]]]
InsertItem(g, k) == [g EXCEPT !.items = @ \cup {k}]
DelReverse(g, k) == [g EXCEPT !.items = @ \ {k}]

(* The arrival order: fifoKeys with holes where keys were removed, the head   *)
(* skipping the holes in front, everything compacted when the holes are too   *)
(* many.                                                                      *)
EmptyFifo == [keys |-> <<>>, map |-> <<>>, holes |-> 0, head |-> 1]
newKey(f, k) == [f EXCEPT !.keys = Append(@, k),
                          !.map = [j \in DOMAIN f.map \cup {k} |->
                                     IF j = k THEN Len(f.keys) + 1 ELSE f.map[j]]]
getOldestKey(g) == IF g.fifo.head > Len(g.fifo.keys) THEN Null ELSE g.fifo.keys[g.fifo.head]
FirstKept(f, from) == CHOOSE i \in from..(Len(f.keys) + 1) :
                         /\ i <= Len(f.keys) => f.keys[i] # Null
                         /\ \A j \in from..(i - 1) : f.keys[j] = Null
(* Fault: the positions are not computed again after the compaction.          *)
removeFromFifo_OldPositions(f, k) ==
    LET punched == [f EXCEPT !.keys[f.map[k]] = Null, !.holes = @ + 1]
        kept == SelectSeq(punched.keys, LAMBDA j : j # Null)
    IN IF kept = <<>> THEN EmptyFifo
       ELSE IF punched.holes >= MaxFifoHoles THEN [punched EXCEPT !.keys = kept, !.holes = 0, !.head = 1]
       ELSE [punched EXCEPT !.head = FirstKept(punched, @)]

removeFromFifo(f, k) ==
    LET pos == f.map[k]
        punched == [f EXCEPT !.keys[pos] = Null, !.holes = @ + 1,
                             !.map = [j \in DOMAIN f.map \ {k} |-> f.map[j]]]
        moved == IF pos = f.head THEN [punched EXCEPT !.head = FirstKept(punched, pos)] ELSE punched
        kept == SelectSeq(moved.keys, LAMBDA j : j # Null)
    IN IF moved.head > Len(moved.keys) THEN EmptyFifo
       ELSE IF moved.holes >= MaxFifoHoles THEN FoldLeft(newKey, EmptyFifo, kept)
       ELSE moved
Arrivals(g) == SelectSeq(g.fifo.keys, LAMBDA k : k # Null)

(* isBefore of AbstractGrid: null precedes everything in ascending order and  *)
(* follows everything in descending order.                                    *)
isBefore(g, a, b) == IF g.sort = "desc" THEN a > b ELSE a < b

(* The binary search that calculateSortedPosition and sortTable share: the    *)
(* place, between 1 and Len(vs) + 1, of a value among the sorted vs.          *)
SearchPlace(g, vs, v) ==
    LET n == Len(vs)
        place[up \in 1..(n + 2), down \in 0..n] ==
            IF up < down
            THEN LET j == (up + down) \div 2
                 IN IF isBefore(g, v, vs[j]) THEN place[up, j - 1] ELSE place[j + 1, down]
            ELSE IF up = down /\ ~isBefore(g, v, vs[up]) THEN up + 1
            ELSE up
    IN place[1, n]

(* What the search must return: behind everything the value is not before,    *)
(* in front of everything it is before.                                       *)
PlaceIsRight(g, vs, v, i) ==
    /\ \A j \in 1..(i - 1) : ~isBefore(g, v, vs[j])
    /\ \A j \in i..Len(vs) : isBefore(g, v, vs[j])
InSortOrder(g, vs) == \A i, j \in 1..Len(vs) : i < j => ~isBefore(g, vs[j], vs[i])
=============================================================================
