------------------------------- MODULE Drawing -------------------------------
(* ChartPainter: how one line of a Chart is drawn in the chart area, point    *)
(* after point, on a canvas or, in a browser without one, with blocks (divs)  *)
(* between a point and the next. When and at which places it is drawn is in   *)
(* Chart. Places are pixels, y upwards; the page counts downwards.            *)
EXTENDS Integers, Sequences, FiniteSets, FiniteSetsExt, SequencesExt

CONSTANTS
    Canvas,            \* whether the browser has a canvas
    LineSizes,         \* pixels of a line
    DrawPlaces,        \* coordinates of points
    Heights,           \* of the area
    MaxDrawn,          \* points of the line
    DrawingAvoided     \* what does not happen: "thick_lines", "drawn_out_of_page"

VARIABLE drawing       \* [canvas, size, height, attached, last, given, inArea, held]

NoPoint == <<>>
Abs(n) == IF n < 0 THEN -n ELSE n
Half(n) == (n + 1) \div 2                            \* Math.ceil(n / 2)
RoundOf(a, b) == (2 * a + b) \div (2 * b)            \* Math.round(a / b), b > 0

(* --- DivLine ---------------------------------------------------------------*)
(* One step per pixel of the longer side; at each the other coordinate is     *)
(* that of the slope. Steps at one coordinate are one block, but for the last *)
(* step, which is the point.                                                  *)
Horizontal(from, to) == Abs(to[1] - from[1]) >= Abs(to[2] - from[2])
Steps(from, to) == IF Horizontal(from, to) THEN Abs(to[1] - from[1]) ELSE Abs(to[2] - from[2])
Sign(n) == IF n < 0 THEN -1 ELSE 1
Pixel(h, from, to, t) ==
    LET n == Steps(from, to)
        along(i) == from[i] + Sign(to[i] - from[i]) * t
        x == RoundOf(from[1] * n + (to[1] - from[1]) * t, n)
        y == RoundOf((h - from[2]) * n - (to[2] - from[2]) * t, n)
    IN IF Horizontal(from, to) THEN <<along(1), y>> ELSE <<x, h - along(2)>>
Runs(h, from, to) ==
    LET last == Steps(from, to) - 2
        cross == [t \in 0..last |-> Pixel(h, from, to, t)[IF Horizontal(from, to) THEN 2 ELSE 1]]
        begins(a) == a = 0 \/ cross[a] # cross[a - 1]
    IN {<<a, Max({b \in a..last : cross[b] = cross[a]})>> : a \in {t \in 0..last : begins(t)}}

(* A block of the page: where it starts, to the left and at the top, and its  *)
(* two sizes. It grows to the right and downwards, by half the size of the    *)
(* line for each step.                                                        *)
Block(h, from, to, size, run) ==
    LET more == Half(size) * (run[2] - run[1])
        p == Pixel(h, from, to, run[1])
        i == IF Horizontal(from, to) THEN 1 ELSE 2
        back == IF i = 1 THEN to[1] < from[1] ELSE to[2] > from[2]
        moved == IF back THEN [p EXCEPT ![i] = @ - more] ELSE p
    IN [at |-> <<moved[1] - Half(size) \div 2, moved[2] - Half(size) \div 2>>,
        size |-> [<<size, size>> EXCEPT ![i] = @ + more]]

DivDrawTo(d, p) ==
    LET point == {[at |-> Pixel(d.height, d.last, p, Steps(d.last, p) - 1), size |-> <<1, 1>>]}
        blocks == IF d.last = NoPoint \/ d.last = p THEN {}
                  ELSE point \cup {Block(d.height, d.last, p, d.size, run) : run \in Runs(d.height, d.last, p)}
    IN [d EXCEPT !.last = p, !.inArea = @ \cup blocks, !.held = @ \cup blocks]
DivClear(d) ==
    [d EXCEPT !.last = NoPoint, !.held = {}, !.inArea = IF d.attached THEN @ \ d.held ELSE @]

(* --- CanvasLine ------------------------------------------------------------*)
Downwards(d, p) == <<p[1], d.height - p[2]>>
Strokes(d, q) ==
    (IF d.last = NoPoint THEN {} ELSE {[from |-> d.last, to |-> q]}) \cup {[from |-> q, to |-> q]}
CanvasDrawTo(d, p) ==
    LET q == Downwards(d, p)
    IN [d EXCEPT !.last = q, !.inArea = (IF d.last = NoPoint THEN {} ELSE @) \cup Strokes(d, q)]
CanvasClear(d) == [d EXCEPT !.last = NoPoint, !.inArea = {}]

(* --- ChartPainter ----------------------------------------------------------*)
paintLine(d, p) ==
    [(IF d.canvas THEN CanvasDrawTo(d, p) ELSE DivDrawTo(d, p)) EXCEPT !.given = Append(@, p)]
clearLine(d) == [(IF d.canvas THEN CanvasClear(d) ELSE DivClear(d)) EXCEPT !.given = <<>>]
setSize(d, h) == [d EXCEPT !.height = h]

(* --- actions ---------------------------------------------------------------*)
DrawingInit ==
    \E canvas \in Canvas, size \in LineSizes, h \in Heights :
        /\ "thick_lines" \in DrawingAvoided => canvas \/ size < 3
        /\ drawing = [canvas |-> canvas, size |-> size, height |-> h, attached |-> TRUE, last |-> NoPoint,
                      given |-> <<>>, inArea |-> {}, held |-> {}]
PointDrawn(p) == Len(drawing.given) < MaxDrawn /\ drawing' = paintLine(drawing, p)
(* The chart has other sizes, or drops points, and draws the line again.      *)
CanDrawAgain == "drawn_out_of_page" \in DrawingAvoided => drawing.attached
DrawnAgain(h, dropped) ==
    /\ CanDrawAgain /\ Len(drawing.given) >= dropped
    /\ drawing' = FoldLeft(paintLine, clearLine(setSize(drawing, h)), SubSeq(drawing.given, dropped + 1, Len(drawing.given)))
OutOfThePage == drawing.attached /\ drawing' = [drawing EXCEPT !.attached = FALSE]
BackInThePage == ~drawing.attached /\ drawing' = [drawing EXCEPT !.attached = TRUE]

DrawingNext ==
    \/ \E x, y \in DrawPlaces : PointDrawn(<<x, y>>)
    \/ \E h \in Heights, dropped \in {0, 1} : DrawnAgain(h, dropped)
    \/ OutOfThePage \/ BackInThePage
-----------------------------------------------------------------------------
(* On a canvas, each point of the line and a stroke to the next, by the       *)
(* height of now and nothing else. Of blocks: from each point to the one      *)
(* before the next, without a gap, no pixel that is farther from the way      *)
(* between them than the line is thick, and nothing that was drawn before.    *)
Segments == {<<drawing.given[i], drawing.given[i + 1]>> : i \in 1..Len(drawing.given) - 1}
Ideal == UNION {{Pixel(drawing.height, s[1], s[2], t) : t \in 0..Steps(s[1], s[2]) - 1} : s \in {r \in Segments : r[1] # r[2]}}
PixelsOf(b) == (b.at[1]..b.at[1] + b.size[1] - 1) \X (b.at[2]..b.at[2] + b.size[2] - 1)
LineIsDrawn ==
    LET down(p) == Downwards(drawing, p)
        covered == UNION {PixelsOf(b) : b \in drawing.inArea}
    IN IF drawing.canvas
       THEN drawing.inArea = {[from |-> down(s[1]), to |-> down(s[2])] : s \in Segments}
                             \cup {[from |-> down(p), to |-> down(p)] : p \in Range(drawing.given)}
       ELSE /\ Ideal \subseteq covered
            /\ \A q \in covered : \E p \in Ideal : Abs(p[1] - q[1]) < drawing.size /\ Abs(p[2] - q[2]) < drawing.size
=============================================================================
