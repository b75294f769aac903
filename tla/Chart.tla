-------------------------------- MODULE Chart --------------------------------
(* A Chart of the web library with the listener that places its axes          *)
(* (SimpleChartListener): a line for each row of the model and each field of  *)
(* the Y axis, its history, and what the painter has drawn of it. A point is  *)
(* drawn at a place that depends on the axes and on the size of the area of   *)
(* that moment, so whatever moves them must paint all lines again.            *)
(* Every handler runs to its end, listener included: it is one step here.     *)
EXTENDS Integers, Sequences, FiniteSets, SequencesExt

CONSTANTS
    ChartKeys,       \* the rows
    YFields,         \* the fields that may be on the Y axis
    XValues, YValues,
    Sizes,           \* of the chart area
    MaxPoints,       \* in the histories of all lines
    ChartAvoided     \* what the application does not do, see below

Missing == -1        \* not in the update, not in the row
NullValue == -2
NoAxis == [min |-> Missing, max |-> Missing]
NoUnit == <<>>

VARIABLE chart
Lines == DOMAIN chart.lines

(* A unit is known by what it was computed from.                              *)
Unit(axis, size) == <<axis, size>>
AxisIsSet(axis) == axis.max # Missing
EmptyLine == [y |-> NoAxis, unit |-> NoUnit, pts |-> <<>>, pic |-> <<>>, labels |-> NoAxis]

(* drawLine, addPoint: the place depends on both minimums and both units.     *)
Place(c, line, p) == [pt |-> p, x |-> <<c.x.min, c.xUnit>>, y |-> <<line.y.min, line.unit>>]
addPoint(c, line, p) == [line EXCEPT !.pts = Append(@, p), !.pic = Append(@, Place(c, line, p))]

(* repaint drops the points that are out of the X axis, but for the last one, *)
(* and draws the others.                                                      *)
Kept(c, pts) ==
    LET keeps(i) == pts[i].x >= c.x.min \/ (i < Len(pts) /\ pts[i + 1].x >= c.x.min)
    IN SelectSeq([i \in DOMAIN pts |-> <<i, pts[i]>>], LAMBDA e : keeps(e[1]))
repaint(c, line) ==
    LET pts == [i \in DOMAIN Kept(c, line.pts) |-> Kept(c, line.pts)[i][2]]
    IN FoldLeft(LAMBDA l, p : addPoint(c, l, p), [line EXCEPT !.pts = <<>>, !.pic = <<>>], pts)
RepaintIfDrawn(c, line) == IF line.pts = <<>> THEN line ELSE repaint(c, line)
repaintAll(c) == [c EXCEPT !.lines = [id \in DOMAIN @ |-> RepaintIfDrawn(c, @[id])]]

(* calcXUnit, paintXLabels and their like for the Y axis of a line.           *)
paintXLabels(c) == [c EXCEPT !.xLabels = c.x]
calcXUnit(c) == paintXLabels([c EXCEPT !.xUnit = Unit(c.x, c.width)])
paintYLabels(line) == [line EXCEPT !.labels = line.y]
calcYUnit(c, line) == paintYLabels([line EXCEPT !.unit = Unit(line.y, c.height)])

positionXAxis_NoRepaint(c, min, max) ==
    LET moved == [c EXCEPT !.x = [min |-> min, max |-> max]]
    IN IF c.width # Missing THEN calcXUnit(moved) ELSE moved
positionXAxis(c, min, max) ==
    LET moved == [c EXCEPT !.x = [min |-> min, max |-> max]]
    IN repaintAll(IF c.width # Missing THEN calcXUnit(moved) ELSE moved)
positionYAxis(c, line, min, max) ==
    LET moved == [line EXCEPT !.y = [min |-> min, max |-> max]]
    IN IF c.height # Missing /\ c.anchored THEN RepaintIfDrawn(c, calcYUnit(c, moved)) ELSE moved

(* The listener: a line that is new starts the X axis again and stretches the *)
(* Y axis of all lines; a value out of an axis moves or stretches it. The     *)
(* line being created is not yet in the chart.                                *)
Span == 2
LessY(y) == y \div 2
MoreY(y) == y + y \div 2
updateYAxis(c, min, max) ==
    [c EXCEPT !.lines = [id \in DOMAIN @ |-> positionYAxis(c, @[id], min, max)]]
onXOverflow(c, x) ==
    LET mid == (c.x.min + c.x.max) \div 2
    IN IF ~AxisIsSet(c.x) THEN positionXAxis(c, 0, 0)
       ELSE IF x > c.x.max THEN positionXAxis(c, mid, mid + c.x.max - c.x.min) ELSE c
Greater(a, b) == IF a > b THEN a ELSE b
Smaller(a, b) == IF a < b THEN a ELSE b
onNewLine(c, x, y) ==
    LET min == IF c.minY = Missing THEN LessY(y) ELSE Smaller(c.minY, LessY(y))
        max == IF c.maxY = Missing THEN MoreY(y) ELSE Greater(c.maxY, MoreY(y))
    IN updateYAxis([positionXAxis(c, x, x + Span) EXCEPT !.minY = min, !.maxY = max], min, max)
NewLine(c, x, y) ==
    LET h == onNewLine(c, x, y)
    IN [chart |-> h, line |-> calcYUnit(h, positionYAxis(h, EmptyLine, h.minY, h.maxY))]
onYOverflow(c, y, line) ==
    LET shift == (line.y.max - line.y.min) \div 2
        max == Greater(line.y.max + shift, y)
        min == Smaller(line.y.min - shift, y)
    IN IF y > line.y.max THEN updateYAxis([c EXCEPT !.maxY = max], line.y.min, max)
       ELSE IF y < line.y.min THEN updateYAxis([c EXCEPT !.minY = min], min, line.y.max)
       ELSE c

(* parseValue: what is missing, or null, in the update is taken from the row. *)
RowValue(c, k, f) == IF k \in DOMAIN c.rows /\ c.rows[k][f] # Missing THEN c.rows[k][f] ELSE NullValue
parseValue(c, k, u, f) == IF u[f] \in {Missing, NullValue} THEN RowValue(c, k, f) ELSE u[f]

(* A row drawn in one field of the Y axis.                                    *)
WithLine(c, id, line) == [c EXCEPT !.lines = [j \in DOMAIN @ \cup {id} |-> IF j = id THEN line ELSE @[j]]]
DrawField(c, k, x, y, f) ==
    LET id == <<f, k>>
        created == NewLine(c, x, y)
        c1 == IF id \in DOMAIN c.lines THEN c ELSE WithLine(created.chart, id, created.line)
        inRange == c1.lines[id].y.min < y /\ y < c1.lines[id].y.max
        c2 == IF inRange THEN c1 ELSE onYOverflow(c1, y, c1.lines[id])
    IN IF y = NullValue THEN c
       ELSE [c2 EXCEPT !.lines[id] = addPoint(c2, @, [x |-> x, y |-> y])]
UpdateLines(c, k, u) ==
    LET x == parseValue(c, k, u, "x")
        c1 == IF x > c.x.max THEN onXOverflow(c, x) ELSE c
    IN IF x = NullValue \/ x < c.x.min THEN c
       ELSE FoldLeft(LAMBDA h, f : DrawField(h, k, x, parseValue(c, k, u, f), f), c1, SetToSeq(c.fields))
StoreRow(c, k, u) ==
    [c EXCEPT !.rows = [j \in DOMAIN @ \cup {k} |->
        IF j # k THEN @[j]
        ELSE [f \in YFields \cup {"x"} |-> IF u[f] = Missing /\ k \in DOMAIN c.rows THEN c.rows[k][f] ELSE u[f]]]]

(* deleteChartLine, for a line that exists; a row without a line for one of   *)
(* the fields cannot be removed, the call fails on it.                        *)
deleteChartLine(c, id) == [c EXCEPT !.lines = [j \in DOMAIN @ \ {id} |-> @[j]]]
HasAllLines(c, k) == \A f \in c.fields : <<f, k>> \in DOMAIN c.lines
FieldsBeforeFailure(c, k) ==
    LET fields == SetToSeq(c.fields)
        fails == {i \in DOMAIN fields : <<fields[i], k>> \notin DOMAIN c.lines}
    IN IF fails = {} THEN fields ELSE SubSeq(fields, 1, (CHOOSE i \in fails : \A j \in fails : i <= j) - 1)
DeleteLines(c, k) == FoldLeft(LAMBDA h, f : deleteChartLine(h, <<f, k>>), c, FieldsBeforeFailure(c, k))
DeleteRow(c, k) ==
    IF HasAllLines(c, k) THEN [DeleteLines(c, k) EXCEPT !.rows = [j \in DOMAIN @ \ {k} |-> @[j]]]
    ELSE DeleteLines(c, k)

(* clean stops at the first row that cannot be removed; otherwise the painter *)
(* is made again.                                                             *)
Repainter(c) == IF AxisIsSet(c.x) THEN calcXUnit(c) ELSE c
CleanChart(c) ==
    LET step(h, k) == IF h.stuck THEN h ELSE [DeleteRow(h, k) EXCEPT !.stuck = ~HasAllLines(h, k)]
        cleaned == FoldLeft(step, c, SetToSeq(DOMAIN c.rows))
    IN IF cleaned.stuck THEN [cleaned EXCEPT !.stuck = FALSE]
       ELSE IF c.anchored THEN Repainter([cleaned EXCEPT !.xLabels = NoAxis]) ELSE [cleaned EXCEPT !.xLabels = NoAxis]
-----------------------------------------------------------------------------
InitialChart == [rows |-> <<>>, fields |-> {}, lines |-> <<>>, x |-> NoAxis, xUnit |-> NoUnit,
                 xLabels |-> NoAxis, width |-> Missing, height |-> Missing,
                 anchored |-> FALSE, minY |-> Missing, maxY |-> Missing, stuck |-> FALSE]
ChartInit == chart = InitialChart

(* The chart is created, or parsed again once its element is in the page.     *)
setChartAnchor(size) ==
    LET sized == [chart EXCEPT !.anchored = TRUE,
                               !.width = IF @ = Missing THEN size ELSE @,
                               !.height = IF @ = Missing THEN size ELSE @]
        ready == Repainter(sized)
    IN /\ ~chart.anchored
       /\ chart' = [ready EXCEPT !.lines = [id \in DOMAIN @ |->
                        IF AxisIsSet(@[id].y) THEN calcYUnit(ready, @[id]) ELSE @[id]]]

(* Updates and removals, accepted only once the chart has been parsed. A row  *)
(* comes with all of its fields unless incomplete rows are allowed.           *)
PointsKept == FoldSet(LAMBDA id, n : n + Len(chart.lines[id].pts), 0, Lines)
ChartUpdate(k, u) ==
    /\ chart.anchored
    /\ "incomplete_rows" \in ChartAvoided /\ k \notin DOMAIN chart.rows =>
          u["x"] \in XValues /\ \A f \in YFields : u[f] \in YValues
    /\ PointsKept + Cardinality(chart.fields) <= MaxPoints
    /\ chart' = StoreRow(UpdateLines(chart, k, u), k, u)
ChartRemoval(k) ==
    /\ chart.anchored /\ k \in DOMAIN chart.rows
    /\ "incomplete_rows" \in ChartAvoided => HasAllLines(chart, k)
    /\ chart' = DeleteRow(chart, k)
setXAxis ==
    /\ "incomplete_rows" \in ChartAvoided => \A k \in DOMAIN chart.rows : HasAllLines(chart, k)
    /\ chart' = CleanChart(chart)

addYAxis(f) == f \notin chart.fields /\ chart' = [chart EXCEPT !.fields = @ \cup {f}]
removeYAxis(f) ==
    /\ f \in chart.fields
    /\ chart' = [chart EXCEPT !.fields = @ \ {f},
                              !.lines = [id \in {j \in DOMAIN @ : j[1] # f} |-> @[id]]]
PositionXAxis(min) == chart' = positionXAxis(chart, min, min + Span)
(* configureArea changes the width, the height or both.                       *)
configureArea(width, height) ==
    LET sized == [chart EXCEPT !.width = width, !.height = height]
        moved == IF width # chart.width /\ AxisIsSet(chart.x) THEN calcXUnit(sized) ELSE sized
        again(line) == IF height # chart.height THEN calcYUnit(moved, line) ELSE line
    IN /\ chart' = [moved EXCEPT !.lines = [id \in DOMAIN @ |->
                        IF AxisIsSet(@[id].y) /\ AxisIsSet(moved.x) THEN RepaintIfDrawn(moved, again(@[id])) ELSE @[id]]]

ChartUpdates == {u \in [YFields \cup {"x"} -> XValues \cup YValues \cup {Missing, NullValue}] :
                   u["x"] \in XValues \cup {Missing} /\ \A f \in YFields : u[f] \notin XValues}
ChartNext ==
    \/ \E k \in ChartKeys, u \in ChartUpdates : ChartUpdate(k, u)
    \/ \E k \in ChartKeys : ChartRemoval(k)
    \/ \E f \in YFields : addYAxis(f) \/ removeYAxis(f)
    \/ \E x \in XValues : PositionXAxis(x)
    \/ \E s \in Sizes : setChartAnchor(s) \/ configureArea(s, chart.height) \/ configureArea(chart.width, s)
    \/ setXAxis
ChartSpec == ChartInit /\ [][ChartNext]_chart
-----------------------------------------------------------------------------
(* Whatever moved the axes or the size of the chart, and in whatever order,   *)
(* each line is drawn as its history and the axes of now say, and the labels  *)
(* show the axes of now.                                                      *)
PaintedAsConfigured ==
    chart.anchored =>
      /\ AxisIsSet(chart.x) => /\ chart.xUnit = Unit(chart.x, chart.width)
                               /\ chart.xLabels = chart.x
      /\ \A id \in Lines : LET line == chart.lines[id]
                           IN /\ line.unit = Unit(line.y, chart.height) /\ line.labels = line.y
                              /\ line.pic = [i \in DOMAIN line.pts |-> Place(chart, line, line.pts[i])]

(* Every line belongs to a row and a field of the Y axis, and all of its      *)
(* points are inside the Y axis that the listener stretches.                  *)
LinesBelong ==
    \A id \in Lines :
      /\ id[1] \in chart.fields /\ id[2] \in DOMAIN chart.rows
      /\ \A i \in DOMAIN chart.lines[id].pts :
            chart.lines[id].y.min <= chart.lines[id].pts[i].y /\ chart.lines[id].pts[i].y <= chart.lines[id].y.max
=============================================================================
