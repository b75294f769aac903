------------------------------ MODULE RowNodes -------------------------------
(* What DynaRows takes for granted: that the three parents of a DynaGrid, an  *)
(* array with a map of positions for the rows out of sight and the nodes of   *)
(* the page for the others, hold their rows in the order of a sequence. Here  *)
(* are the arrays and the nodes, beside the sequences of DynaRows; and, as it *)
(* needs them, the template the rows are clones of and the automatic scroll.  *)
EXTENDS Integers, Sequences, SequencesExt, FiniteSetsExt

CONSTANTS
    DynaKeys,           \* keys of rows, positive numbers
    ScrollTypes,        \* of "ELEMENT", "PAGE" and "OFF"
    UpdateIsKey,        \* {TRUE} for DISTINCT subscriptions
    UsedPlaces,         \* parents that get rows: "shown" and one of "prev" and "next", which are alike
    NodesAvoided        \* what the page does not do, see below

VARIABLE nodes   \* [page, template, parsed, shown, prev, next, parent, made, offset, scroll, list]

Lists == INSTANCE DynaRows WITH MaxFifoHoles <- 0

Null == 0
NoNode == 0
Brother == -1           \* what follows the template in the page
Template == -2
Before == -3
Places == {"prev", "shown", "next"}

(* --- the parents -----------------------------------------------------------*)
(* InvisibleParent: map gives the row of a position, hash the position of a   *)
(* row. Positions start from 0.                                               *)
NoRows == [map |-> <<>>, hash |-> <<>>, length |-> 0]
Set(f, x, v) == [y \in DOMAIN f \cup {x} |-> IF y = x THEN v ELSE f[y]]
Without(f, x) == [y \in DOMAIN f \ {x} |-> f[y]]
InvisibleRemove(a, k) ==
    LET from == a.hash[k]
        last == a.length - 1
        at(i) == IF i >= from THEN a.map[i + 1] ELSE a.map[i]
        map == [i \in 0..last - 1 |-> at(i)]
    IN IF a.length <= 0 THEN a
       ELSE [map |-> map, length |-> last,
             hash |-> [j \in DOMAIN a.hash \ {k} |-> IF a.hash[j] > from THEN a.hash[j] - 1 ELSE a.hash[j]]]
InvisibleInsert(a, k, index) ==
    [map |-> [i \in 0..a.length |-> IF i < index THEN a.map[i] ELSE IF i = index THEN k ELSE a.map[i - 1]],
     hash |-> Set([j \in DOMAIN a.hash |-> IF a.hash[j] >= index THEN a.hash[j] + 1 ELSE a.hash[j]], k, index),
     length |-> a.length + 1]

(* VisibleParent: the sons it knows, how many, where the next one on top and  *)
(* the next one at the bottom go; their order is in the page.                 *)
Index(n, node) == CHOOSE i \in DOMAIN n.page : n.page[i] = node
Sibling(n, node) == IF Index(n, node) < Len(n.page) THEN n.page[Index(n, node) + 1] ELSE NoNode
OutOfPage(n, k) == [n EXCEPT !.page = SelectSeq(@, LAMBDA x : x # k)]
InPageBefore(n, k, node) ==
    LET out == OutOfPage(n, k)
    IN [out EXCEPT !.page = IF node = NoNode THEN Append(@, k) ELSE InsertAt(@, Index(out, node), k)]
VisibleRemove(n, k) ==
    OutOfPage([n EXCEPT !.shown.length = @ - 1, !.shown.sons = @ \ {k},
                        !.shown.topChild = IF @ = k THEN Sibling(n, k) ELSE @], k)
removeChild(n, k, p) ==
    LET out == IF p = "shown" THEN VisibleRemove(n, k) ELSE [n EXCEPT ![p] = InvisibleRemove(@, k)]
    IN [out EXCEPT !.parent[k] = "none"]
isolation(n, k) == IF n.parent[k] = "none" THEN n ELSE removeChild(n, k, n.parent[k])
Adopt(n, k) ==
    IF n.parent[k] = "shown" THEN n
    ELSE LET out == isolation([n EXCEPT !.shown.length = @ + 1, !.shown.sons = @ \cup {k}], k)
         IN [out EXCEPT !.parent[k] = "shown"]

HideAt(n, k, p, index) == [n EXCEPT ![p] = InvisibleInsert(@, k, index), !.parent[k] = p]
InvisibleAppend(n, k, onBottom, p) ==
    LET out == isolation(n, k)
    IN HideAt(out, k, p, IF onBottom \/ out[p].length = 0 THEN out[p].length ELSE 0)
VisibleAppend(n, k, onBottom) ==
    LET in == Adopt(n, k)
    IN IF ~onBottom THEN [InPageBefore(in, k, in.shown.topChild) EXCEPT !.shown.topChild = k]
       ELSE InPageBefore([in EXCEPT !.shown.topChild = IF @ = NoNode THEN k ELSE @], k, in.shown.toInsBefore)
appendChild(n, k, onBottom, p) == IF p = "shown" THEN VisibleAppend(n, k, onBottom) ELSE InvisibleAppend(n, k, onBottom, p)
IsIn(n, k, p) == IF p = "shown" THEN k \in n.shown.sons ELSE k \in DOMAIN n[p].hash
insertBefore(n, k, ref, p) ==
    LET out == isolation(n, k)
    IN IF ref = k THEN n
       ELSE IF ref = Null \/ ~IsIn(n, ref, p) THEN appendChild(n, k, TRUE, p)
       ELSE IF p = "shown" THEN InPageBefore(Adopt(n, k), k, ref)
       ELSE HideAt(out, k, p, out[p].hash[ref])

(* getChild: of an array, or the node of the page after those that were there *)
(* when the template was found, if it is the node of a son.                   *)
getChild(n, index, p) ==
    LET at == index + n.offset + 1
    IN IF p # "shown" THEN (IF index \in DOMAIN n[p].map THEN n[p].map[index] ELSE Null)
       ELSE IF index >= n.shown.length \/ at \notin DOMAIN n.page THEN Null
       ELSE IF n.page[at] \in n.shown.sons THEN n.page[at] ELSE Null

(* --- the template ----------------------------------------------------------*)
Attached(n) == Contains(n.page, Template)
templateControl(n) == Attached(n) /\ n.template = "good"
FieldsOfTemplate == {"f1", "f2"}
(* parseTemplate: a template that was found and is still there is not read again. *)
parseTemplate(n) ==
    LET at == Index(n, Template)
        brother == IF at < Len(n.page) THEN n.page[at + 1] ELSE NoNode
    IN IF n.parsed /\ Attached(n) THEN n
       ELSE IF ~templateControl(n) THEN [n EXCEPT !.parsed = FALSE]
       ELSE [n EXCEPT !.parsed = TRUE, !.offset = at, !.prev = NoRows, !.next = NoRows,
                      !.shown = [sons |-> {}, length |-> 0, topChild |-> brother, toInsBefore |-> brother],
                      !.list.top = brother, !.list.bottom = brother]
(* element: the node of a row is cloned once, with its cells.                 *)
element(n, k) == IF k \in DOMAIN n.made THEN n ELSE [n EXCEPT !.made = Set(@, k, FieldsOfTemplate)]

(* --- the automatic scroll --------------------------------------------------*)
(* Heights of the part in view and of a row, in pixels. What is scrolled is   *)
(* the parent of the template, or the page: that is how the body answers in   *)
(* quirks mode; in standards mode it seems never scrolled.                    *)
View == 5
RowHeight == 4
Top(n, k) == RowHeight * (Index(OutOfPage(n, Template), k) - 1)
ContentHeight(n) == Max({View, RowHeight * (Len(n.page) - 1)})
End(n) == ContentHeight(n) - View
Scrolled(n, pos) == [n EXCEPT !.scroll.pos = Max({0, Min({pos, End(n)})})]
AsSeen(n) == IF n.scroll.type = "PAGE" /\ n.scroll.standards THEN [client |-> ContentHeight(n), top |-> 0]
             ELSE [client |-> View, top |-> n.scroll.pos]
willAutoScroll(n) ==
    /\ n.scroll.type # "OFF"
    /\ \/ ~n.scroll.updateIsKey
       \/ IF n.scroll.addOnTop THEN AsSeen(n).top = 0
          ELSE ContentHeight(n) - (AsSeen(n).client + AsSeen(n).top) \in -1..1
getNewScrollPosition(n, k) ==
    IF ~n.scroll.updateIsKey THEN Top(n, k)
    ELSE IF n.scroll.addOnTop THEN 0 ELSE ContentHeight(n) - AsSeen(n).client
doAutoScroll(before, n, k) ==
    IF willAutoScroll(before) /\ n.parent[k] = "shown" THEN Scrolled(n, getNewScrollPosition(n, k))
    ELSE Scrolled(n, n.scroll.pos)

(* --- actions ---------------------------------------------------------------*)
NoLists == [prev |-> <<>>, shown |-> <<>>, next |-> <<>>, top |-> NoNode, bottom |-> NoNode]
RowNodesInit ==
    \E before, after \in {0, 1}, t \in ScrollTypes, byUpdate \in UpdateIsKey, onTop, standards \in BOOLEAN :
        /\ "standards_mode" \in NodesAvoided \/ t # "PAGE" => ~standards
        /\ nodes = [page |-> [i \in 1..before |-> Before] \o <<Template>> \o [i \in 1..after |-> Brother],
                    template |-> "good", parsed |-> FALSE, offset |-> 0, prev |-> NoRows, next |-> NoRows,
                    shown |-> [sons |-> {}, length |-> 0, topChild |-> NoNode, toInsBefore |-> NoNode],
                    parent |-> [k \in DynaKeys |-> "none"], made |-> <<>>, list |-> NoLists,
                    scroll |-> [type |-> t, updateIsKey |-> byUpdate, addOnTop |-> onTop, standards |-> standards, pos |-> 0]]

(* The page changes the template, or what lies around it.                     *)
Rows(n) == DOMAIN n.made
NoRowsYet(n) == Rows(n) = {}
TemplateChanges ==
    \E t \in {"good", "no_source", "no_cells"} : ~nodes.parsed /\ nodes' = [nodes EXCEPT !.template = t]
TemplateLeaves ==
    /\ Attached(nodes)
    /\ "template_leaves_with_rows" \in NodesAvoided => NoRowsYet(nodes)
    /\ nodes' = OutOfPage(nodes, Template)
TemplateComes ==
    /\ ~Attached(nodes)
    /\ nodes' = [nodes EXCEPT !.page = InsertAt(@, IF Contains(@, Before) THEN 2 ELSE 1, Template), !.parsed = FALSE]
SiblingComes ==
    /\ ~Contains(nodes.page, Before)
    /\ "siblings_change" \in NodesAvoided => ~nodes.parsed
    /\ nodes' = [nodes EXCEPT !.page = <<Before>> \o @]
Parse == nodes' = parseTemplate(nodes)
UserScrolls == \E pos \in {0, End(nodes) - 1} : nodes' = Scrolled(nodes, pos)
(* An element that is not in the page cannot be scrolled.                     *)
prepareAutoScroll(t, there) == IF t = "ELEMENT" /\ ~there THEN "OFF" ELSE t
setAutoScroll(t, there) == nodes' = [nodes EXCEPT !.scroll.type = prepareAutoScroll(t, there)]

(* The grid moves its rows from parent to parent; the sequences of DynaRows   *)
(* move alike.                                                                *)
GridReady == nodes.parsed /\ Attached(nodes)
Moved(k, n, list) == nodes' = [doAutoScroll(nodes, n, k) EXCEPT !.list = list]
AppendRow(k, onBottom, p) ==
    /\ GridReady /\ nodes.parent[k] # p
    /\ Moved(k, appendChild(element(nodes, k), k, onBottom, p), Lists!appendChild(nodes.list, k, onBottom, p))
InsertRow(k, ref, p) ==
    /\ GridReady /\ Contains(nodes.list[p], ref)
    /\ Moved(k, insertBefore(element(nodes, k), k, ref, p), Lists!insertBefore(nodes.list, k, ref, p))
RemoveRow(k) ==
    /\ GridReady /\ nodes.parent[k] # "none"
    /\ LET p == nodes.parent[k]
           out == [removeChild(nodes, k, p) EXCEPT !.made = Without(@, k), !.list = Lists!removeChild(@, k, p)]
       IN nodes' = Scrolled(out, out.scroll.pos)

RowNodesNext ==
    \/ TemplateChanges \/ TemplateLeaves \/ TemplateComes \/ SiblingComes
    \/ Parse \/ UserScrolls
    \/ \E t \in ScrollTypes, there \in BOOLEAN : setAutoScroll(t, there)
    \/ \E k \in DynaKeys, p \in UsedPlaces : \/ \E onBottom \in BOOLEAN : AppendRow(k, onBottom, p)
                                         \/ \E ref \in DynaKeys : InsertRow(k, ref, p)
    \/ \E k \in DynaKeys : RemoveRow(k)
-----------------------------------------------------------------------------
(* The rows of each parent are found by their positions as the sequences have *)
(* them; those in sight are the nodes after the template, and no others are   *)
(* in the page; every row has the cells of the template.                      *)
NodesAreTheRows ==
    nodes.parsed =>
      /\ \A p \in Places :
            LET seq == nodes.list[p]
            IN /\ nodes[p].length = Len(seq)
               /\ \A i \in DOMAIN seq : getChild(nodes, i - 1, p) = seq[i] /\ nodes.parent[seq[i]] = p
      /\ \A p \in Places \ {"shown"} : \A i \in DOMAIN nodes.list[p] : nodes[p].hash[nodes.list[p][i]] = i - 1
      /\ SelectSeq(nodes.page, LAMBDA x : x \in DynaKeys) = nodes.list.shown
      /\ nodes.shown.topChild = nodes.list.top
      /\ \A k \in DynaKeys : nodes.parent[k] # "none" => k \in Rows(nodes) /\ nodes.made[k] = FieldsOfTemplate

(* A row that is added or moves scrolls to itself, or, when each update is a  *)
(* row, keeps at the end who was at the end and does not move who was not.    *)
ScrollFollows ==
    /\ nodes.scroll.type # "OFF" /\ ~nodes.scroll.updateIsKey =>
          \A k \in DynaKeys : nodes.parent[k] = "none" /\ nodes'.parent[k] = "shown" =>
             nodes'.scroll.pos \in {Top(nodes', k), End(nodes')} /\ Top(nodes', k) - nodes'.scroll.pos \in 0..View - RowHeight
    /\ nodes.scroll.type # "OFF" /\ nodes.scroll.updateIsKey /\ Len(nodes'.list.shown) > Len(nodes.list.shown) =>
          LET end(n) == IF n.scroll.addOnTop THEN n.scroll.pos = 0 ELSE End(n) - n.scroll.pos \in 0..1
          IN IF end(nodes) THEN end(nodes') ELSE nodes'.scroll.pos = nodes.scroll.pos
RowNodesStep == [][ScrollFollows]_nodes
=============================================================================
