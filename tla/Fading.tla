------------------------------- MODULE Fading -------------------------------
(* How a grid of the web library shows an update in a cell: the value and the *)
(* hot style come after a fade (coldToHotTime), the cold style after another  *)
(* one (hotTime, hotToColdTime). Everything is done by timed tasks that find  *)
(* the cell as later updates have left it, and by the faders of one           *)
(* FadersHandler, which are used again. The cells of a StaticGrid are found   *)
(* through the row they show now (SlidingCell), and every update makes a new  *)
(* SlidingCell, with an id of its own. A style is the colour of the           *)
(* background; a value is the number of its update.                           *)
EXTENDS Integers, Sequences, FiniteSets, SequencesExt, FiniteSetsExt

CONSTANTS
    FadeRows,        \* rows; as many places for them
    HotColours, ColdColours,
    ColdToHotTimes, HotTimes, HotToColdTimes,   \* in cycles of the fades
    Sliding,         \* {TRUE} for a StaticGrid, {FALSE} for a DynaGrid
    Vias,            \* how a style is given: to the "cell", to the "row", or "none"
    MaxShown,        \* updates
    MaxLost,         \* cycles that late timers lose
    FadingAvoided    \* what the application does not do, see below

NotSet == "none"
Mixed == "mixed"     \* in the middle of a fade
NoStyle == [hot |-> NotSet, cold |-> NotSet]
NoRow == 0
FadeTimes == [coldToHot : ColdToHotTimes, hot : HotTimes, hotToCold : HotToColdTimes]

VARIABLE fading

(* --- the cells -----------------------------------------------------------*)
EmptyCell == [shown |-> 0, bg |-> NotSet, next |-> 0, hot |-> NotSet, cold |-> NotSet,
              count |-> 0, phase |-> 0]
InPage(f, k) == f.at[k] # NoRow
CellOf(f, k) == f.cells[f.at[k]]
SetCell(f, k, c) == [f EXCEPT !.cells[f.at[k]] = c]

(* Timed tasks run in the order of their times; those of one time in the      *)
(* order in which they were given.                                            *)
AddTask(f, delay, task) ==
    LET before == Cardinality({i \in DOMAIN f.tasks : f.tasks[i].due <= delay})
    IN [f EXCEPT !.tasks = InsertAt(@, before + 1, [task EXCEPT !.due = delay])]
Task(what, k, n) == [what |-> what, row |-> k, n |-> n, due |-> 0]

asynchUpdateStyles(f, k, n, applyWhat) ==
    LET c == CellOf(f, k)
        paint(colour) == IF colour = NotSet THEN c.bg ELSE colour
    IN IF ~InPage(f, k) \/ c.count # n THEN f
       ELSE IF applyWhat = "HOT"
            THEN SetCell(f, k, [c EXCEPT !.bg = paint(c.hot), !.hot = NotSet])
            ELSE SetCell(f, k, [c EXCEPT !.bg = paint(c.cold), !.cold = NotSet])
asynchUpdateValue_AnyUpdate(f, k, n) ==
    LET c == CellOf(f, k)
    IN IF ~InPage(f, k) THEN f
       ELSE asynchUpdateStyles(SetCell(f, k, [c EXCEPT !.shown = c.next, !.next = 0]), k, n, "HOT")
asynchUpdateValue(f, k, n) ==
    LET c == CellOf(f, k)
    IN IF ~InPage(f, k) \/ c.count # n THEN f
       ELSE asynchUpdateStyles(SetCell(f, k, [c EXCEPT !.shown = c.next, !.next = 0]), k, n, "HOT")
EndCommand(f, cmd) == IF cmd.what = "value" THEN asynchUpdateValue(f, cmd.row, cmd.n)
                      ELSE asynchUpdateStyles(f, cmd.row, cmd.n, "COLD")

(* --- the faders ----------------------------------------------------------*)
Running(f) == DOMAIN f.running
put(f, id) == [f EXCEPT !.free = Append(@, id)]
stopFader(f, cellId) ==
    IF cellId \notin Running(f) THEN f
    ELSE put([f EXCEPT !.running = [c \in Running(f) \ {cellId} |-> f.running[c]]], f.running[cellId])

(* getNewFaderId: the cell enters a new phase; an id of the pile is used      *)
(* first. The result is the new state and the id.                             *)
getNewFaderId(f, k, cellId, goingDown, endBack, steps, cmd) ==
    LET c == CellOf(f, k)
        f1 == SetCell(f, k, [c EXCEPT !.phase = @ + 1])
        fader == [row |-> k, cellId |-> cellId, goingDown |-> goingDown, endBack |-> endBack,
                  steps |-> Max({steps, 1}), phase |-> c.phase + 1, actStep |-> 0, cmd |-> cmd]
    IN IF f.free = <<>> THEN [state |-> [f1 EXCEPT !.faders = Append(@, fader)], id |-> Len(f.faders) + 1]
       ELSE [state |-> [f1 EXCEPT !.faders[Last(f.free)] = fader, !.free = Front(@)], id |-> Last(f.free)]

fadeThreadStart(f) == IF f.fadeThread THEN f ELSE AddTask([f EXCEPT !.fadeThread = TRUE], 1, Task("fade", NoRow, 0))
launchFader(f, id) ==
    LET fader == f.faders[id]
        old == fader.cellId \in Running(f)
        oldId == f.running[fader.cellId]
        oldFader == f.faders[oldId]
        f1 == IF old /\ ~oldFader.goingDown
              THEN IF fader.goingDown THEN EndCommand(f, oldFader.cmd)
                   ELSE [f EXCEPT !.faders[id].actStep = oldFader.actStep,
                                  !.faders[id].steps = Max({@, oldFader.steps})]
              ELSE f
        f2 == IF old THEN put(f1, oldId) ELSE f1
        running == [c \in Running(f) \cup {fader.cellId} |-> IF c = fader.cellId THEN id ELSE f.running[c]]
    IN IF ~InPage(f, fader.row) THEN stopFader(f, fader.cellId)
       ELSE IF fader.phase < CellOf(f, fader.row).phase THEN f
       ELSE fadeThreadStart([f2 EXCEPT !.running = running])

(* A cycle of the fades. A fader whose cell is no longer in the page stops,   *)
(* one that is over gives its command to the executor, the others paint. When *)
(* the cycle was late, the time lost is taken from the fades that go on.      *)
Paint(f, fader) ==
    LET c == CellOf(f, fader.row)
    IN IF fader.endBack = NotSet THEN f
       ELSE SetCell(f, fader.row, [c EXCEPT !.bg = IF fader.actStep >= fader.steps THEN fader.endBack ELSE Mixed])
StepFader(f, cellId) ==
    LET id == f.running[cellId]
        fader == f.faders[id]
        next(h) == [h EXCEPT !.faders[id].actStep = @ + 1]
    IN IF fader.actStep > fader.steps THEN next(AddTask(stopFader(f, cellId), 0, fader.cmd))
       ELSE IF ~InPage(f, fader.row) THEN stopFader(f, cellId)
       ELSE next(Paint(f, fader))
Late(f, lost) == [f EXCEPT !.tasks = [i \in DOMAIN @ |-> [@[i] EXCEPT !.due = Max({@ - lost, 0})]]]
recoverCycles(f, lost) ==
    LET late(fader) == IF fader.actStep > fader.steps THEN fader
                       ELSE [fader EXCEPT !.actStep = IF @ + lost < fader.steps THEN @ + lost ELSE fader.steps]
        ids == {f.running[c] : c \in Running(f)}
    IN [f EXCEPT !.faders = [id \in DOMAIN @ |-> IF id \in ids THEN late(@[id]) ELSE @[id]]]
doFade(f, lost) ==
    LET over(cellId) == f.faders[f.running[cellId]].actStep > f.faders[f.running[cellId]].steps
        atLeast1 == \E c \in Running(f) : ~over(c) /\ InPage(f, f.faders[f.running[c]].row)
        stepped == FoldLeft(StepFader, f, SetToSeq(Running(f)))
    IN IF atLeast1 THEN AddTask(IF lost > 0 THEN recoverCycles(Late(stepped, lost), lost) ELSE stepped, 1, Task("fade", NoRow, 0))
       ELSE [stepped EXCEPT !.fadeThread = FALSE]

(* --- an update -----------------------------------------------------------*)
(* A style of the row gives a cell only what the cell does not have already,  *)
(* a style of the cell replaces what it has.                                  *)
Styled(c, s) ==
    LET or(own, given) == IF s.via = "row" /\ own # NotSet THEN own ELSE given
    IN IF s.via = "none" THEN c ELSE [c EXCEPT !.hot = or(@, s.hot), !.cold = or(@, s.cold)]

CellId(f, k) == IF f.sliding THEN <<k, f.given[k].value>> ELSE <<k, 0>>
FadeToCold(f, k, n, cold, t) ==
    LET new == getNewFaderId(f, k, CellId(f, k), TRUE, cold, t.hotToCold, Task("style", k, n))
    IN AddTask(new.state, t.coldToHot + t.hot, Task("launch", k, new.id))
GoCold(f, k, n, cold, fades, t) ==
    IF fades /\ t.hotToCold > 0 THEN FadeToCold(f, k, n, cold, t)
    ELSE AddTask(f, t.coldToHot + t.hot + t.hotToCold, Task("style", k, n))
GoHot(f, k, n, hot, t) ==
    LET new == getNewFaderId(f, k, CellId(f, k), FALSE, hot, t.coldToHot, Task("value", k, n))
    IN IF t.coldToHot > 0 THEN launchFader(new.state, new.id) ELSE stopFader(f, CellId(f, k))
visualUpdateExecution(f, k, v, s, t) ==
    LET c == Styled([CellOf(f, k) EXCEPT !.next = v], s)
        n == c.count + 1
        f1 == SetCell(f, k, [c EXCEPT !.count = n])
        styled == c.hot # NotSet
        f2 == IF styled THEN GoHot(f1, k, n, c.hot, t)
              ELSE IF t.coldToHot > 0 THEN AddTask(f1, t.coldToHot, Task("value", k, n)) ELSE f1
        f3 == IF c.cold # NotSet THEN GoCold(f2, k, n, c.cold, TRUE, t) ELSE f2
    IN IF t.coldToHot = 0 THEN asynchUpdateValue(f3, k, n) ELSE f3

(* --- actions -------------------------------------------------------------*)
InitialFading(t, sliding) ==
    [cells |-> [p \in FadeRows |-> EmptyCell], at |-> [k \in FadeRows |-> k], tasks |-> <<>>,
     faders |-> <<>>, free |-> <<>>, running |-> <<>>, fadeThread |-> FALSE, sliding |-> sliding,
     times |-> t, updates |-> 0, lost |-> 0,
     given |-> [k \in FadeRows |-> [value |-> 0, cold |-> NotSet]]]
FadingInit == \E t \in FadeTimes, s \in Sliding : fading = InitialFading(t, s)

Styles == {[via |-> "none", hot |-> NotSet, cold |-> NotSet]}
          \cup [via : Vias \ {"none"}, hot : HotColours, cold : ColdColours]
Pending(f, k) == CellOf(f, k).hot # NotSet \/ CellOf(f, k).cold # NotSet
Shown(k, s, t) ==
    LET n == fading.updates + 1
        cold == IF s.via = "none" THEN fading.given[k].cold ELSE s.cold
        given == [fading EXCEPT !.updates = n, !.given[k] = [value |-> n, cold |-> cold]]
    IN /\ n <= MaxShown /\ InPage(fading, k)
       /\ "changing_times" \in FadingAvoided => t = fading.times
       /\ "row_style_over_pending" \in FadingAvoided /\ s.via = "row" => ~Pending(fading, k)
       /\ fading' = visualUpdateExecution(given, k, n, s, t)

(* The executor runs what is due; when nothing is, time passes.               *)
RunTask ==
    /\ fading.tasks # <<>> /\ Head(fading.tasks).due = 0
    /\ LET task == Head(fading.tasks)
           f == [fading EXCEPT !.tasks = Tail(@)]
       IN \/ task.what \in {"value", "style"} /\ fading' = EndCommand(f, task)
          \/ task.what = "launch" /\ fading' = launchFader(f, task.n)
          \/ task.what = "fade" /\ \E lost \in 0..MaxLost - f.lost :
                fading' = doFade([f EXCEPT !.lost = @ + lost], lost)
Passing ==
    /\ fading.tasks # <<>> /\ Head(fading.tasks).due > 0
    /\ fading' = [fading EXCEPT !.tasks = [i \in DOMAIN @ |-> [@[i] EXCEPT !.due = @ - 1]]]

(* The rows of a StaticGrid change places, and leave; the cells of a place    *)
(* that is left go back to their first content (Cell.clean).                  *)
scrollHere ==
    /\ fading.sliding
    /\ \E p \in [FadeRows -> FadeRows] :
         /\ \A j, k \in FadeRows : p[j] = p[k] => j = k
         /\ p # [k \in FadeRows |-> k]
         /\ fading' = [fading EXCEPT !.cells = [q \in FadeRows |-> @[p[q]]],
                                     !.at = [k \in FadeRows |-> IF @[k] = NoRow THEN NoRow
                                                                ELSE CHOOSE q \in FadeRows : p[q] = @[k]]]
RowLeaves(k) ==
    /\ fading.sliding /\ InPage(fading, k)
    /\ fading' = [fading EXCEPT !.cells[fading.at[k]] = [@ EXCEPT !.shown = 0, !.bg = NotSet],
                                !.at[k] = NoRow, !.given[k] = [value |-> 0, cold |-> NotSet]]
RowComes(k) ==
    /\ ~InPage(fading, k)
    /\ "row_comes_back" \in FadingAvoided => fading.tasks = <<>>
    /\ \E p \in FadeRows \ {fading.at[j] : j \in FadeRows} :
          /\ "row_comes_back" \in FadingAvoided => fading.cells[p].hot = NotSet /\ fading.cells[p].cold = NotSet
          /\ fading' = [fading EXCEPT !.at[k] = p]

FadingNext ==
    \/ \E k \in FadeRows, s \in Styles, t \in FadeTimes : Shown(k, s, t)
    \/ RunTask
    \/ Passing
    \/ scrollHere
    \/ \E k \in FadeRows : RowLeaves(k) \/ RowComes(k)
FadingSpec == FadingInit /\ [][FadingNext]_fading
-----------------------------------------------------------------------------
(* When nothing is under way, each cell shows the value of the last update in *)
(* the cold style that was last asked for it, and no fader is left running.   *)
QuietIsFinal ==
    fading.tasks = <<>> =>
      /\ ~fading.fadeThread /\ Running(fading) = {}
      /\ \A k \in FadeRows : InPage(fading, k) =>
            CellOf(fading, k).shown = fading.given[k].value /\ CellOf(fading, k).bg = fading.given[k].cold

(* A fader is in one use: free, painting one cell, or waiting to be launched. *)
Launches == {i \in DOMAIN fading.tasks : fading.tasks[i].what = "launch"}
FaderHasOneUse ==
    LET painting == {fading.running[c] : c \in Running(fading)}
        waiting == {fading.tasks[i].n : i \in Launches}
        free == ToSet(fading.free)
    IN /\ Cardinality(painting) = Cardinality(Running(fading)) /\ Cardinality(waiting) = Cardinality(Launches)
       /\ Cardinality(free) = Len(fading.free)
       /\ painting \cap waiting = {} /\ free \cap (painting \cup waiting) = {}

(* No task, however late, shows a value older than the one on the screen.     *)
NoOlderValue ==
    \A k \in FadeRows : InPage(fading, k) /\ InPage(fading', k) /\ fading.given[k].value > 0
        => CellOf(fading', k).shown >= CellOf(fading, k).shown
=============================================================================
