---------------------------- MODULE SeparateParts ----------------------------
(* Parts of the library that share nothing but a queue of calls: those of a   *)
(* web page beside the grids (which are in Grid), the widgets that listen to  *)
(* subscriptions, the collections and the retry delays of the client, and the *)
(* tools the widgets are made with. Each behaviour is one of one part, chosen *)
(* in the beginning, so that one run covers them all.                         *)
EXTENDS Chart, Fading, Events, PageLife, Logging, StatusShown, Listening, Scan, Collections, Delays,
    Browsers, Colours, RowNodes, CellContents, Ticks, Inherit, LogLines, Drawing, Cookies, SimpleTasks, Settings

CONSTANT Parts

VARIABLE part
partVars == <<part, chart, fading, events, page, logs, shown, listens, scan, coll, delays>>
toolVars == <<browser, colours, nodes, contents, ticks, classes, lines, drawing, cookies, simple, settings>>
vars == <<partVars, toolVars>>

Absent == <<>>
PartsInit ==
    /\ part \in Parts
    /\ IF part = "chart" THEN ChartInit ELSE chart = Absent
    /\ IF part = "cells" THEN FadingInit ELSE fading = Absent
    /\ IF part = "events" THEN EventsInit ELSE events = Absent
    /\ IF part = "page" THEN PageInit ELSE page = Absent
    /\ IF part = "logs" THEN LoggingInit ELSE logs = Absent
    /\ IF part = "status" THEN StatusInit ELSE shown = Absent
    /\ IF part = "listening" THEN ListeningInit ELSE listens = Absent
    /\ IF part = "scan" THEN ScanInit ELSE scan = Absent
    /\ IF part = "collections" THEN CollectionsInit ELSE coll = Absent
    /\ IF part = "delays" THEN DelaysInit ELSE delays = Absent
    /\ IF part = "browser" THEN BrowsersInit ELSE browser = Absent
    /\ IF part = "colours" THEN ColoursInit ELSE colours = Absent
    /\ IF part = "nodes" THEN RowNodesInit ELSE nodes = Absent
    /\ IF part = "contents" THEN ContentsInit ELSE contents = Absent
    /\ IF part = "ticks" THEN TicksInit ELSE ticks = Absent
    /\ IF part = "classes" THEN InheritInit ELSE classes = Absent
    /\ IF part = "lines" THEN LinesInit ELSE lines = Absent
    /\ IF part = "drawing" THEN DrawingInit ELSE drawing = Absent
    /\ IF part = "cookies" THEN CookiesInit ELSE cookies = Absent
    /\ IF part = "simple" THEN SimpleTasksInit ELSE simple = Absent
    /\ IF part = "settings" THEN SettingsInit ELSE settings = Absent

ChartStep ==
    part = "chart" /\ ChartNext /\ UNCHANGED <<part, fading, events, page, logs, shown, listens, scan, coll, delays, toolVars>>
CellsStep ==
    part = "cells" /\ FadingNext /\ UNCHANGED <<part, chart, events, page, logs, shown, listens, scan, coll, delays, toolVars>>
EventsStep ==
    part = "events" /\ EventsNext /\ UNCHANGED <<part, chart, fading, page, logs, shown, listens, scan, coll, delays, toolVars>>
PageStep ==
    part = "page" /\ PageNext /\ UNCHANGED <<part, chart, fading, events, logs, shown, listens, scan, coll, delays, toolVars>>
LogsStep ==
    part = "logs" /\ LoggingNext /\ UNCHANGED <<part, chart, fading, events, page, shown, listens, scan, coll, delays, toolVars>>
StatusStep ==
    part = "status" /\ StatusNext /\ UNCHANGED <<part, chart, fading, events, page, logs, listens, scan, coll, delays, toolVars>>
ListeningStep ==
    part = "listening" /\ ListeningNext /\ UNCHANGED <<part, chart, fading, events, page, logs, shown, scan, coll, delays, toolVars>>
ScanStep ==
    part = "scan" /\ ScanNext /\ UNCHANGED <<part, chart, fading, events, page, logs, shown, listens, coll, delays, toolVars>>
CollectionsStep ==
    part = "collections" /\ CollectionsNext /\ UNCHANGED <<part, chart, fading, events, page, logs, shown, listens, scan, delays, toolVars>>
DelaysStep ==
    part = "delays" /\ DelaysNext /\ UNCHANGED <<part, chart, fading, events, page, logs, shown, listens, scan, coll, toolVars>>
BrowserStep ==
    part = "browser" /\ BrowsersNext /\ UNCHANGED <<partVars, colours, nodes, contents, ticks, classes, lines, drawing, cookies, simple, settings>>
ColoursStep ==
    part = "colours" /\ ColoursNext /\ UNCHANGED <<partVars, browser, nodes, contents, ticks, classes, lines, drawing, cookies, simple, settings>>
NodesStep ==
    part = "nodes" /\ RowNodesNext /\ UNCHANGED <<partVars, browser, colours, contents, ticks, classes, lines, drawing, cookies, simple, settings>>
ContentsStep ==
    part = "contents" /\ ContentsNext /\ UNCHANGED <<partVars, browser, colours, nodes, ticks, classes, lines, drawing, cookies, simple, settings>>
TicksStep ==
    part = "ticks" /\ TicksNext /\ UNCHANGED <<partVars, browser, colours, nodes, contents, classes, lines, drawing, cookies, simple, settings>>
ClassesStep ==
    part = "classes" /\ InheritNext /\ UNCHANGED <<partVars, browser, colours, nodes, contents, ticks, lines, drawing, cookies, simple, settings>>
LinesStep ==
    part = "lines" /\ LinesNext /\ UNCHANGED <<partVars, browser, colours, nodes, contents, ticks, classes, drawing, cookies, simple, settings>>
DrawingStep ==
    part = "drawing" /\ DrawingNext /\ UNCHANGED <<partVars, browser, colours, nodes, contents, ticks, classes, lines, cookies, simple, settings>>
CookiesStep ==
    part = "cookies" /\ CookiesNext /\ UNCHANGED <<partVars, browser, colours, nodes, contents, ticks, classes, lines, drawing, simple, settings>>
SimpleStep ==
    part = "simple" /\ SimpleTasksNext /\ UNCHANGED <<partVars, browser, colours, nodes, contents, ticks, classes, lines, drawing, cookies, settings>>
SettingsStep ==
    part = "settings" /\ SettingsNext /\ UNCHANGED <<partVars, browser, colours, nodes, contents, ticks, classes, lines, drawing, cookies, simple>>
PartsNext ==
    ChartStep \/ CellsStep \/ EventsStep \/ PageStep \/ LogsStep
    \/ StatusStep \/ ListeningStep \/ ScanStep \/ CollectionsStep \/ DelaysStep \/ BrowserStep
    \/ ColoursStep \/ NodesStep \/ ContentsStep \/ TicksStep \/ ClassesStep \/ LinesStep \/ DrawingStep
    \/ CookiesStep \/ SimpleStep \/ SettingsStep
Spec == PartsInit /\ [][PartsNext]_vars

(* Parts whose constants are alike in all respects.                           *)
Alike == EventsSymmetry \cup LoggingSymmetry \cup Permutations(Subs)
-----------------------------------------------------------------------------
(* Whatever moved its axes, its area or its rows, the chart shows its lines   *)
(* and no others, drawn by the axes of now; and each line from point to point *)
(* without a gap.                                                             *)
ChartAsConfigured ==
    /\ part = "chart" => PaintedAsConfigured /\ LinesBelong
    /\ part = "drawing" => LineIsDrawn

(* No late task or fade shows an older value, mixes two cells or has the last *)
(* word over the last update; a grid holds the cells the page has; the nodes  *)
(* of its rows are in the order of the rows, scrolled as was asked; a cell    *)
(* shows what its row was given, and colours are those that are written.      *)
CellsShowTheLast == part = "cells" => NoOlderValue /\ QuietIsFinal' /\ FaderHasOneUse'
CellsAreThoseOfThePage == part = "scan" => ScanFindsAll /\ MatrixIsSound'
RowsAreInThePage == part = "nodes" => NodesAreTheRows' /\ ScrollFollows
CellsHaveTheirLook == (part = "contents" => ContentsAreOfTheirRow') /\ (part = "colours" => ColoursAsWritten')
CellsAreRight ==
    [][CellsShowTheLast /\ CellsAreThoseOfThePage /\ RowsAreInThePage /\ CellsHaveTheirLook]_<<fading, scan, nodes, contents, colours>>

(* Callbacks run in order and once: those of listeners, of repetitive tasks,  *)
(* of objects dismissed and of the life of the page; and an urgent one does   *)
(* not wait for the interval.                                                 *)
CallbacksRunOnce ==
    /\ part = "events" => EventsReachListeners /\ DismissedInTime /\ RepeatedOnce /\ RunsInOrder
    /\ part = "page" => HandlersRunOnce
    /\ part = "ticks" => UrgentIsTicked
    /\ part = "simple" => SimpleTasksInTime

(* What a reader of the page is told, lines of log and status, is so now, and *)
(* so is what a widget knows of its subscriptions, its browser, its cookies   *)
(* and its own settings.                                                      *)
ReportsAgree ==
    /\ part = "logs" => AppendersGetTheirLines
    /\ part = "lines" => LinesAreShown
    /\ part = "status" => StatusIsShown
    /\ part = "listening" => SubscriptionsCounted
    /\ part = "browser" => BrowserIsTold
    /\ part = "cookies" => CookiesAreTold
    /\ part = "settings" => SettingsAgree

(* A loop over a collection that changes meanwhile visits what it should and  *)
(* nothing is lost of the collection, as nothing is of the methods that are   *)
(* copied from a class to another.                                            *)
LoopsAreComplete ==
    /\ part = "collections" => LoopVisitsAll /\ KeysAgree
    /\ part = "classes" => MethodsInherited

(* Attempts to create a session follow each other by delays that grow.        *)
AttemptsArePaced == part = "delays" => PausesGrow
=============================================================================
