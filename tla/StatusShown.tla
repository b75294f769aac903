----------------------------- MODULE StatusShown -----------------------------
(* The status of a client as the web page shows it: a StatusWidget, with its  *)
(* two leds, its text and its box of details, and the text of the status bar  *)
(* with its moving points (StatusBarProgressIndicator). The widget may be     *)
(* created before the page has a body: it then keeps the last status for      *)
(* later. Both may be added to the client and removed again, at any moment.   *)
EXTENDS Integers, Sequences

CONSTANTS
    Statuses,        \* of the client
    InitialDisplays, \* among "closed", "open" and "dyna"
    Points,          \* of the status bar
    StatusAvoided

DISCONNECTED == "DISCONNECTED"
STALLED == "STALLED"
OFF == "off"
YELLOW == "yellow"
GREEN == "green"
Ready == "Ready"
NoStatus == "none"

VARIABLE shown

(* What the leds say of the transport and of the way the data comes.          *)
TransportLed(s) ==
    CASE s \in {"CONNECTED:WS-STREAMING", "CONNECTED:WS-POLLING"} -> GREEN
      [] s \in {"CONNECTED:HTTP-STREAMING", "CONNECTED:HTTP-POLLING", "CONNECTED:STREAM-SENSING"} -> YELLOW
      [] OTHER -> OFF
StreamingLed(s) ==
    CASE s \in {"CONNECTED:WS-STREAMING", "CONNECTED:HTTP-STREAMING"} -> GREEN
      [] s \in {"CONNECTED:WS-POLLING", "CONNECTED:HTTP-POLLING", "CONNECTED:STREAM-SENSING"} -> YELLOW
      [] OTHER -> OFF
updateWidget(w, text) ==
    [w EXCEPT !.text = text, !.leds = <<TransportLed(text), StreamingLed(text)>>]
onStatusChange(w, s) == IF ~w.ready THEN [w EXCEPT !.cached = s] ELSE updateWidget(w, s)

(* The details: the end of a transition is written where nobody reads it, so  *)
(* they are never simply open or closed again.                                *)
openDetails(w) ==
    IF w.display \in {"open", "opening"} THEN w ELSE [w EXCEPT !.display = "opening", !.visible = TRUE]
closeDetails(w) ==
    IF w.display \in {"closed", "closing"} THEN w
    ELSE [w EXCEPT !.display = "closing", !.visible = FALSE, !.pinned = FALSE]
mouseout(w) == IF w.pinned THEN w ELSE closeDetails(w)
clickHandler(w) == IF w.pinned THEN closeDetails(w) ELSE openDetails([w EXCEPT !.pinned = TRUE])

Furnished(body) ==
    [ready |-> body, text |-> Ready, leds |-> <<OFF, OFF>>, cached |-> NoStatus,
     display |-> "closed", visible |-> FALSE, pinned |-> FALSE]
NewWidget(initial, body) ==
    LET w == Furnished(body)
    IN CASE initial = "closed" -> w
         [] initial = "dyna" -> openDetails(w)
         [] initial = "open" -> [openDetails(w) EXCEPT !.pinned = TRUE]
activate(w) ==
    LET listed == [w EXCEPT !.ready = TRUE]
        known == IF w.cached # NoStatus THEN onStatusChange(listed, w.cached) ELSE listed
    IN IF w.display = "open" THEN openDetails(known) ELSE closeDetails(known)

(* The status bar: a repetitive task writes the status again with one point   *)
(* more, as long as there is something going on.                              *)
IsAlive(s) == s \notin {DISCONNECTED, STALLED}
NewBar == [status |-> DISCONNECTED, pN |-> 0, thread |-> "none", text |-> <<NoStatus, 0>>]
barStatusChange(b, s) ==
    LET status == IF s = NoStatus THEN b.status ELSE s
        pN == IF s = NoStatus THEN b.pN ELSE 0
        next == IF pN >= Points THEN 0 ELSE pN + 1
    IN [b EXCEPT !.status = status, !.pN = IF IsAlive(status) THEN next ELSE pN,
                 !.text = <<status, IF IsAlive(status) THEN pN ELSE 0>>]
startRefreshing(b) == IF b.thread = "none" THEN [b EXCEPT !.thread = "live"] ELSE b
stopRefreshing(b) == IF b.thread = "none" THEN b ELSE [b EXCEPT !.thread = "stopped", !.text = <<NoStatus, 0>>]

(* The image of the status, with its name below (StatusImageWidget): it is    *)
(* told of changes only, neither when it is added nor when it is removed.     *)
imagesNames ==
    {"CONNECTING", "CONNECTED:STREAM-SENSING", "CONNECTED:WS-STREAMING", "CONNECTED:HTTP-STREAMING", "CONNECTED:WS-POLLING",
     "CONNECTED:HTTP-POLLING", STALLED, DISCONNECTED, "DISCONNECTED:WILL-RETRY", "DISCONNECTED:TRYING-RECOVERY"}
NewImage == [message |-> DISCONNECTED, son |-> DISCONNECTED]
imageStatusChange(m, s) == [message |-> s, son |-> IF s \in imagesNames THEN s ELSE m.son]

(* --- actions -------------------------------------------------------------*)
StatusInit ==
    \E initial \in InitialDisplays, body \in BOOLEAN :
      shown = [status |-> DISCONNECTED, body |-> body, widget |-> NewWidget(initial, body), bar |-> NewBar,
               image |-> NewImage, imageListens |-> FALSE,
               widgetListens |-> FALSE, barListens |-> FALSE, wanted |-> initial = "open"]

StatusChanges(s) ==
    /\ s # shown.status
    /\ shown' = [shown EXCEPT !.status = s,
                              !.widget = IF shown.widgetListens THEN onStatusChange(@, s) ELSE @,
                              !.bar = IF shown.barListens THEN barStatusChange(@, s) ELSE @,
                              !.image = IF shown.imageListens THEN imageStatusChange(@, s) ELSE @]
WidgetAdded ==
    /\ ~shown.widgetListens
    /\ shown' = [shown EXCEPT !.widgetListens = TRUE, !.widget = onStatusChange(@, shown.status)]
WidgetRemoved ==
    /\ shown.widgetListens
    /\ "removed_before_body" \in StatusAvoided => shown.body
    /\ shown' = [shown EXCEPT !.widgetListens = FALSE, !.widget = updateWidget(@, Ready)]
BarAdded ==
    /\ ~shown.barListens
    /\ "added_to_bar_again" \in StatusAvoided => shown.bar.thread = "none"
    /\ shown' = [shown EXCEPT !.barListens = TRUE, !.bar = barStatusChange(startRefreshing(@), shown.status)]
BarRemoved == shown.barListens /\ shown' = [shown EXCEPT !.barListens = FALSE, !.bar = stopRefreshing(@)]
ImageAdded ==
    /\ ~shown.imageListens
    /\ "image_added_late" \in StatusAvoided => shown.status = shown.image.message
    /\ shown' = [shown EXCEPT !.imageListens = TRUE]
ImageRemoved == shown.imageListens /\ shown' = [shown EXCEPT !.imageListens = FALSE]
Refresh == shown.bar.thread = "live" /\ shown' = [shown EXCEPT !.bar = barStatusChange(@, NoStatus)]
DOMContentLoaded ==
    /\ ~shown.body
    /\ "open_before_body" \in StatusAvoided => ~shown.widget.pinned
    /\ shown' = [shown EXCEPT !.body = TRUE, !.widget = activate(@)]

(* Wanted: the user (or the application, at first) has pinned the details.    *)
Click ==
    /\ shown.body
    /\ shown' = [shown EXCEPT !.widget = clickHandler(@), !.wanted = ~shown.widget.pinned]
MouseOver == shown.body /\ shown' = [shown EXCEPT !.widget = openDetails(@)]
MouseOut == shown' = [shown EXCEPT !.widget = mouseout(@)]

StatusNext ==
    \/ \E s \in Statuses : StatusChanges(s)
    \/ WidgetAdded \/ WidgetRemoved \/ BarAdded \/ BarRemoved \/ Refresh
    \/ ImageAdded \/ ImageRemoved
    \/ DOMContentLoaded \/ Click \/ MouseOver \/ MouseOut
StatusSpec == StatusInit /\ [][StatusNext]_shown
-----------------------------------------------------------------------------
(* Once there is a page, each shows the status the client has now as long as  *)
(* it is a listener of it, and nothing of it when it is not; the details stay *)
(* open as long as they are pinned; the points of the status bar go on.       *)
StatusIsShown ==
    /\ shown.body =>
         /\ shown.widget.text = IF shown.widgetListens THEN shown.status ELSE Ready
         /\ shown.widget.pinned = shown.wanted
         /\ shown.wanted => shown.widget.visible
    /\ IF shown.barListens THEN shown.bar.status = shown.status /\ shown.bar.thread = "live"
                                /\ shown.bar.text[1] = shown.status
       ELSE shown.bar.thread # "live" /\ shown.bar.text[1] = NoStatus
    /\ shown.bar.text[2] <= Points
    /\ shown.imageListens => shown.image = [message |-> shown.status, son |-> shown.status]
=============================================================================
