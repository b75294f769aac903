# Verification of the Lightstreamer client

This directory holds TLA+ models of the client library, whose common code is in
`src/src/common` and `src/src/mpn`, and of the widgets and tools that its web
build carries (`src/src-widget`, `src/src-tool`, `src/src-log`), with TLC
configurations that check the models and proofs checked by TLAPS. Paths of
Haxe files below are relative to
`src/src/common/com/lightstreamer/client/internal/` unless they say otherwise;
`CM` is `ClientMachine.hx` there.

    tlc -config Transports.cfg ClientMachine.tla     # a run
    tlapm RecoveryProofs.tla                         # proofs

## 1. The system

### What runs where

A `LightstreamerClient` is a facade over one `ClientMachine`, a hierarchical
statechart whose regions are fields of `State` (`ClientStates.hx`). Events
reach it from four sides: calls of the application, lines of the stream
connection (`evtMessage` parses them), the end of connections and of control
requests, and timers. Every handler runs under the lock of the client
(`Macros.synchronizeClass`), so a handler is one atomic step in every model
here. Listeners are called on a thread of the user (`EventDispatcher`), network
events and timers on the session's thread. What is cancelled stays silent: a
timer tests `isCanceled()` and a connection `isDisposed()` inside the lock
(CM:4336-4344, CM:3415-3450), which is why a cancelled timer and a disposed
connection never act in the models.

`Subscription` has a lock of its own. Its methods that call the client release
it first, so locks are always taken in the order client, subscription; the price
is that such a method is two steps, which `Subscriptions` models as two actions.

The widgets run on the one thread of a web page. Their hazards are of another
kind: a listener of the application runs in the middle of an update and may call
the widget again; a task waits in the queue of the executor while rows move and
cells are taken out of the page; the page itself changes between two readings.

### Components

| component | state | operations | what makes it correct |
|---|---|---|---|
| Session statechart (`ClientMachine`, `ClientStates`) | 20 regions, 10 timers, 3 kinds of connections, status | about 90 handlers `evt*` | regions, timers and connections agree; no wait is endless; the transport, the bandwidth and the heartbeats wanted are the ones in use |
| Data plane (`CM` 2095-2560, 3400-3415, 3720-3742) | `rec_serverProg`, `rec_clientProg` | every notification, `PROG`, `LOOP`, loss, recovery | each notification is delivered once and in order |
| Subscriptions (`SubscriptionManager`, `SubscriptionManagerZombie`, `Subscription`) | a manager for each numeric id; the application's object | subscribe, unsubscribe, change of frequency, `SUBOK`, `UNSUB`, `REQOK`, `REQERR`, end of session | application, managers and server agree; nothing unwanted goes on |
| Messages (`MessageManager`) | a manager for each message, the numbers of the sequences | send, send again, acknowledge, outcome, abort | once and in order at the server; one true outcome for the listener |
| Two-level COMMAND (`ModeStrategyCommand2Level`, `update/ItemCommand2Level`, `update/Key2Level`) | a row and a subscription for each key, aggregate frequency | updates of two levels on two threads | the listener sees the rows of the server; no orphan subscription |
| Mobile push (`src/src/mpn/common`) | device and its four regions, push subscriptions of seven regions each, the special item that lists them | register, refresh, activate, deactivate, change format and trigger, filtered unsubscription, badge | device and server agree across sessions; nothing asked is forgotten |
| Retry delays (`RetryDelayCounter`, CM) | delay, attempts, time of the last one | increase, reset, pause | attempts are paced and slow down |
| Collections (`MyArray`, `OrderedIntMap`) | array with removed marks, map of keys | insert, remove, iterate, compact | an iteration sees what it should, nothing is lost |
| Grids (`AbstractWidget`, `AbstractGrid`, `DynaGrid`, `StaticGrid`) | model of rows, arrival order, postponed calls, parents, positions | update, remove, clear, sort, page, limit, scan of the page | the page shows the rows of the model, in order, whatever listeners do |
| Cells (`Cell`, `SlidingCell`, `VisualUpdate`, `FadersHandler`, `ColorConverter`) | content, styles, faders | update, scroll, fade, clean | the last update has the last word |
| Charts (`Chart`, `ChartLine`, `ChartPainter`, `SimpleChartListener`) | axes, area, lines, points | update, remove, move an axis, resize | what is drawn is the history on the axes of now |
| Tools (`Executor`, `EventDispatcher`, `EnvironmentStatus`, ...) | queues, listeners, handlers | add, remove, dispatch, turn | callbacks run once, in order, in time |
| Loggers, status widgets, settings, browser detection, cookies, inheritance | little | set, read, show | what is shown or told is so now |
| Items of the other modes (`update/Item*`, `ModeStrategy*`) | snapshot flags, current values | updates, end of snapshot, clear | snapshot flags are those of the protocol |
| Requests, parsing, platform transports, wrappers | none of their own | formatting and I/O | see section 7 |

### Interactions

    application -> Subscription / LightstreamerClient -> ClientMachine
    ClientMachine -> managers (subscriptionManagers, messageManagers): replies,
                     notifications, getPendingControls, abort
    managers      -> ClientMachine: genSendControl, relate/unrelate
    manager       -> ModeStrategy -> Item -> Key -> Subscription (second level)
    second level  -> listener on the user's thread -> Key (lock of the client)
    stream connection -> ClientMachine -> data plane filter -> managers
    ClientMachine -> mpn region -> MpnSubscriptionManagers, special items
    Subscription  -> grid or chart (a SubscriptionListener): onItemUpdate, ...
    grid -> its listeners -> grid (calls postponed, merged or run at once)
    grid -> Executor (fades, scans later) -> cells

### What is hard here

* The same session moves between WebSocket, HTTP streaming and polling, by
  requests that cross with timeouts, refusals and the application's changes.
* Ten timers and three connections are armed and released by hand in some two
  hundred transitions.
* A recovery may repeat notifications already delivered.
* Requests are sent again when their answer is late, while the first copy may
  have been received; answers to both come.
* Numbers, managers and regions outlive, or must not outlive, a session.
* Rows of a two-level subscription are built from two threads.
* A push subscription is known by three ways that are not ordered with one
  another: the answer to its activation, `MPNOK`, and the special item.
* Collections are changed by those that are told in a loop over them.
* A grid is called again by its listeners in the middle of an update, or while
  its pages change.
* Tasks of the executor act on cells that moved or changed since they were added.

`PROJECT.json` lists these hazards at their lines with the properties that
cover them.

## 2. The modules

### The client

| module | models | how |
|---|---|---|
| `Delivery` | what the data plane promises | a log that grows and a reader that delivers the next entry; a new session starts again |
| `Recovery` | the data plane | counters of the client, position of the server, one stream connection; refines `Delivery` |
| `RecoveryProofs` | theorems about `Recovery` | TLAPS |
| `ClientState` | the methods that `CM`'s handlers call | operators from a state (a record with one field for each region, named and numbered as in the code) to the next one |
| `ClientMachine` | the handlers | one action for each handler; EXTENDS `ClientState` |
| `ClientMachineProofs` | theorems about `ClientMachine` | TLAPS |
| `Subscriptions` | one `Subscription`, its successive managers and zombies, the control channel and the server's side | one action for each handler |
| `SubscriptionsProofs` | theorems about `Subscriptions` | TLAPS |
| `Messages` | message managers, channels, and the server's side | one action for each handler |
| `MessagesProofs` | theorems about `Messages` | TLAPS |
| `TwoLevel` | one COMMAND item with a second level | one action for each handler, and one for each call on the user's thread |
| `TwoLevelProofs` | theorems about `TwoLevel` | TLAPS |
| `Mpn` | the mpn region, push subscriptions, the special item SUBS, the server | an operator for each handler, from a state of the client to the next one |
| `MpnProofs` | theorems about `Mpn` | TLAPS |
| `Delays` | `RetryDelayCounter`, pauses and timeouts of a session's creation | time relative to the last attempt |
| `Collections` | `MyArray` and `OrderedIntMap` under a loop | elements, marks, position of the loop |
| `Positions` | what a sequence has at some of its positions | operators |
| `PositionsProofs` | lemmas about `Positions` | TLAPS |

### The web library

| module | models |
|---|---|
| `RowModel` | values of a widget (`Matrix`), order of arrival with its holes, rows of an item, comparison of the sort: operators |
| `DynaRows`, `StaticRows` | where a row is shown: three parents and their page; positions (numbers, or strings after a sort) and cells: operators |
| `Grid` | a grid of either class: the calls under way on a stack, the listeners that call again, postponed calls, limits, pages, sort; refines `Table` |
| `Table` | what a grid promises to its callers: accepted calls are carried out one at a time and in order, an update of the row under way joins it, and only the oldest rows are dropped |
| `RowNodes` | what `DynaRows` takes for granted: the arrays, maps and nodes of the parents hold the rows in that order; template and automatic scroll |
| `Listening` | a widget that listens to several subscriptions: the count of the active ones and when it clears itself |
| `Scan` | the scan of a page that changes, cells given by hand, cells that left; the lists of items and fields extracted from the cells |
| `CellContents`, `Colours` | what a cell shows, how it is copied when rows scroll; a colour as it is written and as it is seen |
| `Fading` | styles hot and cold, faders, tasks of the executor that come late |
| `Chart`, `Drawing` | axes, area and lines; the drawing of one line on a canvas or with blocks |
| `Events`, `Ticks`, `SimpleTasks` | tasks, listeners, dismissed objects; the ticks that turn the queue; the executor with a timer for each task |
| `PageLife`, `Cookies`, `Browsers` | handlers of load and unload; cookies of several pages and where a script runs; which browser this is |
| `Logging`, `LogLines` | loggers, levels, appenders; the lines they show |
| `StatusShown` | the status widgets |
| `Settings` | checks of arguments, sort settings and the values compared under them, styles of lines |
| `Inherit` | copy of methods between classes |
| `PartsProofs` | theorems about `Collections`, `Inherit`, `Delays`, `Events`, `PageLife`, `Ticks` and `SimpleTasks` |
| `SeparateParts` | composition for the run `separate_parts`: a behaviour is one of one part, chosen in Init |

### How the modules meet

`ClientMachine` and the modules of managers meet at the control channel.
`ClientMachine` models who may use the channel and when it is looked at;
`Subscriptions`, `Messages` and `Mpn` model what is sent there, with the session
reduced to what they can tell apart (off, no channel, WebSocket, HTTP with an
idle, busy or pausing control connection). The step that frees the channel
(`evtCtrlDone`, `evtCtrlTimeout`) is in each of them. `Recovery` groups the states
of the statechart by what they do to the counters (its header has the table);
because it delivers each notification once and in order, `Subscriptions`,
`Messages`, `TwoLevel` and `Mpn` receive notifications from a queue. Timers expire at
any moment in `ClientMachine`; `Delays` is about when.

`Grid` composes `RowModel`, `DynaRows` and `StaticRows` (by INSTANCE, as both
classes have operators of the same names). What is drawn in the cells of a row
is in `Fading` and `CellContents`, which do not depend on how rows are chosen,
so they are parts of their own. The parts of `SeparateParts` share the thread of
the page and nothing else that they read, so no interleaving of two of them
could show more than each alone.

### Recovery

`serverProg` and `clientProg` are the two counters. `ReadData` is
`onFreshData` or `onStaleData`, `evtPROG` the check of `doPROG`, `evtLOOP` and
`evtCONOK` a rebind, `evtTransportError`, `sendRecovery` and `evtCheckRecoveryTimeout` a
loss and its recovery, `bindElsewhere` the bind without recovery after a failed
WebSocket polling. The server is
external: a connection carries a contiguous range of notifications; a rebind
goes on where the last connection ended, a recovery from any position the
server still may have, also one after the last line read, which the client must
notice.

### ClientState and ClientMachine

The constants are the options the statechart reacts to, and the platform's
abilities: `Forced`, `Bandwidths` and `Heartbeats` are the values the
application may set at any moment; `Slowing`, `SessionRecovery`, `Reachability`
(only web builds report it), `PageLifecycle`, `Refusals` (the server may refuse
a control request), `AddressChanges`. Next is the disjunction of five groups:
`Timeouts` (each timer's handler), `Lines` (what the server sends), `Failures`
(of a connection or a control request), `Application` and `Platform`. Some
fields are not in the code and only remember: `stray` and `orphans` (a timer or
a connection armed or opened over another), `failed` (an assertion failed),
`bwReq`, `bwAck`, `swtAck` (which request is in flight, and for what),
`excused` (why the transport need not be the best one).

### Subscriptions, Messages, TwoLevel

The managers have the states of the code (`s1`..`s5`, `s20`..`s22`; `s10`..`s15`,
`s20`..`s24`, `s30`..`s35`; `s3`..`s5`). A batch over HTTP takes what fits, hence any
non-empty part of what is pending. In `Subscriptions`, a request lost with its
connection does not arrive later; in `Messages` it may (`late`), since the
numbers of messages exist for that. In `TwoLevel` a null frequency is 0,
"unlimited" is the greatest one, and `calls` is the queue of the user's thread.

### Mpn

Regions have the numbers of the code (`m` is `s400`..`s408`, `tk`, `sbs`, `ft`,
`bg`; a manager has `m`, `uu`, `ct`, `ab` and the regions of format and trigger).
Replies, push notifications and updates of the special item are three streams;
each is in order and one may overtake another. The item is listened to on the
user's thread: a key first, its status when its second level is subscribed to.
The channel is there or not; when it is lost, requests and replies are lost with
it, received or not, and `getPendingControls` says what is sent again on the
next one. `server` is what the server knows: it may refuse any legal request,
give a device another identifier when a token changes, and forget nothing else.
The item DEV (suspended and resumed
device), the status TRIGGERED and the properties that are only shown are not
modelled: none of them makes a request. What the managers are told in a loop
(`EachManager`) is one message that each `Hears`, in the order of their numbers.

### Grid

`g.stack` holds the calls under way. A call runs up to a listener of the
application and stops there. There are two of them: `onVisualUpdate`, for each
row updated or removed (`ListenerReturns` goes on from it), and
`onCurrentPagesChanged`, when `calculatePages` finds another number of pages
(`PagesListenerReturns`): after a removal has been counted, after a new row has
been drawn and counted, after `setMaxDynaRows`. From each the listener may call
`updateRow` and `removeRow` on any row, in the model or not. While
`updateInProgress` names the row, the call is merged; while it names another, or
a removal is under way, it is postponed; and it runs at once when nothing is in
progress, which is so in `onCurrentPagesChanged` after a new row (824) and after
`setMaxDynaRows`: the call is then a frame above the one whose listener makes it,
with its own listeners. Every loop of the code that runs listeners (postponed
calls, clearing, rows over the limit) is a frame of its own. A row has one field,
which the grid may be sorted by; it may be missing or null.

A listener does not call `clean` nor the settings (`setSort`, `setAddOnTop`,
`setMaxDynaRows`, `goToPage`), which the model makes at rest only, and keys are
names that are not empty (`updateInProgress` is tested for truth). One item of
the subscription clears its snapshot; its rows are `ItemKeys`.

## 3. The runs

All bounds are constants of the modules, and each of them is given in the
`.cfg`. Each passing run takes from seconds to three minutes with two workers.

| run | bounds | what it shows |
|---|---|---|
| `recovery` | 5 notifications, 4 losses | exactly once and in order, refinement of `Delivery`, delivery in the end. Two losses are needed for a recovery of a recovery, and three notifications to have delivered, lost and pending ones at once |
| `transports` | `AUTO`, `WS_POLLING` and `HTTP`, heartbeats on and off, two recovery attempts | every way of moving between transports: nothing of a state that was left stays behind (`LeavesNothingBehind`: timers, connections and regions are those of the state), the preferred transport is not forgotten, no request waits while its channel is free, statuses follow each other as documented |
| `environment` | `AUTO` and `WS`, two bandwidths, no session recovery, no refusals | page frozen and resumed, network off and on, slowing, changes of address and of bandwidth: nothing is left behind and the limit in force is the one wanted. Two values of the bandwidth are enough for one to be asked while the other is in flight |
| `waits` | `AUTO`, heartbeats on | no wait lasts for ever, even with a silent server |
| `stale_recovery` | as named | violation, see section 6 |
| `subscriptions` | one object subscribed twice, two frequencies one of which is refused, one loss in a session | application, managers and server agree; twice is what it takes for an old and a new manager to share the object |
| `subscriptions_live` | one frequency, two queued notifications | wanted is subscribed, unwanted is deleted |
| `messages` | two messages of four kinds, one loss in a session | once, in order, one true outcome, taken and told in the end; two messages are enough for one to overtake the other |
| `second_level` | two keys (one that cannot be subscribed to), two values, two calls queued | rows agree, commands fit, no orphan, frequencies agree; two calls are needed for one of an old subscription and one of a new one |
| `mpn` | three registrations, one push subscription of the past and one of the application, three managers, two events (calls, losses, refusals, changes of device) | nothing asked is forgotten, every pending request can be written, both sides agree on the device while it is active and registers nothing, and in the end have the same subscriptions. Three registrations are needed for one to be refreshed while an older one is still in flight. A manager of the application, one made by the server and a third one that stands for the same subscription are the most that meet |
| `grids` | both classes, rows of keys and of updates, three rows, two values, limits none and two, two pages, one postponed call, listeners that call from two frames deep (`MaxDepth`) | model, order, pages and cells agree at rest, new rows come at their end, and the grid implements `Table`. Three rows are needed for one to be in the middle and, with a limit of two, for a page to be added while others are shown; two pages for a row to cross a border; two frames for a call made at once by `onCurrentPagesChanged` to be called again by its own listener. With two postponed calls (`ListenerCalls = 2`), one kind of rows at a time, it passes too, in ten million states |
| `separate_parts` | see `SeparateParts.cfg`: each part has two or three of everything | each part alone; the six properties are conjunctions that say what each of them must show |

The state of `ClientMachine` is finite, so its runs are bounded only by the
options they allow to change and by `MaxRecoveryAttempts`, which stands for the
time `sessionRecoveryTimeout`. `AUTO` uses every transport as the ones before
fail; the other values exclude one kind or another, so that the session moves
between the kinds in both directions. `SessionRecovery` is false in `environment`
because, with a network that goes off and on, the stale recovery of section 6
breaks what the run checks. Deadlock is checked in the runs of `Recovery` and
`ClientMachine`. It is not in the others: once every call of the bounded
application is made and the session is over, or nothing is left to do in the
page, they stop.

Every property of a passing run has been seen to fail in a mutant of the model
that resembles a plausible bug; the mutated forms stand before the definitions
they replace and are used by nothing else.

### `Avoided`

Several modules have a constant named `Avoided` (`ChartAvoided`,
`FadingAvoided`, ...): a set of situations in which the code is known not to do
what the property says. The run leaves them out, so that the property shows
everything else; take a name out of the set and TLC finds the behaviour. Section
6 says what each of them is about. They restrict what the application, the page
or the server does, never what the code does.

### Refinements

* `Recovery` implements `Delivery` (`DeliverySpec`): checked and proved.
* `Grid` implements `Table` (`CallsCarriedOut`): the rows of the model are the
  table's, and the calls to carry out are those on the stack, outermost first,
  followed by those postponed. An update counts as carried out once its row is
  drawn and `updateInProgress` cleared: while `onCurrentPagesChanged` runs for a new
  row, that row is in the table though not yet in the model.
* `RowNodes` relates the arrays and nodes of the parents to the sequences
  `DynaRows` works on (`NodesAreTheRows`, in `CellsAreRight`).

### Fairness

* `ClientMachine`: weak fairness of six timers (transport, retry, recovery, idle,
  polling, control) and of nothing else. An armed timer goes off unless
  cancelled; the keepalive timers, which any line arms again, get none. Server
  and network may be silent for ever.
* `Recovery`: the network carries what is written, the server answers and writes
  what it has, and pauses end. Losses are bounded, so the network is good in
  the end.
* `Subscriptions` and `Messages`: replies, notifications and requests arrive,
  the client binds again after a loss (`ClientMachine` shows that it goes on
  trying), and the control connection ends or times out. The application, losses
  and the end of a session are never forced. `subscriptions_live` allows no
  change of frequency: an application that changes it for ever can, if every
  batch has room for one request only, keep another request waiting for ever.
* `Mpn`, `Grid` and the parts of `SeparateParts` state no liveness. What must
  happen in the end is there a safety property of the states in which nothing is
  under way (`Settled`, `Idle`), or a bound in the time the part counts.

### Environment

Assumed of the server: notifications come only on a bound connection, replies
only to requests sent; a recovery is answered only where one was asked; each
session begins with `PROG` at the position of the connection; messages are
deduplicated by number (`REQERR` 32 and 33); requests of one connection are
handled in order. An update is sent only after `SUBOK` and before `UNSUB`.

Of the page: one thread; a task that is due runs some turn later, at least as
late as its time; elements leave and come at any moment between two tasks; a
user agent has the words of its own browser.

## 4. The proofs

Seven modules hold theorems, and `PositionsProofs` the lemmas two of them share. Each is proved for every value of the constants of
its component that its assumptions admit; the runs check the same properties on
the small instances of section 3.

| theorem | says |
|---|---|
| `RecoveryProofs!DeliveredExactlyOnce` | `ExactlyOnce`: the listeners saw 1, 2, ..., `clientProg` |
| `RecoveryProofs!AssertionsHold`, `CountersMeet` | `ServerProgBehind`, `CounterAgrees`: what the assertions of `onFreshData`, `onStaleData` and `doPROG` test |
| `RecoveryProofs!Refinement` | `DeliverySpec`: every step of the data plane is a step of `Delivery` or a stutter |
| `ClientMachineProofs!NothingIsLeftBehind` | `LeavesNothingBehind`: regions, timers and connections are those of the state |
| `ClientMachineProofs!TransportSettles` | `SettledTransportIsBest` |
| `ClientMachineProofs!RequestsAreSent` | `PendingIsSent` |
| `ClientMachineProofs!LimitConverges` | `BandwidthConverges` |
| `ClientMachineProofs!StatusesFollow` | `StatusTransitions`, an action property |
| `SubscriptionsProofs!SubscriptionCorrect` | `SubscriptionAgrees`: the object, its manager and its listener agree |
| `SubscriptionsProofs!NothingForgotten` | `NothingIsForgotten`: no manager waits for nothing, the server keeps nothing that the client forgot |
| `SubscriptionsProofs!FrequencyCorrect` | `FrequencyAgrees` |
| `MessagesProofs!MessagesArrive` | `ArriveInOrder`: once, in order, none lost, none waiting for a channel that is free |
| `MessagesProofs!ListenersAreToldTheTruth` | `OutcomeIsTrue` |
| `TwoLevelProofs!RowsAreThoseOfTheServer` | `TableAgrees` |
| `TwoLevelProofs!KeysFollowTheCommands` | `KeysAreFollowed` |
| `TwoLevelProofs!FrequenciesAreRight` | `FrequenciesFit` |
| `TwoLevelProofs!CommandsFitTogether` | `CommandsFit`, an action property |
| `MpnProofs!NothingIsForgotten` | `NothingForgotten`: nothing rests with something to do, and what is pending is on its way |
| `MpnProofs!RequestsAreEncoded` | `RequestsCanBeEncoded`: none lacks the identifier of the device, if no device is lost |
| `MpnProofs!DeviceIsAgreed` | `DeviceAgrees`: an active device that registers nothing has the token and the identifier that the server has for it |
| `PartsProofs!LoopsVisitAll` | `LoopsAreComplete`, but for two shapes of classes of which it is not so |
| `PartsProofs!AttemptsWait` | `AttemptsArePaced`: attempts to create a session follow each other by the delay of the retry counter |
| `PartsProofs!CallbacksOnce` | `CallbacksRunOnce`: listeners, tasks, handlers of the page and users of an object, each in order and once, but for what `Avoided` names |
| `TypeCorrect` of `RecoveryProofs` and `SubscriptionsProofs` | `TypeOK` |

None of these properties is inductive as it stands. Each module defines the
invariant that is, proves that it holds at first and is kept by every action,
and draws the theorems from it.

### Recovery

From `BoundsAssumption` and `OptionAssumption`. A step that reads a line must
know that the line is the next one whenever `serverProg = clientProg`. The
invariant `IInv` adds what connects the counters with the wire: `WireOK`
(positions on the connection are ordered, and which phases have one),
`OffIsClean` (nothing is counted without a session), `ServerProgBehind`
(`serverProg <= clientProg`) and `CounterAgrees` (once `PROG` is read,
`serverProg` is the number of the last line read on the connection). `doPROG`
establishes the last one, by moving the counter or by giving the session up;
`onStaleData` advances one counter until it meets the other. The refinement uses
`IInv` to see that the line delivered is the next of the log, and maps every
other step to a stutter.

### ClientMachine

From `OptionsAssumption`, for any sets of transports, bandwidths and heartbeats
and any number of recovery attempts, and for the clients with
`~(SessionRecovery /\ Reachability)`: recovery is off, or the platform does not
report whether the server can be reached. This hypothesis is not one of
convenience. With both, the code breaks the invariant (`stale_recovery` in section
6); of the platforms in the repository only the web page reports reachability
(`ReachabilityManager.hx`), so what is left are all the other platforms, and web
pages with `sessionRecoveryTimeout` at 0. `Environment.cfg` and `Transports.cfg`
are one client of each kind.

A handler calls some ten methods one after the other, and between them the
client is in states where no invariant of the runs holds. So the invariant is
written over records, `Inv(k)`, not over the variable, and it is made of parts
that the records between two methods have or have not:

* `IsRecord`: the fields and their types;
* `Base`: which states the regions may have (`InRegions`), the timer (`Timers`)
  and the connection (`Conns`) of each, which regions go together (`Parts`), what
  recovery may still do (`Attempts`), the status (`Status`);
* `Channel`: the heartbeats and the control channel (`Hearts`, `Control`);
* `Quiet`: no region is in one of the states that only exist while a handler runs;
* `SwitchSent`, `LimitSent`, `IdleIsDone`: what `PendingIsSent` says;
* `Switched`, `Limited`: what `SettledTransportIsBest` and `BandwidthConverges` say.

For each method of `ClientState` there is a lemma about what it does to such a
record (`Scheduled`, `SendKeeps`, `RecheckKeeps`, `TearDownOut`, `LeaveOut`, ...),
and for the stages of a session's life there are predicates that a handler
passes through: `Leavable` and `Lasting` (it may be torn down), `Out` and
`Between` (it was), `Requested` (the next one is asked for), `Lost` (it waits for
its recovery). `Near(j, k)` says that `j` is `k` but for a timer that went off or a
connection that was disposed, and `Same(j, k, F)` that they differ in the fields
of `F` only; `SteadyStep` needs no more than that of the handlers that do not
change what the control channel looks at. Each action then has a lemma that
ends in `Step(c', c)`: the invariant, and what a `ClientListener` may see of the step
(`Moves`), from which `StatusTransitions` follows.

### Subscriptions

From `SubscriptionBounds` and `FrequencyAssumption`, for any number of subIds, losses
and notifications on their way, and any refused frequencies. What the invariants
of the run need is known of one subId at a time (`Agrees`): which requests,
replies and notifications about it are on their way and what they may say, given
its manager and the server. `Followed` is why nothing is an orphan: what the
server has is followed by a manager, or its `SUBOK` is coming. `AddAgrees`,
`DeleteAgrees` and `ReconfAgrees` bound what is under way (an answer to a deletion
means that no request to add is left; at most one reconfiguration is there, and
what it asks for is what the manager waits for). `Fresh` says that nothing is known
anywhere of a subId that is not given yet. A handler concerns one subId, and
`OthersAgree` shows at once that the others keep what they have; lost channels and
the end of a session, which concern all, have lemmas of their own.

### Messages

From `MessageBounds` and `KindAssumption`, for any number of messages of any
kinds and any number of losses. Order is kept by numbers: the server takes a message
when its number passes the last one of its sequence. So of the messages that are
current (kept by the client, carried by something, or at the server) those that
arrived must be those whose number was passed (`NumbersAgree`), and no connection,
neither the current one nor one that the client has left, may carry a message and
not an earlier one that has not arrived (`NoGaps`). Without `NoGaps` for what is late,
a message could overtake one that is sent again. `RepliesAgree` and `StreamAgrees`
tie an answer to what the server made of its message.

### TwoLevel

From `TwoLevelAssumption`, for any keys, values and frequencies and any number of
calls waiting for the user's thread. The properties speak of the states in which
every call has run. In between, what a key knows of its subscription of the second
level is what the last call on its way will tell it (`Follows`), and that call
reaches the key because no other key has that subscription, now or while a call for
it is left (`Owned`, `Distinct`, `CallsLeft`). Two lemmas are about sizes: a finite set of
numbers has a greatest one (a smallest subset without one would have one when a
member is taken away), so `MaxFreq` is what its name says; and there is always a
subscription that no key and no call uses (`FreshSubExists`), because fewer are taken
than there are.

### Mpn

From `MpnAssumption`, for any devices, numbers of push subscriptions and events, and
any finite set of push subscriptions of the past. `NothingIsForgotten` needs nothing else.
`DeviceIsAgreed` has the hypothesis `"stale_registration" \in Avoided`: no special item
fails while a token is refreshed, no `MPNREG` is repeated after a recovery, and a
server asked again for the token that it registered in the session accepts it without
another `MPNREG`. Without it tokens do part (section 6). `RequestsAreEncoded` has the hypothesis `"device_lost" \in Avoided`: `evtMpnError`, and
a refused token with no other to try, do not come while a manager depends on the
device, because the code is known to fail then (section 6); the run checks the same.

The invariant (`Inv`) is about the record of the client, so that it can be said of
the states in the middle of a handler as well. `ManagerOK` says when the control
region of a manager may rest, and `ManagerSent` that what it waits for is in the air
(`InAir`: sent and not replaced, or answered by a reply that is not read yet); `AirOK`
that a request of a manager in the air has its manager. `RegisterOK`, `FilterOK`,
`BadgeOK` and `ItemOK` say the same of the regions of the device. `Agrees` ties them to
the session: an active device only in one and, where no device is lost, only dormant
managers (`Dormant`: they wait for the device or for the special item) without an
active one. This is why no request lacks the identifier.

There are three layers of steps. `Handled` is a step of one manager, which leaves the
others and the device as they are and takes nothing from the air that is not its
own; `DeviceStep` and `Moves` are steps of the device, which managers notice only
when it becomes active; `Works`, `Progress` and `Proceeds` are those of the client. A loop
over the managers is a function from the number of managers told to the state
reached. That such a function exists (`LoopExists`), and that each of its values
leaves the managers told as they should be and the others as they were (`LoopTold`),
is shown by the least number for which it would not be so, since the provers have no
induction. `PendingControlsAre` says which requests `getPendingControls` collects, so
`ChannelIs` that after `evtSendPendingControls` all of them are in the air.

`DeviceAgrees` needs `DeviceInv`, which adds to `Inv` what is on its way about the
device (`Concord`). A registration on its way is the last one, of the token of the
device, or repeats what the server registered in this session; once its answer has
come it is no more the last (`Requested`). So a `MPNREG` on its way is the only one,
is awaited, and is of the token that is being registered (`Announced`): this is what
`evtMPNREG` takes for granted, since `MPNREG` carries no token. And an active device
has what the server has unless it is registering the next token (`Known`). All but the
handlers of the registration leave this as it is (`Aside`, `Untouched`): they send
requests of other kinds, and finalize managers whose requests are not registrations.

### Collections and classes

`PartsProofs` proves `LoopsAreComplete` of `SeparateParts`: of the collections, for any
keys and any length of the array; of the classes, from `ClassesAreFinite`, for those
without the two shapes that `InheritAvoided` names, for which it is not so
(section 6). The elements a loop has still to visit are those of the array at the
positions that are valid and not yet passed. `Positions` says what a sequence has
at a set of positions (`Pick`) by the number of positions up to one (`PlaceIn`)
and not by recursion, so what is picked can be reasoned about by counting: places
grow with positions and each place is taken (`PlaceIn` is an injection into as many
numbers), a greater position comes last (`PickMore`), the others move up when the
first is gone (`PickRest`), and picking among what was picked is picking at once
(`PickAgain`). The invariant of a collection (`CollectionOK`) counts the removed
elements and says that those that are left are of different keys, which is why a
removal strikes one visit and no other. For the methods, the invariant (`CopiedSoFar`)
says what the other name has when one of two names was copied.

### Delays

`PartsProofs` proves `AttemptsArePaced` from `DelaysAssumption` (`Millis.fromIntGt0`:
a configured delay is not zero), for any delays configured and any longest delay. The
invariant of the counter (`CounterOK`) is that its delay is what the retries made since
then ask for (`DelayAfter`); that of the timer (`DelayIsSet`), that one which is set ends that
long after the attempt. A pause is computed from the time that has passed
(`waitingInterval`), so a timer set late ends no later; a pause at random (s113) follows
a session and not an attempt. The delay doubles, so `DelayAfter` needs powers of two
(`TwoTo`, a function over `0..LongestDelay`: `LoopExists` says that there is one); from
`TwoTo[n] >= n` it has reached the longest delay by the last retry counted.

### Executors, events and the life of the page

`PartsProofs` proves `CallbacksRunOnce` of `SeparateParts`, for any number of
listeners, users, handlers, tasks and calls, from `EventsAssumption` (times are
numbers, events are told at once or not), `SimpleTasksAssumption` (finitely many
tasks, times are numbers) and `CallbacksHypotheses`: what `removal_while_dispatched`,
`adding_before_unload`, `removing_while_told`, `post_fails` and `stops_again` name does
not happen, for with them it is not so (section 6). Each of the four parts has an
invariant of its own.

* `EventsOK`. Of the executor: the tasks of the queue have different identifiers below
  `nextId`; the queue is sorted while nothing new is in it; and in a turn, which does
  not sort again what its own tasks add, each task that is due still comes before
  those after it in the queue. Of the listeners: a registration is an object of its
  own, at most one of a handler is in the list, and what each is owed is what the
  queue has for it, position by position (`Undelivered`). A removal strikes the events
  of one registration wherever they are, so both sides are picked from the same
  positions (`PickAgain`), and a sort changes the positions of tasks but not the order
  of those for one listener (`PickAlong`). Of the users of an object: `inUse` counts
  them, and the check that cleans it is in the queue with the phase of the last
  touch. Of repetitive tasks: each is in one place at most, and a live one in one.
* `PageOK`. A handler is owed as many runs as it has places among those of the list
  that are still to be told and among those that run on their own. An event that was
  told has an empty list.
* `TicksOK`. Where the executor has another tick than the interval, one that is
  pending is on its way, and urgent tasks that wait have one pending. If no other
  messages of the page come, the one that is pending is the only one on its way.
* `SimpleOK`. What is left of the timer of a task and the delay it was given meanwhile
  cover the time until it is due, so none is early; and the length of the queue is the
  number of tasks on their way and of the delays served.

### What is only model-checked

* Liveness (`EventuallyDelivered`, `EveryWaitEnds`, and the properties of
  `SubscriptionsLive.cfg` and `Messages.cfg`): the provers do not reach temporal
  reasoning under fairness, nor `ENABLED`.
* `PushSubscriptionsAgree` of `Mpn` (but for the device, which is proved), which says what client and server have in common
  when nothing is under way: its invariant must say what each of three streams may
  still tell of each push subscription, whichever overtakes the others.
* `Grid` (`RowsAgree`, `ShowsThePage`, `CallsCarriedOut`): rows move by folds over the
  order of arrival. What a fold computes for every input is an induction over data,
  for which the library's theorems take an operator as a parameter.
* The other parts of `SeparateParts` (`ChartAsConfigured`, `CellsAreRight`,
  `ReportsAgree`): small parts of the web library with few values, where what matters
  is bounded by nature (one page, four forms of a cell, two axes). Lines of loggers are filtered by
  `SelectSeq`, of which the provers know nothing; they could be stated by `Pick`.

## 5. How much of the code

The map of `PROJECT.json` names the lines each definition models. Nearly all of
`src-widget`, `src-tool` and `src-log` that keeps state or decides anything is
mapped (about 7,200 lines of JavaScript), and so are about 7,000 lines of the
Haxe core and of mobile push. What is left of the JavaScript sources is mostly
`src/src/wrapper/js`, which passes calls on, and comments of the API.

## 6. What the code does otherwise than it says

### In the core

Shown by a run:

* **A stale recovery** (`stale_recovery`, `NoFailedAssertion`).
  `goto_m_from_rec` (`ClientStates.hx:280`) leaves `s_rec`. When a session ends
  while it waits for another recovery attempt, `s1003` remains, and in a later
  session `evtOnlineAgain` (CM:383) calls `sendRecovery`, which finds no session
  and throws. Web builds only.

Met while modelling and followed by the models:

* `swt_lastReqId` outlives a rebind: a late answer to an old `force_rebind` is
  taken as the answer to a new one that was never sent (CM:1939).
* A message sent again may be refused as a duplicate (`REQERR` 32 or 33) before
  it is processed; its manager goes and its listener is never invoked
  (`MessageManager.hx:152`, `:229`), though it is documented to be.
* `aggregateRealMaxFrequency` outlives the session, so in the next one a
  frequency not above it is not reported (`ModeStrategy.hx:182`).
* `fireOnAbort` (`MessageManager.hx:305`) always says `sentOnNetwork = false`, also
  of an acknowledged message.
* The aggregate frequency is not lowered when the server lowers one frequency
  (`ModeStrategyCommand2Level.hx:134`): it waits for a key to go.
  `FrequenciesFit` says the half that holds.
* Rebinding HTTP streaming to HTTP streaming keeps the region of heartbeats
  without its timer; a request sent meanwhile arms it and the bind arms it again
  (CM:3310). `TimersMatchState` excepts this timer.
* A new client address enables the transports again but does not check the
  transport (CM:2392): the session moves at the next occasion.
* A failure while WebSocket polling is set up binds over HTTP without recovery
  (CM:861).
* A full HTTP batch has already encoded the request that does not fit, which
  gives it a number that is not sent until the next batch (CM:4768).
* `CONERR` 5 makes the client create the session again over a TTL request at once,
  also when the request answered was that one (CM:1551, 1578, 1605): such a loop
  is not paced. `PausesGrow` is about the other retries. A `retryDelay` set while
  the client retries counts from the next connect or `CONOK`.

### In mobile push (`Avoided` of `Mpn.cfg`)

* `stale_registration`: a `MPNREG` that repeats an earlier one, skipped by the
  data plane, is still given to the region (`MpnClientMachine.hx:323-346`, 391).
  It is taken as the answer to the token refresh, or to the registration of the
  next device, that is under way. So is the `MPNREG` of a request that was left
  behind: a special item that fails while the token is refreshed
  (`MpnClientMachine.hx:305-321`) gives the device up and leaves its request out,
  and the client then takes the token and the device of the answer to that request
  for those of the next device.
* `late_id`: a subscription of the snapshot that becomes known by `MPNOK` is never
  removed from `mpn_snapshotSet`, so `onSubscriptionsUpdated` is not called for
  the snapshot (`MpnClientMachine.hx:524`).
* `device_lost`: after `evtMpnError`, or a failed refresh with no other device to
  register, `mpn_deviceId` is cleared while managers stay in `s42` or `s44`; every
  later request of theirs throws when it is encoded.
* `unlisted`: `evtMPNDEL` acts only in `s72`. A push subscription activated in the
  session and deactivated before the special item lists it stays for the rest of
  the session.
* A second `resetBadge` while the first is in `s442` is lost
  (`MpnClientMachine.hx:882-888`).

### In the grids (`Avoided` of `Grids.cfg`)

* `calls_while_limited`: `DynaGrid.limitRows` runs in the middle of an update that
  has not yet put its row into the model (824), so a postponed removal of that row
  is dropped, and, called from a listener, its loop (1050) never ends, because the
  removals it waits for are postponed. Left out: calls that listeners make while a
  row is being added to a grid of updates that is full, or after one of them has
  postponed an update of a grid of updates with a limit, which may add such a row.
* `calls_while_paged`: `DynaGrid.updateRowExecution` calls `calculatePages` (836-838)
  after it has cleared `updateInProgress` (824) and before `AbstractWidget.updateRow`
  puts the new row into the model (584-600), so what `onCurrentPagesChanged` (713)
  calls there is neither merged nor postponed, though the comment of `updateRow`
  says that a call made while another is still executing is "merged with the
  current one" or "postponed until the first updateRow execution terminates"
  (`AbstractWidget.js:540-548`). It happens at least for the first row of any
  DynaGrid. Without the name TLC finds each of `RowsAgree`, `ShowsThePage` and
  `CallsCarriedOut` violated in a few steps: an `updateRow` of the new row adds and
  counts it a second time (806, 817) and its values are then overwritten by the
  older ones of the outer call; a `removeRow` of it is dropped, since the row is not
  there. Left out are only the calls, from that listener or from those of the calls
  it makes, that
  - are about the new row itself;
  - run at once while others, made before, are postponed, and so overtake them;
  - add a row to a grid of updates (the new row would arrive after it);
  - place a row of a sorted grid (the new row is compared as if it were null).

  Every other call from there, on a row in the model or on a new one, is made and
  checked, with the pages that change again because of it; so are all the calls
  from `onCurrentPagesChanged` in a removal (postponed) and in `setMaxDynaRows`.
* `sorted_cells`: `StaticGrid.sortTable` (786) reads positions as names of
  properties, so they are strings; a later `makeRoom` adds 1 to one and throws.
* `top_after_sort`: `VisibleParent.insertBefore` does not move `topChild`, so after a
  sort a row added on top is not on top. `top_of_pages`: nor is it when rows have
  moved between pages.
* `goToPage` and `setMaxDynaRows` leave the page number of an empty grid
  (`changePage`, 678-682), whose first rows are then on a page that is not shown.
* `partial_rows`: a value that is "" or null is treated as missing (798), so the
  row is not moved, or is appended unsorted.
* Numeric sort compares `Number` objects, which are never equal: a row is moved
  behind its equals, and a value that is not a number breaks the order.
* `scrollOut` does not take rows out of the map of items, which grows for ever.
* In `setStyle`, `setSort` and `setAutoCleanBehavior` the first argument is stored
  before the second is checked (`half_valid`: `AbstractGrid.js:333-345`,
  `ChartLine.js:309-317`, `AbstractWidget.js:687-690`); the sizes of `setStyle` are
  documented as optional and throw when missing. `Setter.checkBool` is documented
  to admit negative numbers and does not.

### In cells and colours

* `changing_times`: of two updates with different times, the older fader has the
  last word. Identifiers of sliding cells are of an object, so `stopFader` never
  finds the one that runs. A cell with no time to fade and a hot time of two
  cycles or less becomes cold before hot.
* `row_style_over_pending`: `mergeStyleArrays` (101-108) never replaces a pending
  style with the row's; `setRowStyle` shares one object between the cells.
* `row_comes_back`: a row of a StaticGrid removed and added again starts its counter
  again, so tasks of the old one match. `Cell.clean` (530-534) keeps pending styles;
  a stale `launchFader` (85) keeps its identifier.
* `labels_of_cells`: a cell whose `data-row` or `data-item` changes while it is held
  is at two positions. Fields, rows and items seen by a scan that failed remain;
  cells given by hand and gone by the scan are collected and never parsed, and
  the rest of those given is lost when a scan throws half way.
* `html_read_back`: `scrollHere` and `getCellValue` read without `getInner`, so cells
  with markup lose it when rows scroll. `missing_attribute_in_fake`: an attribute
  that is missing comes back as "null" from a cell kept out of sight.
* `bare_cells`: `rgba(0, 0, 0, 0)` is not recognised as transparent
  (`ColorConverter.js:320-325`). `before_body`: a name asked for before the page has a
  body stays white. An unknown name is black.
* `standards_mode`, `siblings_change`, `template_leaves_with_rows`: the scroll of a
  page in standards mode always goes to the top; the offset of `getChild` is kept
  when the page adds siblings of the template; a template read again loses clones.

### In charts

* `incomplete_rows`: a row without a value for a field of the Y axis has no line for
  it, and `deleteChartLine` (502) throws when the row goes, which then stays. Two
  nulls are documented to clear a line (656, 683), but a null in an update stands
  for the last value (396), so 451 is not reached.
* `thick_lines`: blocks of three pixels and more overshoot their place;
  `drawn_out_of_page`: blocks cleared while the chart is out of the page stay.
  `SimpleChartListener` starts a range at a first value below or at zero wrongly.

### In the other tools

* `removal_while_dispatched`: in `EventDispatcher` a listener that removes itself
  while an event is told synchronously makes the next one miss it. `Executor`
  uses the time of the last turn for new packed tasks.
* `post_fails`: if posting a message fails twice, the executor waits for an urgent
  tick for ever, with the interval only. Any message of the own origin ticks (77).
* `stops_again`: `ExecutorSimple` counts a delayed task twice, and one stopped after
  it ran below zero.
* `adding_before_unload`, `removing_while_told`: a handler added while handlers are
  told of the unload runs twice; one removed makes the next be skipped.
* `changes_while_told`, `positions_unknown`: a widget told of a subscription that
  starts between `addListener` and `onListenStart` counts it twice; one removed
  before its end keeps it counted, and the grid never clears itself; in COMMAND
  mode with a schema of fields, an error skips the count.
* `shared_appenders`: an appender in two providers keeps the level of one. The
  exception given to `fatal` and `error` is not logged by `SimpleLogger`.
* `removed_before_body`: a `StatusWidget` removed before the page has a body shows
  the status it kept (451-455). `open_before_body`: one created open before the body
  is closed there, because its details are never simply open.
  `added_to_bar_again`: `stopRefreshing` keeps `changeStatusThread`, so the bar added a
  second time does not move. `image_added_late`: a `StatusImageWidget` added to a
  connected client shows DISCONNECTED until the status changes.
* `borrowed_words`: Firefox 11 is taken for Internet Explorer, Edge for Chrome.
* `colliding_methods`, `third_names`: the test of a collision compares a name with
  itself (`Inheritance.js:131`), so the documented exception is never thrown; of a
  method with three names, the third keeps the old one.
* `same_number`, `deeper_paths`, `settings_change`: two pages that draw the same
  number (1 in 1001) spoil each other's check; a cookie of a deeper path hides the
  one written and survives its removal; a user who refuses cookies later is not
  noticed. A value with ";" is cut. In a desktop shell `isBrowser` is false though
  there is a document (`Environment.js:55-57`).

## 7. What is not modelled

Left out by abstraction: the content of requests and lines, the names of items
and fields, which fields an update reports as changed, lost updates and snapshot
flags in `TwoLevel`, and the getters and setters that only check and store.

Not modelled: the item of the push device and the status TRIGGERED; a scan of a
grid that already shows rows (its cells out of sight are not in the page, so the
code drops them); labels of axes and their formatting; the size and animation of
the box of the status widget; the items of the other modes; everything
without state of its own (parsing, formatting, logging of the client); the
transports of the platforms, which are libraries with I/O; the wrappers, which
pass calls on. Threads and locks have no module: a model of them would restate
their order; what they cost in atomicity is in `Subscriptions` and `TwoLevel`.

## 8. Plan

Done: the data plane, the statechart, subscriptions, messages, two levels, mobile
push, delays, collections and the web library, checked; the first six of these
proved, but for liveness and, of mobile push, what holds of the push subscriptions
when nothing is on its way (`PushSubscriptionsAgree`); also proved are the delays,
the collections and, of the web library, its executors, its events, the life of the
page and the inheritance of classes.

1. Proofs that are left: `Mpn!PushSubscriptionsAgree`, from `Inv` and what the streams may
   still tell; `Table` (only the oldest rows are dropped).
2. An abstract specification of a subscription for its application (inactive,
   active, subscribed) and `Subscriptions` as its refinement; the same for a
   message (asked, taken, told).
3. `ItemModes`: snapshot flags of MERGE, DISTINCT, RAW and one-level COMMAND
   against the protocol.
