------------------------------ MODULE Logging ------------------------------
(* The loggers of the web library. The code keeps a proxy for each category;  *)
(* a proxy keeps the logger of the provider in use, a logger keeps the lowest *)
(* level of the appenders of its provider, an appender keeps its provider to  *)
(* tell it of a new level, and some appenders keep the lines. A line is the   *)
(* number of its message.                                                     *)
EXTENDS Integers, Sequences, FiniteSets, SequencesExt, FiniteSetsExt

CONSTANTS
    Providers, Categories, Appenders,
    Levels,          \* priorities: DEBUG is 1, FATAL is 5
    Filters,         \* a category, or Everything
    AppenderKinds,   \* among "plain", "buffer" and "alert", as many as the appenders
    HistoryDim,      \* lines of a BufferAppender and of an AlertAppender
    MaxLines,
    LoggingAvoided

NoProvider == 0
NoLogger == 0
Everything == 0      \* the filter "*"
DEBUG == 1

VARIABLE logs
LoggingSymmetry == Permutations(Providers) \cup Permutations(Appenders)

Elements(s) == {s[i] : i \in DOMAIN s}
minPriority(g, p) == Min({g.level[a] : a \in Elements(g.appenders[p])})

(* setLoggerLevel: without appenders there is no level, which means DEBUG.    *)
MinLevel(g, p) == IF g.appenders[p] = <<>> THEN DEBUG ELSE minPriority(g, p)
setLoggerLevel(g, p) ==
    [g EXCEPT !.loggers[p] = [c \in Categories |-> IF @[c] = NoLogger THEN NoLogger ELSE MinLevel(g, p)]]
forceLogLevelUpdate(g, p) == IF p = NoProvider THEN g ELSE setLoggerLevel(g, p)

getLogger(g, p, c) ==
    IF p = NoProvider \/ g.loggers[p][c] # NoLogger THEN g ELSE [g EXCEPT !.loggers[p][c] = MinLevel(g, p)]

(* What an appender does with a line.                                         *)
BufferLog(b, line) ==
    [first |-> IF b.last + 1 >= HistoryDim THEN b.first + 1 ELSE b.first, last |-> b.last + 1,
     lines |-> [i \in DOMAIN b.lines \cup {b.last + 1} |-> IF i = b.last + 1 THEN line
                                                          ELSE IF b.last + 1 >= HistoryDim /\ i = b.first THEN NoLogger ELSE b.lines[i]]]
EmptyBuffer == [first |-> 0, last |-> -1, lines |-> <<>>]
getLog(b) == [i \in 1..b.last - b.first + 1 |-> b.lines[b.first + i - 1]]
AlertLog(g, a, line) ==
    LET held == Append(g.out[a], line)
    IN IF Len(held) < HistoryDim THEN [g EXCEPT !.out[a] = held]
       ELSE [g EXCEPT !.out[a] = <<>>, !.alerts = Append(@, [appender |-> a, lines |-> held])]
Log(g, a, line) ==
    CASE g.kind[a] = "buffer" -> [g EXCEPT !.buffer[a] = BufferLog(@, line)]
      [] g.kind[a] = "alert" -> AlertLog(g, a, line)
      [] g.kind[a] = "plain" -> [g EXCEPT !.out[a] = Append(@, line)]

checkCategoryFilter(g, a, c) == g.filter[a] \in {Everything, c}
Accepts(g, a, c, l) == g.level[a] <= l /\ checkCategoryFilter(g, a, c)
dispatchLog(g, p, c, l, line) ==
    FoldLeft(LAMBDA h, a : Log(h, a, line), g, SelectSeq(g.appenders[p], LAMBDA a : Accepts(g, a, c, l)))

(* --- actions -------------------------------------------------------------*)
LoggingInit ==
    \E kind \in {k \in [Appenders -> AppenderKinds] : \A a, b \in Appenders : k[a] = k[b] => a = b} :
      logs = [current |-> NoProvider, proxies |-> {}, wrapped |-> [c \in Categories |-> NoProvider],
              appenders |-> [p \in Providers |-> <<>>], loggers |-> [p \in Providers |-> [c \in Categories |-> NoLogger]],
              level |-> [a \in Appenders |-> Min(Levels)], filter |-> [a \in Appenders |-> Everything],
              owner |-> [a \in Appenders |-> NoProvider], kind |-> kind,
              out |-> [a \in Appenders |-> <<>>], buffer |-> [a \in Appenders |-> EmptyBuffer], alerts |-> <<>>,
              n |-> 0, due |-> [a \in Appenders |-> <<>>], shown |-> [a \in Appenders |-> <<>>]]

(* setLoggerProvider changes the logger of every proxy.                       *)
setLoggerProvider_NewProxiesOnly(p) ==
    LET g == FoldLeft(LAMBDA h, c : getLogger(h, p, c), [logs EXCEPT !.current = p], SetToSeq(logs.proxies))
    IN p # logs.current /\ logs' = g
setLoggerProvider(p) ==
    LET g == FoldLeft(LAMBDA h, c : getLogger(h, p, c), [logs EXCEPT !.current = p], SetToSeq(logs.proxies))
    IN p # logs.current /\ logs' = [g EXCEPT !.wrapped = [c \in Categories |-> IF c \in g.proxies THEN p ELSE @[c]]]
getLoggerProxy(c) ==
    /\ c \notin logs.proxies
    /\ logs' = [getLogger(logs, logs.current, c) EXCEPT !.proxies = @ \cup {c}, !.wrapped[c] = logs.current]

addLoggerAppender(p, a) ==
    LET g == [logs EXCEPT !.appenders[p] = Append(@, a), !.owner[a] = p]
    IN /\ a \notin Elements(logs.appenders[p])
       /\ "shared_appenders" \in LoggingAvoided => \A q \in Providers : a \notin Elements(logs.appenders[q])
       /\ logs' = setLoggerLevel(g, p)
removeLoggerAppender(p, a) ==
    /\ a \in Elements(logs.appenders[p])
    /\ logs' = setLoggerLevel([logs EXCEPT !.appenders[p] = Remove(@, a)], p)
setLevel(a, l) ==
    l # logs.level[a] /\ logs' = forceLogLevelUpdate([logs EXCEPT !.level[a] = l], logs.owner[a])
setCategoryFilter(a, f) == f # logs.filter[a] /\ logs' = [logs EXCEPT !.filter[a] = f]

(* A message goes through the proxy of its category, if the logger that the   *)
(* proxy keeps is enabled for its level. Due: the lines each appender should  *)
(* get, by the provider in use and the appender's own settings.               *)
Send(c, l) ==
    LET line == logs.n + 1
        p == logs.wrapped[c]
        wanted(a) == logs.current # NoProvider /\ a \in Elements(logs.appenders[logs.current]) /\ Accepts(logs, a, c, l)
        g == [logs EXCEPT !.n = line, !.due = [a \in Appenders |-> IF wanted(a) THEN Append(@[a], line) ELSE @[a]]]
    IN /\ line <= MaxLines /\ c \in logs.proxies
       /\ logs' = IF p # NoProvider /\ logs.loggers[p][c] <= l THEN dispatchLog(g, p, c, l, line) ELSE g

showAlert ==
    /\ logs.alerts # <<>>
    /\ logs' = [logs EXCEPT !.alerts = Tail(@), !.shown[Head(logs.alerts).appender] = @ \o Head(logs.alerts).lines]
extractLog(a) ==
    /\ logs.kind[a] = "buffer"
    /\ logs' = [logs EXCEPT !.buffer[a] = EmptyBuffer, !.due[a] = <<>>]

LoggingNext ==
    \/ \E p \in Providers \cup {NoProvider} : setLoggerProvider(p)
    \/ \E c \in Categories : getLoggerProxy(c) \/ \E l \in Levels : Send(c, l)
    \/ \E p \in Providers, a \in Appenders : addLoggerAppender(p, a) \/ removeLoggerAppender(p, a)
    \/ \E a \in Appenders : \/ \E l \in Levels : setLevel(a, l)
                            \/ \E f \in Filters : setCategoryFilter(a, f)
                            \/ extractLog(a)
    \/ showAlert
LoggingSpec == LoggingInit /\ [][LoggingNext]_logs
-----------------------------------------------------------------------------
(* Every message reaches the appenders of the provider in use that want it,   *)
(* and no others, whenever provider, appenders, levels and filters change:    *)
(* no proxy, logger or appender goes by what it was told before. A buffer has *)
(* the last HistoryDim of them, an alert appender shows all but the last few. *)
Waiting(a) == FoldLeft(LAMBDA s, x : IF x.appender = a THEN s \o x.lines ELSE s, <<>>, logs.alerts)
LastOf(s, n) == SubSeq(s, Max({1, Len(s) - n + 1}), Len(s))
AppendersGetTheirLines ==
    \A a \in Appenders :
      CASE logs.kind[a] = "plain" -> logs.out[a] = logs.due[a]
        [] logs.kind[a] = "buffer" -> getLog(logs.buffer[a]) = LastOf(logs.due[a], HistoryDim)
        [] logs.kind[a] = "alert" -> logs.shown[a] \o Waiting(a) \o logs.out[a] = logs.due[a]
=============================================================================
