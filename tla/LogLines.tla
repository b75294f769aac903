------------------------------ MODULE LogLines -------------------------------
(* What becomes of one message of the web library: the LoggerProxy joins its  *)
(* arguments and asks the logger it wraps, if any, and the appender shows the *)
(* line in an element of the page (DOMAppender), by a method of the console   *)
(* (ConsoleAppender) or keeps it. Which appender gets it is in Logging.       *)
EXTENDS Integers, Sequences, FiniteSets, SequencesExt

CONSTANTS
    LineKinds,        \* of "page" and "console"
    MaxMessages

VARIABLE lines        \* [wrapped, kind, console, onTop, inner, nodes, printed, sent]

(* --- LoggerProxy -----------------------------------------------------------*)
(* The logger a proxy wraps: a placeholder, one that answers which levels it  *)
(* has, or one of the application without that method.                        *)
Wrapped == {"placeholder", "errors", "unasked"}
LineLevels == {"DEBUG", "WARN", "FATAL"}
isLogEnabled(w, l) == w = "unasked" \/ (w = "errors" /\ l = "FATAL")

(* logArguments: each one leaves its mark, those of an array in parentheses,  *)
(* and one that cannot be read ??? without hiding the others. An error is its *)
(* message, and a value whose length is negative a star.                      *)
Array(s) == [of |-> "array", in |-> s]
Value(of) == [of |-> of, in |-> <<>>]
Mark(a) == IF a.of = "null" THEN "NULL" ELSE IF a.of \in {"undefined", "unreadable"} THEN "???"
           ELSE IF a.of = "negative_length" THEN "*" ELSE IF a.of = "error" THEN "message" ELSE a.of
logArguments(args) ==
    LET marks(s) == [i \in DOMAIN s |-> <<Mark(s[i])>>]
        one(a) == IF a.of = "array" THEN <<"(">> \o FlattenSeq(marks(a.in)) \o <<")">> ELSE <<Mark(a)>>
    IN FlattenSeq([i \in DOMAIN args |-> one(args[i])])
Joined(m) == [level |-> m.level, marks |-> logArguments(m.args), n |-> m.n, tags |-> m.tags]

(* --- the appenders ---------------------------------------------------------*)
(* A line in the page: tags are interpreted, or shown as they are written.    *)
Node(line, inner) == [n |-> line.n, marks |-> line.marks, tags |-> line.tags /\ inner]
Break == [n |-> 0, marks |-> <<>>, tags |-> FALSE]
PageLog(p, line) ==
    LET node == Node(line, p.inner)
    IN [p EXCEPT !.nodes = IF p.onTop THEN <<node, Break>> \o @ ELSE @ \o <<node, Break>>]

(* The method of the level, console.error for a WARN without its own, and the *)
(* one that there always is.                                                  *)
Tried(level) == IF level = "DEBUG" THEN <<"debug">> ELSE IF level = "WARN" THEN <<"warn", "error">> ELSE <<"error">>
Method(p, level) ==
    LET found == SelectInSeq(Tried(level), LAMBDA m : m \in p.console)
    IN IF found = 0 THEN "log" ELSE Tried(level)[found]
ConsoleLog(p, line) ==
    [p EXCEPT !.printed = Append(@, [n |-> line.n, marks |-> line.marks, by |-> Method(p, line.level)])]
AppenderLog(p, line) == IF p.kind = "page" THEN PageLog(p, line) ELSE ConsoleLog(p, line)

(* --- actions ---------------------------------------------------------------*)
LinesInit ==
    \E kind \in LineKinds, console \in SUBSET {"debug", "warn", "error"} :
        /\ kind = "page" => console = {}
        /\ lines = [wrapped |-> "placeholder", kind |-> kind, console |-> console, onTop |-> FALSE, inner |-> FALSE,
                    nodes |-> <<>>, printed |-> <<>>, sent |-> <<>>]
setWrappedInstance(w) == lines' = [lines EXCEPT !.wrapped = w]
setNextOnTop(b) == lines.kind = "page" /\ lines' = [lines EXCEPT !.onTop = b]
setUseInnerHtml(b) == lines.kind = "page" /\ lines' = [lines EXCEPT !.inner = b]

(* Sent: the messages the application gave while they were enabled, and how   *)
(* the appender was to show them.                                             *)
Message(level, args, tags) ==
    LET m == [n |-> Len(lines.sent) + 1, level |-> level, args |-> args, tags |-> tags]
        p == [lines EXCEPT !.sent = Append(@, [m EXCEPT !.tags = tags /\ lines.inner] @@ [onTop |-> lines.onTop])]
    IN /\ Len(lines.sent) < MaxMessages
       /\ isLogEnabled(lines.wrapped, level)
       /\ lines' = AppenderLog(p, Joined(m))

Arguments ==
    {<<>>, <<Value("text"), Value("undefined"), Value("null")>>, <<Array(<<Value("unreadable"), Value("text")>>), Value("error")>>}
LinesNext ==
    \/ \E w \in Wrapped : setWrappedInstance(w)
    \/ \E b \in BOOLEAN : setNextOnTop(b) \/ setUseInnerHtml(b)
    \/ \E l \in LineLevels, args \in Arguments, tags \in BOOLEAN : Message(l, args, tags)
-----------------------------------------------------------------------------
(* Every message that was enabled is shown once, with a mark for each of its  *)
(* arguments: in the page above all that was there when it was to be on top   *)
(* and below it otherwise, its tags interpreted if they were to be and a line *)
(* of its own; in the console by the method of its level, if it has one, and  *)
(* never by one of a lower level.                                             *)
Rank(m) == IF m = "debug" THEN 1 ELSE IF m = "warn" THEN 2 ELSE 3
LinesAreShown ==
    LET shown == IF lines.kind = "page" THEN SelectSeq(lines.nodes, LAMBDA x : x # Break) ELSE lines.printed
        at(n) == SelectInSeq(shown, LAMBDA x : x.n = n)
        size(a) == IF a.of = "array" THEN Len(a.in) + 2 ELSE 1
        below(i, j) == IF lines.kind = "page" /\ lines.sent[j].onTop THEN at(j) < at(i) ELSE at(i) < at(j)
    IN /\ Len(shown) = Len(lines.sent)
       /\ \A j \in DOMAIN lines.sent : at(j) # 0 /\ \A i \in 1..j - 1 : below(i, j)
       /\ \A j \in DOMAIN lines.sent :
             LET m == lines.sent[j]
                 x == shown[at(j)]
             IN /\ Len(x.marks) = FoldLeft(LAMBDA s, a : s + size(a), 0, m.args)
                /\ lines.kind = "page" => x.tags = m.tags
                /\ lines.kind = "console" /\ x.by # "log" => Rank(x.by) >= Rank(Tried(m.level)[1])
                /\ lines.kind = "console" /\ Tried(m.level)[1] \in lines.console => x.by = Tried(m.level)[1]
       /\ lines.kind = "page" => \A i \in DOMAIN lines.nodes : (lines.nodes[i] = Break) <=> i % 2 = 0
=============================================================================
