------------------------------- MODULE Settings -------------------------------
(* The settings of the grids and charts of the web library, checked by Setter *)
(* when they are given, told when they are asked for, and the values a grid   *)
(* is sorted by under them.                                                   *)
EXTENDS Integers, Sequences, SequencesExt

CONSTANTS
    SettingsAvoided    \* "half_valid": calls one of whose arguments but the first is not valid

VARIABLE settings      \* [now, before, threw]: what is set, and was before a call that threw

(* --- Setter ----------------------------------------------------------------*)
(* Numbers in halves; a boolean may be missing, or be something else.         *)
NaN == -1000
NumberOf == [minus |-> -2, zero |-> 0, half |-> 1, two |-> 4, word |-> NaN, missing |-> NaN]
NumberArgs == DOMAIN NumberOf
BoolArgs == {"true", "false", "missing", "word"}
checkPositiveNumber(v, canBeZero) ==
    /\ NumberOf[v] # NaN /\ NumberOf[v] % 2 = 0
    /\ IF canBeZero THEN NumberOf[v] >= 0 ELSE NumberOf[v] > 0
checkBool(v, notStrictFalse) == v \in {"true", "false"} \/ (notStrictFalse /\ v = "missing")

(* --- the values a grid is sorted by ----------------------------------------*)
NoText == "null"
(* Texts that are numbers, and the parts of them: tenths after a separator.   *)
TextOf ==
    [n3 |-> [whole |-> -3, sep |-> "", tenth |-> 0], n9 |-> [whole |-> 9, sep |-> "", tenth |-> 0],
     n10 |-> [whole |-> 10, sep |-> "", tenth |-> 0], n1comma5 |-> [whole |-> 1, sep |-> ",", tenth |-> 5],
     n1dot5 |-> [whole |-> 1, sep |-> ".", tenth |-> 5]]
ByCharacters == <<"n3", "n1comma5", "n1dot5", "n10", "n9", "B", "C">>      \* in the order of their characters
Upper(t) == IF t = "b" THEN "B" ELSE IF t = "c" THEN "C" ELSE t
(* In tenths. A separator that is not that of the decimals is left out.       *)
getNumber(t, commaAsDecimalSeparator) ==
    IF t = NoText THEN 0
    ELSE LET p == TextOf[t]
         IN IF p.sep = (IF commaAsDecimalSeparator THEN "," ELSE ".") THEN 10 * p.whole + p.tenth
            ELSE IF p.sep = "" THEN 10 * p.whole ELSE 10 * (10 * p.whole + p.tenth)
makeSortValue(c, t) ==
    IF c.numericSort THEN getNumber(t, c.commaAsDecimalSeparator)
    ELSE IF t = NoText THEN 0 ELSE SelectInSeq(ByCharacters, LAMBDA w : w = Upper(t))
isBefore(c, a, b) == IF c.descendingSort THEN a > b ELSE a < b

(* --- what is told ----------------------------------------------------------*)
isDescendingSort(c) == IF c.sortField = NoText THEN NoText ELSE c.descendingSort
isNumericSort(c) == IF c.sortField = NoText THEN NoText ELSE c.numericSort
isCommaAsDecimalSeparator(c) == IF c.sortField = NoText \/ ~c.numericSort THEN NoText ELSE c.commaAsDecimalSeparator

(* --- actions ---------------------------------------------------------------*)
Defaults ==
    [sortField |-> NoText, descendingSort |-> FALSE, numericSort |-> FALSE, commaAsDecimalSeparator |-> FALSE,
     sortedBy |-> <<FALSE, FALSE, FALSE>>, tagsToCheck |-> "default", useInner |-> FALSE, maxRow |-> 0,
     point |-> "black", pointSize |-> 2, cleanFirst |-> FALSE, cleanLast |-> FALSE]
SettingsInit == settings = [now |-> Defaults, before |-> Defaults, threw |-> FALSE]
Accept(c) == settings' = [now |-> c, before |-> c, threw |-> FALSE]
ThrowAfter(c) == settings' = [now |-> c, before |-> settings.now, threw |-> TRUE]
MayBeHalf(valid) == "half_valid" \in SettingsAvoided => valid

(* Each argument is checked when the ones before it are set; the rows are     *)
(* sorted in the end.                                                         *)
setSort(field, descending, numeric, comma) ==
    LET c0 == settings.now
        c1 == [c0 EXCEPT !.sortField = field]
        c2 == [c1 EXCEPT !.descendingSort = descending = "true"]
        c3 == [c2 EXCEPT !.numericSort = numeric = "true"]
        c4 == [c3 EXCEPT !.commaAsDecimalSeparator = comma = "true"]
    IN IF field = NoText THEN Accept(c1)
       ELSE /\ MayBeHalf(checkBool(descending, TRUE) /\ checkBool(numeric, TRUE) /\ checkBool(comma, TRUE))
            /\ IF ~checkBool(descending, TRUE) THEN ThrowAfter(c1)
               ELSE IF ~checkBool(numeric, TRUE) THEN ThrowAfter(c2)
               ELSE IF ~checkBool(comma, TRUE) THEN ThrowAfter(c3)
               ELSE Accept([c4 EXCEPT !.sortedBy = <<c4.descendingSort, c4.numericSort, c4.commaAsDecimalSeparator>>])
setNodeTypes(types) ==
    IF types = "empty" THEN ThrowAfter(settings.now) ELSE Accept([settings.now EXCEPT !.tagsToCheck = types])
setHtmlInterpretationEnabled(enable) ==
    IF checkBool(enable, FALSE) THEN Accept([settings.now EXCEPT !.useInner = enable = "true"]) ELSE ThrowAfter(settings.now)
setMaxDynaRows(n) ==
    IF n \in {"missing", "zero", "unlimited"} THEN Accept([settings.now EXCEPT !.maxRow = 0])
    ELSE IF checkPositiveNumber(n, TRUE) THEN Accept([settings.now EXCEPT !.maxRow = NumberOf[n]]) ELSE ThrowAfter(settings.now)
(* setStyle of a ChartLine, of which the line is alike.                       *)
setStyle(colour, size) ==
    LET coloured == [settings.now EXCEPT !.point = colour]
    IN /\ MayBeHalf(checkPositiveNumber(size, FALSE))
       /\ IF checkPositiveNumber(size, FALSE) THEN Accept([coloured EXCEPT !.pointSize = NumberOf[size]]) ELSE ThrowAfter(coloured)
setAutoCleanBehavior(first, last) ==
    LET c1 == [settings.now EXCEPT !.cleanFirst = first = "true"]
    IN IF ~checkBool(first, FALSE) THEN ThrowAfter(settings.now)
       ELSE /\ MayBeHalf(checkBool(last, FALSE))
            /\ IF checkBool(last, FALSE) THEN Accept([c1 EXCEPT !.cleanLast = last = "true"]) ELSE ThrowAfter(c1)

SettingsNext ==
    \/ \E field \in {NoText, "price"}, d, n, m \in BoolArgs : setSort(field, d, n, m)
    \/ \E types \in {"empty", "div"} : setNodeTypes(types)
    \/ \E b \in BoolArgs : setHtmlInterpretationEnabled(b) \/ \E l \in BoolArgs : setAutoCleanBehavior(b, l)
    \/ \E n \in NumberArgs \cup {"unlimited"} : setMaxDynaRows(n)
    \/ \E n \in NumberArgs, colour \in {"black", "red"} : setStyle(colour, n)
-----------------------------------------------------------------------------
(* The order a reader expects.                                                *)
Expected(c) ==
    IF ~c.numericSort THEN <<{NoText}, {"n3"}, {"n1comma5"}, {"n1dot5"}, {"n10"}, {"n9"}, {"b", "B"}, {"c", "C"}>>
    ELSE IF c.commaAsDecimalSeparator THEN <<{"n3"}, {NoText}, {"n1comma5"}, {"n9"}, {"n10"}, {"n1dot5"}>>
    ELSE <<{"n3"}, {NoText}, {"n1dot5"}, {"n9"}, {"n10"}, {"n1comma5"}>>

(* A call that throws has set nothing, no limit is below zero and no line     *)
(* without a size, and the rows are sorted as the grid says they are, by      *)
(* numbers as they are written or by words whatever their case, null among    *)
(* the zeros or before all words.                                             *)
RowsInExpectedOrder(c) ==
    LET e == Expected(c)
        direction == IF isDescendingSort(c) THEN -1 ELSE 1
    IN \A i, j \in DOMAIN e : \A s \in e[i], t \in e[j] :
          isBefore(c, makeSortValue(c, s), makeSortValue(c, t)) <=> direction * i < direction * j
SettingsAgree ==
    LET c == settings.now
    IN /\ settings.threw => c = settings.before
       /\ c.maxRow >= 0 /\ c.pointSize > 0
       /\ c.sortField # NoText =>
            /\ c.sortedBy = <<isDescendingSort(c), isNumericSort(c), IF isNumericSort(c) THEN isCommaAsDecimalSeparator(c) ELSE c.sortedBy[3]>>
            /\ RowsInExpectedOrder(c)
=============================================================================
