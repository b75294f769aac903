---------------------------- MODULE CellContents -----------------------------
(* What a cell of a grid shows: its text, the style, attribute or form value  *)
(* that data-update names. A cell is written by an update, copied to another  *)
(* one when rows scroll, kept in a paragraph of its own while its row is out  *)
(* of sight (a fake cell), read by the application and cleaned. The elements  *)
(* of a column are all of one kind.                                           *)
EXTENDS Integers, Sequences

CONSTANTS
    ContentKinds,       \* of "content", "style", "form" and "attribute"
    ContentValues,      \* texts, of which "markup" has tags
    ContentsAvoided     \* what the page does not do: "html_read_back", "missing_attribute_in_fake"

VARIABLE contents       \* [kind, inner, cell, next, first, given]

CellPlaces == {"upper", "lower"}
FakeCell == "fake"
Places3 == CellPlaces \cup {FakeCell}
NullText == "null"      \* null where a text is written
NoContent == "(null)"   \* null
VOID_VAL == "nbsp"
Initial == "initial"

(* An element: the text or the tags in it, or the value it has.               *)
Empty == [node |-> "none", v |-> ""]
Text(v) == [node |-> "text", v |-> IF v = NoContent THEN NullText ELSE v]
Valued(v) == [node |-> "value", v |-> v]
innerHTML(v) == IF v \in {"", NoContent} THEN Empty ELSE IF v = "markup" THEN [node |-> "tags", v |-> v] ELSE Text(v)

(* --- reading and writing ---------------------------------------------------*)
updateContent(v, useInner) == IF useInner THEN innerHTML(v) ELSE Text(v)
retrieveContent(e, getInner) ==
    IF getInner THEN e.v ELSE IF e.node = "tags" THEN NoContent ELSE e.v
getUpdateStyle(v) == Valued(IF v \in {VOID_VAL, NoContent} THEN "" ELSE v)
updateFormValue(v) == Valued(IF v \in {"", VOID_VAL, NoContent} THEN "" ELSE v)
getUpdateAttribute(v) == Valued(IF v \in {"", VOID_VAL, NoContent} THEN NoContent ELSE v)

updateValue(kind, v, useInner) ==
    IF kind = "content" THEN updateContent(v, useInner)
    ELSE IF kind = "style" THEN getUpdateStyle(v)
    ELSE IF kind = "form" THEN updateFormValue(v) ELSE getUpdateAttribute(v)
retrieveValue(kind, e, getInner) == IF kind = "content" THEN retrieveContent(e, getInner) ELSE e.v
KindOf(c, i) == IF i = FakeCell THEN "content" ELSE c.kind
Retrieved(c, i, getInner) == retrieveValue(KindOf(c, i), c.cell[i], getInner)
Update(c, i, v, useInner) == [c EXCEPT !.cell[i] = updateValue(KindOf(c, i), v, useInner)]

setNextFormattedValue(c, i, v) == [c EXCEPT !.next[i] = IF v = "" THEN VOID_VAL ELSE v]
getCellValue(c, i) == IF c.next[i] # NoContent THEN c.next[i] ELSE Retrieved(c, i, FALSE)
asynchUpdateContent(c, i) == [Update(c, i, c.next[i], c.inner) EXCEPT !.next[i] = NoContent]
scrollContentHere(c, from, to) ==
    [Update(c, to, Retrieved(c, from, FALSE), c.inner) EXCEPT !.next[to] = c.next[from], !.given[to] = c.given[from]]
makeFakeCell(c, from) == scrollContentHere([c EXCEPT !.cell[FakeCell] = Empty], from, FakeCell)
cleanCell(c, i) == [Update(c, i, c.first[i], TRUE) EXCEPT !.given[i] = Initial]

(* --- actions ---------------------------------------------------------------*)
FirstElements(kind) ==
    IF kind = "content" THEN {Empty, Text("first"), innerHTML("markup")}
    ELSE IF kind = "attribute" THEN {Valued(NoContent), Valued("first")} ELSE {Valued(""), Valued("first")}
ContentsInit ==
    \E kind \in ContentKinds, inner \in BOOLEAN : \E e \in FirstElements(kind) :
        contents = [kind |-> kind, inner |-> inner, cell |-> [i \in Places3 |-> IF i = FakeCell THEN Empty ELSE e],
                    next |-> [i \in Places3 |-> NoContent], given |-> [i \in Places3 |-> Initial],
                    first |-> [i \in CellPlaces |-> retrieveValue(kind, e, TRUE)]]

(* An update in two steps: the values, and what is to be shown of them once   *)
(* the listeners of the grid had a chance to change or read it. Bound: no two *)
(* updates are under way.                                                     *)
setCellValue(i, v) ==
    /\ \A j \in Places3 \ {i} : contents.next[j] = NoContent
    /\ contents' = setNextFormattedValue(contents, i, v)
ShowUpdate(i) ==
    /\ contents.next[i] # NoContent
    /\ contents' = [asynchUpdateContent(contents, i) EXCEPT !.given[i] = contents.next[i]]
HasTags(i) == contents.inner /\ (contents.cell[i].node = "tags" \/ contents.cell[i].v = "markup")
CanBeRead(i) == "html_read_back" \in ContentsAvoided => ~HasTags(i)
Scrolls(from, to) ==
    /\ CanBeRead(from) /\ from # to
    /\ IF to # FakeCell THEN contents' = scrollContentHere(contents, from, to)
       ELSE /\ "missing_attribute_in_fake" \in ContentsAvoided => contents.cell[from].v # NoContent
            /\ contents' = makeFakeCell(contents, from)
Cleaned(i) == contents' = cleanCell(contents, i)

ContentsNext ==
    \/ \E i \in Places3, v \in ContentValues : setCellValue(i, v)
    \/ \E i \in Places3 : ShowUpdate(i)
    \/ \E i \in CellPlaces : Cleaned(i)
    \/ \E from, to \in Places3 : Scrolls(from, to)
-----------------------------------------------------------------------------
(* What a value looks like in an element of the column.                       *)
Rendered(v) ==
    IF contents.kind = "content" THEN IF contents.inner /\ v = "markup" THEN [node |-> "tags", v |-> v] ELSE Text(v)
    ELSE Valued(IF v # VOID_VAL THEN v ELSE IF contents.kind = "attribute" THEN NoContent ELSE "")

(* Whatever rows passed through a cell, it shows what its row was last given, *)
(* and that is what the application reads of it.                              *)
ContentsAreOfTheirRow ==
    /\ \A i \in CellPlaces : contents.given[i] # Initial => contents.cell[i] = Rendered(contents.given[i])
    /\ \A i \in CellPlaces : CanBeRead(i) /\ (contents.given[i] # Initial \/ contents.next[i] # NoContent) =>
          getCellValue(contents, i) =
             IF contents.next[i] # NoContent THEN contents.next[i] ELSE Rendered(contents.given[i]).v
=============================================================================
