--------------------------------- MODULE Scan ---------------------------------
(* The cells of a StaticGrid are elements of the page, which the grid scans   *)
(* when the application asks it to, by parseHtml: cells that have left the    *)
(* page are dropped from the CellMatrix, cells that have come are added to    *)
(* it. Cells may also be given to the grid one by one, by addCell. The page   *)
(* changes between the scans, and what it declares may be inconsistent.       *)
EXTENDS Integers, Sequences, SequencesExt, FiniteSets

CONSTANTS
    PageElements,   \* of the page, numbers in the order of the document
    Section,        \* the elements below another root
    Labels,         \* "foreign", "bare", "rowN", "rowN-bare", "rowN-second", "item", "item-bare"
    MaxGiven,       \* bound: of the cells given by addCell to one scan
    ScanAvoided     \* what the application does not do

VARIABLE scan      \* fresh: the last step was a scan (ghost)

(* The attributes of an element: that of the grid, data-row or data-item,     *)
(* data-field.                                                                *)
getTable(l) == l # "foreign"
getRow(l) == CASE l \in {"row1", "row1-bare", "row1-second"} -> 1 [] l \in {"row2", "row2-bare", "row2-second"} -> 2
               [] l \in {"item", "item-bare"} -> 0 [] OTHER -> -1
IsItem(l) == getRow(l) = 0
NoField == "none"
getField(l) ==
    CASE l \in {"row1", "row2", "item"} -> "price" [] l \in {"row1-second", "row2-second"} -> "change" [] OTHER -> NoField
getFieldType(l) == IF l \in {"row1-second", "row2-second"} THEN "second-level" ELSE "first-level"

(* CellMatrix: a cell alone or an array of them in each position, none where  *)
(* there is no entry.                                                         *)
CellsAt(m, r) == IF r \in DOMAIN m THEN m[r] ELSE <<>>
Held(m) == UNION {ToSet(m[r]) : r \in DOMAIN m}
cellsGarbageCollection(m, attached) ==
    LET kept == [r \in DOMAIN m |-> SelectSeq(m[r], LAMBDA e : e \in attached)]
    IN [r \in {q \in DOMAIN m : kept[q] # <<>>} |-> kept[r]]
alreadyInList(m, e, r) == e \in ToSet(CellsAt(m, r))
(* Fault: a cell that is in the matrix is added again.                        *)
addCellTo_Again(m, e, r) == [q \in DOMAIN m \cup {r} |-> IF q = r THEN Append(CellsAt(m, r), e) ELSE m[q]]
addCellTo(m, e, r) ==
    IF alreadyInList(m, e, r) THEN m
    ELSE [q \in DOMAIN m \cup {r} |-> IF q = r THEN Append(CellsAt(m, r), e) ELSE m[q]]

(* What the application subscribes to, by what the cells in the matrix say;   *)
(* the items, where the rows are numbers, it can not be told.                 *)
computeFieldSymbolsSet(g, type) == {getField(g.label[e]) : e \in {c \in Held(g.matrix) : getFieldType(g.label[c]) = type}}
computeItemSymbolsSet(g) == DOMAIN g.matrix
extractTypedFieldList(g, type) == SetToSeq(computeFieldSymbolsSet(g, type))
extractFieldList(g) == extractTypedFieldList(g, "first-level")
extractCommandSecondLevelFieldList(g) == extractTypedFieldList(g, "second-level")
extractItemList(g) == IF g.usingItems = "no" THEN <<>> ELSE SetToSeq(computeItemSymbolsSet(g))

(* One element of a scan, unless an earlier one ended it: the first row       *)
(* decides whether the rows of the grid are items or numbers.                 *)
ParseElement(g, e) ==
    LET l == g.label[e] IN
    IF g.threw \/ ~getTable(l) \/ getRow(l) = -1 THEN g
    ELSE IF g.usingItems \notin {"unknown", IF IsItem(l) THEN "yes" ELSE "no"} THEN [g EXCEPT !.threw = TRUE]
    ELSE LET placed == [g EXCEPT !.usingItems = IF IsItem(l) THEN "yes" ELSE "no",
                                 !.maxRow = IF getRow(l) > @ THEN getRow(l) ELSE @]
         IN IF getField(l) # NoField THEN [placed EXCEPT !.matrix = addCellTo(@, e, getRow(l))] ELSE placed

getLSTags(g) == SetToSortSeq(g.attached \cap g.root, LAMBDA a, b : a < b)
ParseHtml(g) ==
    LET collected == [g EXCEPT !.matrix = cellsGarbageCollection(@, g.attached),
                                 !.threw = FALSE, !.fresh = TRUE]
        lsTags == IF g.explicitSetting THEN g.tableCells ELSE getLSTags(g)
        parsed == FoldLeft(ParseElement, [collected EXCEPT !.tableCells = <<>>], lsTags)
    IN [parsed EXCEPT !.threw = @ \/ DOMAIN parsed.matrix = {}]

ScanInit ==
    \E label \in [PageElements -> Labels], attached \in SUBSET PageElements :
        LET g == [label |-> label, attached |-> attached, root |-> PageElements, explicitSetting |-> FALSE,
                  tableCells |-> <<>>, usingItems |-> "unknown", maxRow |-> 0, matrix |-> <<>>, threw |-> FALSE,
                  fresh |-> FALSE]
        IN scan \in {g, ParseHtml(g)}

parseHtml == scan' = ParseHtml(scan)
Changed == [scan EXCEPT !.fresh = FALSE]
addCell(e) ==
    /\ getTable(scan.label[e]) /\ e \notin ToSet(scan.tableCells) /\ Len(scan.tableCells) < MaxGiven
    /\ scan' = [Changed EXCEPT !.explicitSetting = TRUE, !.tableCells = Append(@, e)]
setRootNode(r) == scan' = [Changed EXCEPT !.root = r]

(* The page, by the application: an element comes, leaves, or changes its     *)
(* attributes. The part that passes changes none of a cell that the grid      *)
(* holds, which would then be found in its old position and in the new one.   *)
Attach(e) == e \notin scan.attached /\ scan' = [Changed EXCEPT !.attached = @ \cup {e}]
Detach(e) == e \in scan.attached /\ scan' = [Changed EXCEPT !.attached = @ \ {e}]
setAttribute(e, l) ==
    /\ "labels_of_cells" \in ScanAvoided => e \notin Held(scan.matrix)
    /\ scan' = [Changed EXCEPT !.label[e] = l]

ScanNext ==
    \/ parseHtml
    \/ \E e \in PageElements : addCell(e) \/ Attach(e) \/ Detach(e)
    \/ \E r \in {PageElements, Section} : setRootNode(r)
    \/ \E e \in PageElements, l \in Labels : setAttribute(e, l)
-----------------------------------------------------------------------------
(* Each cell is held once, where its attributes say, the rows are all items   *)
(* or all numbers, even after a scan that failed half way, and none of them   *)
(* is beyond the last one.                                                    *)
MatrixIsSound ==
    /\ \A r \in DOMAIN scan.matrix :
          /\ IsInjective(scan.matrix[r])
          /\ \A e \in ToSet(scan.matrix[r]) : getField(scan.label[e]) # NoField /\ getRow(scan.label[e]) = r
    /\ 0 \in DOMAIN scan.matrix => DOMAIN scan.matrix = {0}
    /\ \A r \in DOMAIN scan.matrix : r <= scan.maxRow

(* A scan that does not fail finds every cell of the grid that is below the   *)
(* root, or given to it, keeps those it held that are still in the page, and  *)
(* no others; and what the application then subscribes to has a cell for each *)
(* of its fields and items, and each of those cells has its field in it.      *)
Asked == IF scan.explicitSetting THEN ToSet(scan.tableCells) ELSE scan.attached \cap scan.root
IsCell(l) == getTable(l) /\ getField(l) # NoField
Due == (Held(scan.matrix) \cap scan.attached) \cup {e \in Asked : IsCell(scan.label[e]) /\ getRow(scan.label[e]) # -1}
ScanFindsAll ==
    scan'.fresh /\ ~scan'.threw =>
      /\ Held(scan'.matrix) = Due
      /\ ToSet(extractFieldList(scan') \o extractCommandSecondLevelFieldList(scan')) = {getField(scan.label[e]) : e \in Due}
      /\ ToSet(extractFieldList(scan')) \subseteq {"price"}
      /\ ToSet(extractItemList(scan')) = {getRow(scan.label[e]) : e \in {c \in Due : IsItem(scan.label[c])}}
=============================================================================
