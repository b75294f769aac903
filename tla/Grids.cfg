SPECIFICATION Spec
CONSTANTS
    Classes = {"dyna", "static"}
    Kinds = {"key", "update"}
    MaxKey = 3
    ItemKeys = {1}
    Values = {1, 2}
    Limits = {0, 2}
    MaxPage = 2
    Sorts = {"off", "asc"}
    ListenerValues = {2}
    ListenerCalls = 1
    MaxDepth = 2
    MaxFifoHoles = 2
    Avoided = {"calls_while_limited", "calls_while_paged", "sorted_cells", "top_after_sort", "top_of_pages", "partial_rows"}
INVARIANTS
    RowsAgree
    ShowsThePage
PROPERTIES
    CallsCarriedOut
    NewRowAtItsEnd
CHECK_DEADLOCK FALSE
