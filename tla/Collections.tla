----------------------------- MODULE Collections -----------------------------
(* The collection in which the client keeps the managers of its               *)
(* subscriptions (OrderedIntMap, over a MyArray of its keys) and of its       *)
(* messages (a MyArray). A reply of the server and the end of a session are   *)
(* told to each manager in a loop, and a manager that is told may remove      *)
(* itself or others from the collection that is being looped over, or add to  *)
(* it: a removed element is only marked, and the client compacts the          *)
(* collection when the loop is over.                                          *)
EXTENDS SequencesExt, Positions

CONSTANTS
    Ids,           \* of subscriptions
    MaxElements    \* bound: length of the array of keys, removed ones included

VARIABLE coll      \* [values, nRemoved, innerMap, index, due]

(* The iterator is the position it has reached; 0 is no loop under way.       *)
NoLoop == 0
Valid(v, i) == v[i].isValid
Position(v, k) == CHOOSE i \in DOMAIN v : v[i].item = k /\ Valid(v, i)
Items(v) == [i \in DOMAIN v |-> v[i].item]

ValidFrom(v, first) == {i \in first..Len(v) : Valid(v, i)}
copy(v) == Pick(v, ValidFrom(v, 1))
Live(v) == Items(copy(v))
Length(c) == Len(c.values) - c.nRemoved

push(c, k) == [c EXCEPT !.values = Append(@, [item |-> k, isValid |-> TRUE])]
compact(c) ==
    IF 2 * c.nRemoved > Len(c.values)
    THEN [c EXCEPT !.nRemoved = 0, !.values = copy(@)]
    ELSE c

(* Fault: the space is reclaimed at once.                                     *)
removeElement_Compacts(c, k) ==
    compact([c EXCEPT !.nRemoved = @ + 1, !.values[Position(c.values, k)].isValid = FALSE])

removeElement(c, k) ==
    [c EXCEPT !.nRemoved = @ + 1, !.values[Position(c.values, k)].isValid = FALSE]

CollectionsInit ==
    coll = [values |-> <<>>, nRemoved |-> 0, innerMap |-> {}, index |-> NoLoop, due |-> <<>>]

(* A key that is new comes last; the value of one that is there is replaced   *)
(* where it is. Who iterates still owes a visit to it.                        *)
set(k) ==
    /\ Len(coll.values) < MaxElements
    /\ coll' = IF k \in coll.innerMap THEN coll
               ELSE [push(coll, k) EXCEPT !.innerMap = @ \cup {k},
                                          !.due = IF coll.index # NoLoop THEN Append(@, k) ELSE @]
OtherThan(s, k) == Pick(s, {i \in DOMAIN s : s[i] # k})
remove(k) ==
    /\ k \in coll.innerMap
    /\ coll' = [removeElement(coll, k) EXCEPT !.innerMap = @ \ {k},
                                              !.due = OtherThan(@, k)]

(* doREQOK, doREQERR, genAbortSubscriptions: for each manager, then compact.  *)
Remaining(c) == Pick(c.values, ValidFrom(c.values, c.index))
hasNext(c) == ValidFrom(c.values, c.index) # {}
iterator == coll.index = NoLoop /\ coll' = [coll EXCEPT !.index = 1, !.due = Live(coll.values)]
next ==
    /\ coll.index # NoLoop /\ hasNext(coll)
    /\ coll' = [coll EXCEPT !.index = Nth(ValidFrom(coll.values, @), 1) + 1, !.due = Tail(@)]
EndOfLoop ==
    /\ coll.index # NoLoop /\ ~hasNext(coll)
    /\ coll' = compact([coll EXCEPT !.index = NoLoop, !.due = <<>>])

CollectionsNext == (\E k \in Ids : set(k) \/ remove(k)) \/ iterator \/ next \/ EndOfLoop
-----------------------------------------------------------------------------
(* The loop visits each element that is there when its turn comes, once and   *)
(* in the order of insertion, and none that was removed before: what remains  *)
(* to visit is exactly what a collection that is really changed would owe.    *)
LoopVisitsAll == coll.index # NoLoop => Items(Remaining(coll)) = coll.due

(* The array and the map of a collection know the same keys, each once, and   *)
(* its length counts them.                                                    *)
KeysAgree ==
    /\ ToSet(Live(coll.values)) = coll.innerMap
    /\ Len(Live(coll.values)) = Cardinality(coll.innerMap)
    /\ Length(coll) = Cardinality(coll.innerMap)
=============================================================================
