------------------------------- MODULE Table --------------------------------
(* What the model behind a grid promises to those who call updateRow and      *)
(* removeRow: the calls accepted are carried out one at a time and in the     *)
(* order they were accepted, an update of the row being updated joins it, and *)
(* a table that keeps its newest rows drops the oldest ones and nothing else. *)
EXTENDS Integers, FiniteSets, SequencesExt

CONSTANTS Keys, NoField

(* A table t has the value of each row (rows), the calls accepted and not     *)
(* carried out, the first under way (todo), how many rows are kept, 0 for no  *)
(* limit (limit), and, if the oldest rows make place for the newest           *)
(* (bounded), the rows in the order they arrived (age).                       *)
VARIABLE table

Joined(old, new) == IF new = NoField THEN old ELSE new
Updated(t, k, v) ==
    [t EXCEPT !.rows = [j \in DOMAIN @ \cup {k} |->
                          IF j # k THEN @[j] ELSE IF k \in DOMAIN @ THEN Joined(@[k], v) ELSE v],
              !.age = IF t.bounded /\ k \notin DOMAIN t.rows THEN Append(@, k) ELSE @]
Without(t, k) == [t EXCEPT !.rows = [j \in DOMAIN @ \ {k} |-> @[j]], !.age = Remove(@, k)]
Carried(t, c) == IF c.op = "update" THEN Updated(t, c.key, c.val) ELSE Without(t, c.key)
Overflowing(t) == t.bounded /\ t.limit > 0 /\ Cardinality(DOMAIN t.rows) >= t.limit
DropOldest(t) == Without(t, Head(t.age))

TableInit == table.rows = <<>> /\ table.age = <<>> /\ table.todo = <<>>

(* The steps from a table t to a table u. A new row of a full table may push  *)
(* the oldest out as it is accepted.                                          *)
Accepts(t, u) ==
    /\ u.todo # <<>>
    /\ \E accepted \in {[t EXCEPT !.todo = Append(@, Last(u.todo))]} :
          u = accepted \/ (Overflowing(t) /\ u = DropOldest(accepted))
Joins(t, u) ==
    /\ t.todo # <<>> /\ u.todo # <<>> /\ Head(t.todo).op = "update" /\ Head(u.todo).val # NoField
    /\ u = [t EXCEPT !.todo[1].val = Head(u.todo).val]
Drops(t, u) == Overflowing(t) /\ u = DropOldest(t)
Performs(t, u) == t.todo # <<>> /\ u = Carried([t EXCEPT !.todo = Tail(@)], Head(t.todo))
Configures(t, u) == u = [t EXCEPT !.limit = u.limit]

TableNext ==
    \E t \in {table}, u \in {table'} :
        Configures(t, u) \/ Performs(t, u) \/ Accepts(t, u) \/ Joins(t, u) \/ Drops(t, u)
TableSpec == TableInit /\ [][TableNext]_table
=============================================================================
