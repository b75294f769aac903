------------------------------ MODULE Positions ------------------------------
(* What a sequence has at some of its positions, in their order: the elements *)
(* of an array that a loop has still to visit, or that a filter keeps.        *)
EXTENDS Integers, Sequences, FiniteSets

PlaceIn(P, i) == Cardinality({h \in P : h <= i})
Nth(P, r) == CHOOSE i \in P : PlaceIn(P, i) = r
Pick(s, P) == [r \in 1..Cardinality(P) |-> s[Nth(P, r)]]
=============================================================================
