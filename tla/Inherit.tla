------------------------------- MODULE Inherit -------------------------------
(* Inheritance: the prototype of a class of the web library is given the      *)
(* methods of the class it extends, one name after the other. A minified      *)
(* class has a method under two names, and a class that redefines it by one   *)
(* of them has to have it by the other.                                       *)
EXTENDS Integers, Sequences, FiniteSets, SequencesExt

CONSTANTS
    MethodNames,        \* names of methods
    InheritAvoided      \* "colliding_methods": the other name of a method a class redefines is
                        \* not one of its own for another; "third_names": no method has three names

ASSUME ClassesAreFinite == IsFiniteSet(MethodNames)

VARIABLE classes        \* [sup, sub, own, order, checks, left, light, super]

NoMethod == 0

(* The name searchAlias finds first in the prototype, which is in the order   *)
(* of definition; 0 for none.                                                 *)
searchAlias(c, i) == SelectInSeq(c.order, LAMBDA n : n # i /\ c.sup[n] = c.sup[i])
HasMethod(c, i) == c.sub[i] # NoMethod

(* The check of collisions compares a method of the super class with itself:  *)
(* it never throws.                                                           *)
CopyMethod(c, i) ==
    LET alias == searchAlias(c, i)
    IN IF ~HasMethod(c, i) THEN [c EXCEPT !.sub[i] = c.sup[i]]
       ELSE IF c.checks /\ alias # 0 THEN [c EXCEPT !.sub[c.order[alias]] = c.sub[i]] ELSE c
SetUpSuper(c) == [c EXCEPT !.super = TRUE]

(* --- actions ---------------------------------------------------------------*)
Collides(w, v) ==
    \E i, n \in MethodNames : /\ i # n /\ w[i] = w[n] /\ w[i] # NoMethod
                              /\ v[i] # v[n] /\ NoMethod \notin {v[i], v[n]}
InheritInit ==
    \E w \in [MethodNames -> {0, 1, 2}], v \in [MethodNames -> {0, 11, 12}], checks, light \in BOOLEAN :
        /\ "colliding_methods" \in InheritAvoided /\ checks => ~Collides(w, v)
        /\ "third_names" \in InheritAvoided => \A m \in {1, 2} : Cardinality({n \in MethodNames : w[n] = m}) < 3
        /\ \E names \in SetToSeqs({n \in MethodNames : w[n] # NoMethod}) :
              classes = [sup |-> w, sub |-> v, own |-> v, order |-> names, checks |-> checks,
                         left |-> names, light |-> light, super |-> FALSE]
InheritOne == classes.left # <<>> /\ classes' = CopyMethod([classes EXCEPT !.left = Tail(@)], Head(classes.left))
InheritLast ==
    classes.left = <<>> /\ ~classes.super /\ ~classes.light /\ classes' = SetUpSuper(classes)
InheritNext == InheritOne \/ InheritLast
-----------------------------------------------------------------------------
(* A class that was extended has every name of the one it extends; what it    *)
(* redefines it has under all the names of what it redefines, nothing is of   *)
(* the old method under one name and of the new one under another, and no     *)
(* method of its own is lost.                                                 *)
MethodsInherited ==
    classes.left = <<>> =>
        \A n \in MethodNames :
            /\ classes.sup[n] # NoMethod => classes.sub[n] # NoMethod
            /\ classes.own[n] # NoMethod => classes.sub[n] = classes.own[n]
            /\ classes.checks => \A i \in MethodNames :
                  classes.sup[n] = classes.sup[i] /\ classes.sup[n] # NoMethod => classes.sub[n] = classes.sub[i]
=============================================================================
