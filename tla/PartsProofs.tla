----------------------------- MODULE PartsProofs -----------------------------
(* Proofs about parts that share nothing (SeparateParts): loops over what     *)
(* changes meanwhile, which are those over the collections of the client and  *)
(* over the methods copied from a class to another (LoopsAreComplete); the    *)
(* delays of the client (AttemptsArePaced); and the callbacks of the web      *)
(* library, by its executors, its events and the life of the page             *)
(* (CallbacksRunOnce). Each part has an invariant of its own, and no step of  *)
(* another part changes what it says.                                         *)
EXTENDS SeparateParts, PositionsProofs

Element == [item : Ids, isValid : BOOLEAN]
Collection ==
    [values : Seq(Element), nRemoved : Nat, innerMap : SUBSET Ids, index : Nat, due : Seq(Ids)]

(* What is kept of an array: the elements that are valid are of different     *)
(* keys, those of the map.                                                    *)
ArrayIsOf(v, keys) ==
    /\ \A i, j \in ValidFrom(v, 1) : v[i].item = v[j].item => i = j
    /\ keys = {v[i].item : i \in ValidFrom(v, 1)}

(* The inductive invariant of a collection.                                   *)
CollectionOK(c) ==
    /\ c \in Collection
    /\ c.index <= Len(c.values) + 1
    /\ c.nRemoved = Len(c.values) - Cardinality(ValidFrom(c.values, 1))
    /\ ArrayIsOf(c.values, c.innerMap)
    /\ c.index # NoLoop => c.due = Items(Remaining(c))

(* The valid elements from a position on are finitely many.                   *)
LEMMA ValidPositions ==
  ASSUME NEW v \in Seq(Element), NEW f \in Nat \ {0}
  PROVE  /\ ValidFrom(v, f) \in SUBSET Nat /\ IsFiniteSet(ValidFrom(v, f))
         /\ ValidFrom(v, f) \subseteq ValidFrom(v, 1)
         /\ \A i \in ValidFrom(v, f) : i \in 1..Len(v) /\ v[i] \in Element
<1>1. Len(v) \in Nat /\ \A i \in 1..Len(v) : v[i] \in Element
  OBVIOUS
<1>2. IsFiniteSet(1..Len(v)) /\ ValidFrom(v, f) \in SUBSET (1..Len(v))
  BY <1>1, CountTo DEF ValidFrom
<1>3. IsFiniteSet(ValidFrom(v, f))
  BY <1>2, FS_Subset
<1> QED
  BY <1>1, <1>2, <1>3 DEF ValidFrom

(* The keys of the elements that are picked are picked from the keys.         *)
LEMMA ItemsPicked ==
  ASSUME NEW v \in Seq(Element), NEW P \in SUBSET (1..Len(v)), IsFiniteSet(P)
  PROVE  /\ Items(Pick(v, P)) = Pick(Items(v), P)
         /\ Pick(Items(v), P) \in Seq(Ids)
         /\ DOMAIN Pick(Items(v), P) = 1..Cardinality(P)
         /\ \A r \in 1..Cardinality(P) : Nth(P, r) \in P /\ Pick(Items(v), P)[r] = v[Nth(P, r)].item
<1>1. P \in SUBSET Nat /\ \A i \in P : i \in DOMAIN v /\ v[i] \in Element
  OBVIOUS
<1>2. \A r \in 1..Cardinality(P) : Nth(P, r) \in P
  BY <1>1, NthIs
<1>3. \A i \in P : Items(v)[i] = v[i].item /\ Items(v)[i] \in Ids
  BY <1>1 DEF Items, Element
<1>4. Pick(Items(v), P) \in Seq(Ids)
  BY <1>1, <1>3, PickIs
<1> QED
  BY <1>2, <1>3, <1>4 DEF Pick, Items

(* The elements that are valid, once each, have the keys of the map.          *)
LEMMA KeysCounted ==
  ASSUME NEW v \in Seq(Element), NEW keys, ArrayIsOf(v, keys)
  PROVE  /\ ToSet(Live(v)) = keys
         /\ Len(Live(v)) = Cardinality(keys)
         /\ Cardinality(ValidFrom(v, 1)) = Cardinality(keys)
<1> DEFINE V == ValidFrom(v, 1)
<1>1. V \in SUBSET Nat /\ IsFiniteSet(V) /\ V \in SUBSET (1..Len(v))
  BY ValidPositions
<1>2. /\ Live(v) = Pick(Items(v), V) /\ Live(v) \in Seq(Ids) /\ DOMAIN Live(v) = 1..Cardinality(V)
      /\ \A r \in 1..Cardinality(V) : Nth(V, r) \in V /\ Live(v)[r] = v[Nth(V, r)].item
  BY <1>1, ItemsPicked DEF Live, copy
<1>3. /\ Cardinality(V) \in Nat
      /\ \A i \in V : PlaceIn(V, i) \in 1..Cardinality(V) /\ Nth(V, PlaceIn(V, i)) = i
  BY <1>1, NthIs
<1> HIDE DEF V
<1>4. keys = {v[i].item : i \in V} /\ \A i, j \in V : v[i].item = v[j].item => i = j
  BY DEF ArrayIsOf, V
<1>5. ToSet(Live(v)) = keys
  <2>1. ASSUME NEW i \in V
        PROVE  \E r \in 1..Cardinality(V) : Live(v)[r] = v[i].item
    BY <1>2, <1>3
  <2> QED
    BY <2>1, <1>2, <1>4 DEF ToSet
<1>6. Len(Live(v)) = Cardinality(V)
  BY <1>2, <1>3
<1>7. Cardinality(keys) = Cardinality(V)
  <2> DEFINE g == [i \in V |-> v[i].item]
  <2>1. g \in Bijection(V, keys)
    BY <1>4 DEF Bijection, Injection, Surjection, IsInjective
  <2> QED
    BY <2>1, <1>1, FS_Bijection DEF ExistsBijection
<1> QED
  BY <1>5, <1>6, <1>7 DEF V

(* What is sound says what it promises.                                       *)
LEMMA CollectionPromises ==
  ASSUME part = "collections", CollectionOK(coll)
  PROVE  LoopVisitsAll /\ KeysAgree
<1>1. coll.values \in Seq(Element) /\ Len(coll.values) \in Nat /\ coll.nRemoved \in Nat
  BY DEF CollectionOK, Collection
<1>2. /\ ToSet(Live(coll.values)) = coll.innerMap
      /\ Len(Live(coll.values)) = Cardinality(coll.innerMap)
      /\ Cardinality(ValidFrom(coll.values, 1)) = Cardinality(coll.innerMap)
  BY <1>1, KeysCounted DEF CollectionOK
<1>3. Cardinality(ValidFrom(coll.values, 1)) \in Nat
  BY <1>1, ValidPositions, FS_CardinalityType
<1> QED
  BY <1>1, <1>2, <1>3 DEF CollectionOK, LoopVisitsAll, KeysAgree, Length

(* A key that is put at the end is the last one to be visited.                *)
LEMMA SetKeeps ==
  ASSUME CollectionOK(coll), NEW k \in Ids, set(k)
  PROVE  CollectionOK(coll')
<1> DEFINE c == coll
           v == c.values
           n == Len(v)
           e == [item |-> k, isValid |-> TRUE]
           w == Append(v, e)
<1>1. v \in Seq(Element) /\ n \in Nat /\ c.index \in Nat /\ c.index <= n + 1 /\ c \in Collection
  BY DEF CollectionOK, Collection
<1>2. CASE k \in c.innerMap
  BY <1>2 DEF set
<1>3. CASE k \notin c.innerMap
  <2> DEFINE d == [values |-> w, nRemoved |-> c.nRemoved, innerMap |-> c.innerMap \cup {k}, index |-> c.index,
                   due |-> IF c.index # NoLoop THEN Append(c.due, k) ELSE c.due]
  <2>1. coll' = d
    BY <1>1, <1>3 DEF set, push, Collection
  <2>2. e \in Element /\ w \in Seq(Element) /\ Len(w) = n + 1 /\ w[n + 1] = e /\ \A i \in 1..n : w[i] = v[i]
    BY <1>1 DEF Element
  <2>3. d \in Collection
    BY <1>1, <2>2 DEF Collection
  <2> HIDE DEF e, w
  <2>4. e.item = k /\ e.isValid
    BY DEF e
  <2>5. ASSUME NEW f \in 1..(n + 1)
        PROVE  ValidFrom(w, f) = ValidFrom(v, f) \cup {n + 1}
    BY <1>1, <2>2, <2>4 DEF ValidFrom, Valid
  <2>6. ASSUME NEW f \in 1..(n + 1)
        PROVE  /\ ValidFrom(v, f) \in SUBSET Nat /\ IsFiniteSet(ValidFrom(v, f))
               /\ ValidFrom(v, f) \in SUBSET (1..n) /\ \A i \in ValidFrom(v, f) : i < n + 1
    <3>1. f \in Nat \ {0}
      BY <1>1
    <3>2. ValidFrom(v, f) \in SUBSET Nat /\ IsFiniteSet(ValidFrom(v, f)) /\ \A i \in ValidFrom(v, f) : i \in 1..n
      BY <1>1, <3>1, ValidPositions
    <3> QED
      BY <1>1, <3>2
  <2>7. 1 \in 1..(n + 1) /\ n + 1 \in Nat
    BY <1>1
  <2>8. ValidFrom(w, 1) = ValidFrom(v, 1) \cup {n + 1}
    BY <2>5, <2>7
  <2>9. Cardinality(ValidFrom(w, 1)) = Cardinality(ValidFrom(v, 1)) + 1
    BY <2>6, <2>7, <2>8, RankOfLast
  <2>10. Cardinality(ValidFrom(v, 1)) \in Nat
    BY <2>6, <2>7, FS_CardinalityType
  <2>11. c.nRemoved = n - Cardinality(ValidFrom(v, 1)) /\ ArrayIsOf(v, c.innerMap)
    BY DEF CollectionOK
  <2>12. c.nRemoved = Len(w) - Cardinality(ValidFrom(w, 1))
    BY <1>1, <2>2, <2>9, <2>10, <2>11
  <2>13. ArrayIsOf(w, c.innerMap \cup {k})
    <3> DEFINE V == ValidFrom(v, 1)
    <3>1. \A i \in V : w[i] = v[i] /\ i # n + 1
      BY <1>1, <2>2, <2>6, <2>7
    <3>2. w[n + 1].item = k
      BY <2>2, <2>4
    <3>3. c.innerMap = {v[i].item : i \in V} /\ \A i, j \in V : v[i].item = v[j].item => i = j
      BY <2>11 DEF ArrayIsOf
    <3> HIDE DEF V
    <3>4. \A i \in V : w[i].item \in c.innerMap
      BY <3>1, <3>3
    <3>5. ASSUME NEW i \in V \cup {n + 1}, NEW j \in V \cup {n + 1}, w[i].item = w[j].item
          PROVE  i = j
      BY <1>3, <3>1, <3>2, <3>3, <3>4, <3>5
    <3>6. c.innerMap \cup {k} = {w[i].item : i \in V \cup {n + 1}}
      BY <3>1, <3>2, <3>3
    <3> QED
      BY <3>5, <3>6, <2>8 DEF ArrayIsOf, V
  <2>14. ASSUME c.index # NoLoop
         PROVE  Append(c.due, k) = Items(Remaining(d))
    <3> DEFINE P == ValidFrom(v, c.index)
    <3>1. c.index \in 1..(n + 1)
      BY <1>1, <2>14 DEF NoLoop
    <3>2. P \in SUBSET Nat /\ IsFiniteSet(P) /\ P \in SUBSET (1..n) /\ \A i \in P : i < n + 1
      BY <3>1, <2>6
    <3>3. ValidFrom(w, c.index) = P \cup {n + 1}
      BY <3>1, <2>5
    <3>4. Remaining(d) = Pick(w, P \cup {n + 1}) /\ Remaining(c) = Pick(v, P)
      BY <3>3 DEF Remaining
    <3> HIDE DEF P
    <3>5. P \cup {n + 1} \in SUBSET (1..Len(w)) /\ IsFiniteSet(P \cup {n + 1})
      <4>1. IsFiniteSet(P \cup {n + 1})
        BY <3>2, FS_AddElement
      <4>2. n + 1 \in 1..Len(w) /\ 1..n \subseteq 1..Len(w)
        BY <1>1, <2>2
      <4> QED
        BY <3>2, <4>1, <4>2
    <3>6. Items(Remaining(d)) = Pick(Items(w), P \cup {n + 1}) /\ Items(Remaining(c)) = Pick(Items(v), P)
      BY <1>1, <2>2, <3>2, <3>4, <3>5, ItemsPicked
    <3>7. Pick(Items(w), P \cup {n + 1}) = Append(Pick(Items(w), P), Items(w)[n + 1])
      BY <2>7, <3>2, PickMore
    <3>8. Items(w)[n + 1] = k
      BY <1>1, <2>2, <2>4 DEF Items
    <3>9. ASSUME NEW i \in P
          PROVE  Items(w)[i] = Items(v)[i]
      <4>1. i \in 1..n /\ i \in DOMAIN v /\ i \in DOMAIN w /\ w[i] = v[i]
        BY <1>1, <2>2, <3>2
      <4> QED
        BY <4>1 DEF Items
    <3>10. Pick(Items(w), P) = Pick(Items(v), P)
      BY <3>2, <3>9, PickSame
    <3>11. c.due = Items(Remaining(c))
      BY <2>14 DEF CollectionOK
    <3> QED
      BY <3>6, <3>7, <3>8, <3>10, <3>11
  <2>15. d.index <= Len(w) + 1
    BY <1>1, <2>2
  <2> QED
    BY <2>1, <2>3, <2>12, <2>13, <2>14, <2>15 DEF CollectionOK
<1> QED
  BY <1>2, <1>3

(* A key that is removed is of one valid element, and is no longer due.       *)
LEMMA RemoveKeeps ==
  ASSUME CollectionOK(coll), NEW k \in Ids, remove(k)
  PROVE  CollectionOK(coll')
<1> DEFINE c == coll
           v == c.values
           n == Len(v)
           p == Position(v, k)
           x == [v[p] EXCEPT !.isValid = FALSE]
           w == [v EXCEPT ![p] = x]
           d == coll'
<1>1. /\ v \in Seq(Element) /\ n \in Nat /\ c.index \in Nat /\ c.index <= n + 1 /\ c \in Collection
      /\ c.nRemoved \in Nat /\ c.nRemoved = n - Cardinality(ValidFrom(v, 1))
      /\ k \in c.innerMap /\ c.innerMap = {v[i].item : i \in ValidFrom(v, 1)}
      /\ \A i, j \in ValidFrom(v, 1) : v[i].item = v[j].item => i = j
  BY DEF CollectionOK, Collection, remove, ArrayIsOf
<1>2. p \in 1..n /\ p \in ValidFrom(v, 1) /\ v[p].item = k /\ v[p] \in Element
  <2>1. PICK i \in ValidFrom(v, 1) : v[i].item = k
    BY <1>1
  <2>2. i \in DOMAIN v /\ v[i].item = k /\ Valid(v, i)
    BY <1>1, <2>1 DEF ValidFrom
  <2>3. p \in DOMAIN v /\ v[p].item = k /\ Valid(v, p)
    BY <2>2 DEF Position
  <2> QED
    BY <1>1, <2>3 DEF ValidFrom
<1>3. /\ d.values = [v EXCEPT ![p].isValid = FALSE] /\ d.nRemoved = c.nRemoved + 1
      /\ d.innerMap = c.innerMap \ {k} /\ d.index = c.index /\ d.due = OtherThan(c.due, k)
  BY <1>1 DEF remove, removeElement, Collection
<1>3a. d.values = w
  BY <1>3
<1>3b. d = [values |-> d.values, nRemoved |-> d.nRemoved, innerMap |-> d.innerMap, index |-> d.index, due |-> d.due]
  BY <1>1 DEF remove, removeElement, Collection
<1> HIDE DEF p
<1>4. w \in Seq(Element) /\ Len(w) = n /\ (\A i \in 1..n : w[i].item = v[i].item /\ (i # p => w[i] = v[i])) /\ ~w[p].isValid
  <2>1. x \in Element /\ x.item = v[p].item /\ ~x.isValid
    BY <1>2 DEF Element
  <2> HIDE DEF x
  <2>2. w \in Seq(Element) /\ Len(w) = n /\ \A i \in 1..n : w[i] = IF i = p THEN x ELSE v[i]
    BY <1>1, <1>2, <2>1, ExceptSeq
  <2> QED
    BY <1>2, <2>1, <2>2
<1> HIDE DEF w
<1>5. Items(w) = Items(v)
  BY <1>1, <1>4 DEF Items
<1>6. ASSUME NEW f \in Nat \ {0}
      PROVE  ValidFrom(w, f) = ValidFrom(v, f) \ {p}
  BY <1>1, <1>2, <1>4 DEF ValidFrom, Valid
<1>7. ASSUME NEW f \in Nat \ {0}
      PROVE  /\ ValidFrom(v, f) \in SUBSET Nat /\ IsFiniteSet(ValidFrom(v, f))
             /\ ValidFrom(v, f) \subseteq ValidFrom(v, 1) /\ ValidFrom(v, f) \in SUBSET (1..n)
  BY <1>1, <1>7, ValidPositions
<1>8. ValidFrom(w, 1) = ValidFrom(v, 1) \ {p}
  BY <1>6
<1>9. c.nRemoved + 1 = Len(w) - Cardinality(ValidFrom(w, 1))
  <2>1. IsFiniteSet(ValidFrom(v, 1)) /\ Cardinality(ValidFrom(v, 1)) \in Nat
    BY <1>7, FS_CardinalityType
  <2>2. Cardinality(ValidFrom(v, 1) \ {p}) = Cardinality(ValidFrom(v, 1)) - 1
    BY <2>1, <1>2, FS_RemoveElement
  <2> DEFINE q == Cardinality(ValidFrom(v, 1))
  <2>3. Cardinality(ValidFrom(w, 1)) = q - 1 /\ Len(w) = n /\ c.nRemoved = n - q /\ q \in Nat /\ n \in Nat
    BY <1>1, <1>4, <1>8, <2>1, <2>2
  <2> HIDE DEF q, c, n
  <2> QED
    BY <2>3
<1>10. ArrayIsOf(w, c.innerMap \ {k})
  <2> DEFINE V == ValidFrom(v, 1)
  <2>1. \A i \in V : w[i].item = v[i].item
    BY <1>4, <1>7
  <2>2. \A i \in V : i # p <=> v[i].item # k
    BY <1>1, <1>2
  <2>3. c.innerMap = {v[i].item : i \in V} /\ \A i, j \in V : v[i].item = v[j].item => i = j
    BY <1>1
  <2> HIDE DEF V
  <2>4. c.innerMap \ {k} = {w[i].item : i \in V \ {p}}
    BY <2>1, <2>2, <2>3
  <2>5. \A i, j \in V \ {p} : w[i].item = w[j].item => i = j
    BY <2>1, <2>3
  <2> QED
    BY <2>4, <2>5, <1>8 DEF ArrayIsOf, V
<1>11. ASSUME NEW s \in Seq(Ids)
       PROVE  OtherThan(s, k) \in Seq(Ids)
  <2>1. Len(s) \in Nat /\ \A i \in 1..Len(s) : i \in DOMAIN s /\ s[i] \in Ids
    BY <1>11
  <2>2. IsFiniteSet(1..Len(s))
    BY <2>1, CountTo
  <2> DEFINE P == {i \in DOMAIN s : s[i] # k}
  <2>3. P \in SUBSET (1..Len(s)) /\ P \in SUBSET Nat
    BY <2>1
  <2>4. IsFiniteSet(P)
    BY <2>2, <2>3, FS_Subset
  <2>5. \A i \in P : s[i] \in Ids
    BY <2>1, <2>3
  <2> HIDE DEF P
  <2>6. Pick(s, P) \in Seq(Ids)
    BY <2>3, <2>4, <2>5, PickIs
  <2> QED
    BY <2>6 DEF OtherThan, P
<1>12. d \in Collection
  <2>1. OtherThan(c.due, k) \in Seq(Ids)
    BY <1>1, <1>11 DEF Collection
  <2>2. c.innerMap \ {k} \in SUBSET Ids /\ c.nRemoved + 1 \in Nat
    BY <1>1 DEF Collection
  <2> QED
    BY <1>1, <1>3, <1>3a, <1>3b, <1>4, <2>1, <2>2 DEF Collection
<1>13. ASSUME c.index # NoLoop
       PROVE  OtherThan(c.due, k) = Items(Remaining(d))
  <2> DEFINE P == ValidFrom(v, c.index)
             Q == P \ {p}
  <2>1. c.index \in Nat \ {0}
    BY <1>1, <1>13 DEF NoLoop
  <2>2. P \in SUBSET Nat /\ IsFiniteSet(P) /\ P \subseteq ValidFrom(v, 1) /\ P \in SUBSET (1..n)
    BY <2>1, <1>7
  <2>3. ValidFrom(w, c.index) = Q
    BY <2>1, <1>6
  <2>4. Remaining(d) = Pick(w, Q) /\ Remaining(c) = Pick(v, P)
    BY <1>3, <1>3a, <2>3 DEF Remaining
  <2>5. \A i \in P : i # p <=> v[i].item # k
    BY <1>1, <1>2, <2>2
  <2> HIDE DEF P
  <2>6. Q \in SUBSET (1..n) /\ IsFiniteSet(Q) /\ Q \in SUBSET P
    BY <2>2, FS_RemoveElement
  <2>7. Items(Remaining(d)) = Pick(Items(v), Q)
    BY <1>4, <1>5, <2>4, <2>6, ItemsPicked
  <2>8. /\ Items(Remaining(c)) = Pick(Items(v), P) /\ DOMAIN Pick(Items(v), P) = 1..Cardinality(P)
        /\ \A r \in 1..Cardinality(P) : Nth(P, r) \in P /\ Pick(Items(v), P)[r] = v[Nth(P, r)].item
    BY <1>1, <2>2, <2>4, ItemsPicked
  <2>9. c.due = Pick(Items(v), P)
    BY <1>13, <2>8 DEF CollectionOK
  <2> DEFINE R == {r \in 1..Cardinality(P) : Nth(P, r) \in Q}
  <2>10. {r \in DOMAIN c.due : c.due[r] # k} = R
    BY <2>5, <2>8, <2>9
  <2>11. Pick(Pick(Items(v), P), R) = Pick(Items(v), Q)
    BY <2>2, <2>6, PickAgain
  <2> QED
    BY <2>7, <2>9, <2>10, <2>11 DEF OtherThan
<1>14. d.index <= Len(w) + 1
  BY <1>1, <1>3, <1>4
<1> QED
  BY <1>3, <1>3a, <1>9, <1>10, <1>12, <1>13, <1>14 DEF CollectionOK

(* A loop begins by owing a visit to all that is there.                       *)
LEMMA IteratorKeeps ==
  ASSUME CollectionOK(coll), iterator
  PROVE  CollectionOK(coll')
<1> DEFINE c == coll
           v == c.values
           d == coll'
<1>1. v \in Seq(Element) /\ Len(v) \in Nat /\ c \in Collection
  BY DEF CollectionOK, Collection
<1>2. /\ d.values = v /\ d.nRemoved = c.nRemoved /\ d.innerMap = c.innerMap /\ d.index = 1 /\ d.due = Live(v)
      /\ d = [values |-> d.values, nRemoved |-> d.nRemoved, innerMap |-> d.innerMap, index |-> d.index, due |-> d.due]
  BY <1>1 DEF iterator, Collection
<1>3. Live(v) \in Seq(Ids)
  <2> DEFINE V == ValidFrom(v, 1)
  <2>1. V \in SUBSET (1..Len(v)) /\ IsFiniteSet(V)
    BY <1>1, ValidPositions
  <2> HIDE DEF V
  <2>2. Items(Pick(v, V)) \in Seq(Ids)
    BY <1>1, <2>1, ItemsPicked
  <2> QED
    BY <2>2 DEF Live, copy, V
<1>4. d \in Collection
  BY <1>1, <1>2, <1>3 DEF Collection
<1>5. d.due = Items(Remaining(d))
  BY <1>2 DEF Live, copy, Remaining
<1> QED
  BY <1>1, <1>2, <1>4, <1>5 DEF CollectionOK

(* A loop visits the first of what is due, and goes on behind it.             *)
LEMMA NextKeeps ==
  ASSUME CollectionOK(coll), next
  PROVE  CollectionOK(coll')
<1> DEFINE c == coll
           v == c.values
           n == Len(v)
           d == coll'
           P == ValidFrom(v, c.index)
           m == Nth(P, 1)
           Q == P \ {m}
<1>1. v \in Seq(Element) /\ n \in Nat /\ c \in Collection /\ c.index \in Nat \ {0} /\ P # {}
  BY DEF CollectionOK, Collection, next, NoLoop, hasNext
<1>2. P \in SUBSET Nat /\ IsFiniteSet(P) /\ P \in SUBSET (1..n)
  BY <1>1, ValidPositions
<1>3. /\ d.values = v /\ d.nRemoved = c.nRemoved /\ d.innerMap = c.innerMap /\ d.index = m + 1 /\ d.due = Tail(c.due)
      /\ d = [values |-> d.values, nRemoved |-> d.nRemoved, innerMap |-> d.innerMap, index |-> d.index, due |-> d.due]
  BY <1>1 DEF next, Collection
<1>4. ValidFrom(v, c.index) = P /\ c.due = Items(Remaining(c)) /\ Remaining(c) = Pick(v, P)
  BY <1>1 DEF CollectionOK, Remaining, NoLoop
<1>5. \A i \in Nat : i \in P <=> i >= c.index /\ i <= n /\ Valid(v, i)
  BY <1>1 DEF ValidFrom
<1> HIDE DEF P
<1>6. m \in P /\ (\A h \in P : m <= h) /\ m \in 1..n
  BY <1>1, <1>2, NthFirst
<1> HIDE DEF m
<1>7. ValidFrom(v, m + 1) = Q
  <2>1. ASSUME NEW i \in Nat
        PROVE  i \in ValidFrom(v, m + 1) <=> i >= m + 1 /\ i <= n /\ Valid(v, i)
    BY <1>1, <1>6 DEF ValidFrom
  <2>2. ASSUME NEW i \in Nat
        PROVE  i \in ValidFrom(v, m + 1) <=> i \in Q
    BY <1>1, <1>2, <1>5, <1>6, <2>1
  <2>3. ValidFrom(v, m + 1) \subseteq Nat
    BY <1>6 DEF ValidFrom
  <2> QED
    BY <2>2, <2>3, <1>2
<1>8. Remaining(d) = Pick(v, Q)
  BY <1>3, <1>7 DEF Remaining
<1>9. /\ c.due = Pick(Items(v), P) /\ c.due \in Seq(Ids)
  BY <1>1, <1>2, <1>4, ItemsPicked
<1>10. Q \in SUBSET (1..n) /\ IsFiniteSet(Q)
  BY <1>2, FS_RemoveElement
<1>11. Items(Remaining(d)) = Pick(Items(v), Q)
  BY <1>1, <1>8, <1>10, ItemsPicked
<1>12. ASSUME NEW i \in P
       PROVE  Items(v)[i] \in Ids
  <2>1. i \in DOMAIN v /\ v[i] \in Element
    BY <1>1, <1>2
  <2> QED
    BY <2>1 DEF Items, Element
<1>13. Pick(Items(v), Q) = Tail(Pick(Items(v), P)) /\ Pick(Items(v), P) # <<>>
  BY <1>1, <1>2, <1>12, PickRest DEF m
<1>14. d.due = Items(Remaining(d))
  BY <1>3, <1>9, <1>11, <1>13
<1>15. d.due \in Seq(Ids)
  BY <1>3, <1>9, <1>13, HeadTailProperties
<1>16. d \in Collection
  <2>1. d.index \in Nat
    BY <1>1, <1>3, <1>6
  <2> QED
    BY <1>1, <1>3, <1>15, <2>1 DEF Collection
<1>17. d.index <= Len(d.values) + 1
  BY <1>1, <1>3, <1>6
<1> QED
  BY <1>3, <1>14, <1>16, <1>17 DEF CollectionOK

(* A compacted array has the valid elements and no others.                    *)
LEMMA CompactKeeps ==
  ASSUME NEW c \in Collection, c.index = NoLoop, NEW d, d = compact(c),
         c.nRemoved = Len(c.values) - Cardinality(ValidFrom(c.values, 1)), ArrayIsOf(c.values, c.innerMap)
  PROVE  CollectionOK(d)
<1> DEFINE v == c.values
           V == ValidFrom(v, 1)
           n == Cardinality(V)
           w == copy(v)
<1>1. v \in Seq(Element) /\ Len(v) \in Nat /\ c.index = 0
  BY DEF Collection, NoLoop
<1>2. CASE 2 * c.nRemoved <= Len(v)
  <2>1. d = c
    BY <1>1, <1>2 DEF compact, Collection
  <2> QED
    BY <1>1, <2>1 DEF CollectionOK, NoLoop
<1>3. CASE 2 * c.nRemoved > Len(v)
  <2>1. /\ d.values = w /\ d.nRemoved = 0 /\ d.innerMap = c.innerMap /\ d.index = c.index /\ d.due = c.due
        /\ d = [values |-> d.values, nRemoved |-> d.nRemoved, innerMap |-> d.innerMap, index |-> d.index, due |-> d.due]
    BY <1>3 DEF compact, Collection
  <2>2. /\ V \in SUBSET Nat /\ IsFiniteSet(V) /\ V \in SUBSET (1..Len(v)) /\ \A i \in V : v[i] \in Element
        /\ \A i \in V : v[i].isValid
    <3>1. V \in SUBSET Nat /\ IsFiniteSet(V) /\ \A i \in V : i \in 1..Len(v) /\ v[i] \in Element
      BY <1>1, ValidPositions
    <3>2. \A i \in V : v[i].isValid
      BY DEF ValidFrom, Valid
    <3> QED
      BY <3>1, <3>2
  <2>3. V = ValidFrom(v, 1)
    OBVIOUS
  <2>4. w = Pick(v, V)
    BY DEF copy
  <2>5. /\ \A i, j \in V : v[i].item = v[j].item => i = j
        /\ c.innerMap = {v[i].item : i \in V}
    BY DEF ArrayIsOf
  <2> HIDE DEF V, w
  <2>6. w \in Seq(Element) /\ Len(w) = n /\ \A r \in 1..n : w[r] = v[Nth(V, r)]
    BY <2>2, <2>4, PickIs
  <2>7. /\ n \in Nat /\ \A r \in 1..n : Nth(V, r) \in V /\ PlaceIn(V, Nth(V, r)) = r
        /\ \A i \in V : PlaceIn(V, i) \in 1..n /\ Nth(V, PlaceIn(V, i)) = i
    BY <2>2, NthIs
  <2> HIDE DEF n
  <2>8. \A r \in 1..n : w[r].isValid
    BY <2>2, <2>6, <2>7
  <2>9. ValidFrom(w, 1) = 1..n
    BY <2>6, <2>7, <2>8 DEF ValidFrom, Valid
  <2>10. Cardinality(1..n) = n
    BY <2>7, CountTo
  <2>11. ASSUME NEW r \in 1..n, NEW t \in 1..n, w[r].item = w[t].item
         PROVE  r = t
    <3>1. v[Nth(V, r)].item = v[Nth(V, t)].item
      BY <2>6, <2>11
    <3>2. Nth(V, r) = Nth(V, t)
      BY <2>5, <2>7, <3>1
    <3> QED
      BY <2>7, <3>2
  <2>12. c.innerMap = {w[r].item : r \in 1..n}
    <3>1. \A r \in 1..n : w[r].item \in c.innerMap
      BY <2>5, <2>6, <2>7
    <3>2. ASSUME NEW i \in V
          PROVE  \E r \in 1..n : w[r].item = v[i].item
      BY <2>6, <2>7
    <3> QED
      BY <2>5, <3>1, <3>2
  <2>13. ArrayIsOf(w, c.innerMap)
    BY <2>9, <2>11, <2>12 DEF ArrayIsOf
  <2>14. d \in Collection
    BY <2>1, <2>6 DEF Collection
  <2>15. d.nRemoved = Len(d.values) - Cardinality(ValidFrom(d.values, 1))
    BY <2>1, <2>6, <2>7, <2>9, <2>10
  <2>16. d.index = NoLoop /\ d.index <= Len(d.values) + 1
    BY <1>1, <2>1, <2>6, <2>7 DEF NoLoop
  <2> QED
    BY <2>1, <2>13, <2>14, <2>15, <2>16 DEF CollectionOK
<1>4. c.nRemoved \in Nat
  BY DEF Collection
<1> QED
  BY <1>1, <1>2, <1>3, <1>4

(* At the end of a loop the array may be compacted.                           *)
LEMMA EndOfLoopKeeps ==
  ASSUME CollectionOK(coll), EndOfLoop
  PROVE  CollectionOK(coll')
<1> DEFINE c == [coll EXCEPT !.index = NoLoop, !.due = <<>>]
<1>1. /\ c \in Collection /\ c.index = NoLoop /\ c.values = coll.values /\ c.nRemoved = coll.nRemoved
      /\ c.innerMap = coll.innerMap
  <2>1. coll \in Collection
    BY DEF CollectionOK
  <2>2. <<>> \in Seq(Ids)
    OBVIOUS
  <2> QED
    BY <2>1, <2>2 DEF Collection, NoLoop
<1>2. coll' = compact(c)
  BY DEF EndOfLoop
<1>3. coll.nRemoved = Len(coll.values) - Cardinality(ValidFrom(coll.values, 1)) /\ ArrayIsOf(coll.values, coll.innerMap)
  BY DEF CollectionOK
<1> HIDE DEF c
<1> QED
  BY <1>1, <1>2, <1>3, CompactKeeps

LEMMA CollectionsInitOK ==
  ASSUME CollectionsInit
  PROVE  CollectionOK(coll)
<1>1. /\ coll.values = <<>> /\ coll.nRemoved = 0 /\ coll.innerMap = {} /\ coll.index = 0 /\ coll \in Collection
  BY DEF CollectionsInit, Collection, NoLoop
<1>2. ValidFrom(<<>>, 1) = {}
  BY DEF ValidFrom
<1>3. Cardinality({}) = 0
  BY FS_EmptySet
<1>4. ArrayIsOf(coll.values, coll.innerMap)
  BY <1>1, <1>2 DEF ArrayIsOf
<1>5. Len(coll.values) = 0 /\ Cardinality(ValidFrom(coll.values, 1)) = 0
  BY <1>1, <1>2, <1>3
<1> QED
  BY <1>1, <1>4, <1>5 DEF CollectionOK, NoLoop

LEMMA CollectionsNextOK ==
  ASSUME CollectionOK(coll), CollectionsNext
  PROVE  CollectionOK(coll')
BY SetKeeps, RemoveKeeps, IteratorKeeps, NextKeeps, EndOfLoopKeeps DEF CollectionsNext

-----------------------------------------------------------------------------
(* Methods. A name that is still to be copied, and two names of one method.   *)
ToCopy(c, n) == \E p \in 1..Len(c.left) : c.left[p] = n
OneMethod(c, i, n) == i # n /\ c.sup[i] = c.sup[n] /\ c.sup[n] # NoMethod

Class ==
    [sup : [MethodNames -> {0, 1, 2}], sub : [MethodNames -> {0, 1, 2, 11, 12}], own : [MethodNames -> {0, 11, 12}],
     order : Seq(MethodNames), checks : BOOLEAN, left : Seq(MethodNames), light : BOOLEAN, super : BOOLEAN]

(* What is so of the two classes: no method has three names, and none that is *)
(* redefined under one is another method of the same class under the other.   *)
ClassesFit(c) ==
    /\ \A n \in MethodNames : c.sup[n] # NoMethod => \E p \in 1..Len(c.order) : c.order[p] = n
    /\ \A p, q \in 1..Len(c.left) : c.left[p] = c.left[q] => p = q
    /\ \A p \in 1..Len(c.left) : c.sup[c.left[p]] # NoMethod
    /\ \A i, j, n \in MethodNames : OneMethod(c, i, n) /\ OneMethod(c, j, n) => i = j
    /\ c.checks => \A i, n \in MethodNames :
          OneMethod(c, i, n) => c.own[i] = c.own[n] \/ c.own[i] = NoMethod \/ c.own[n] = NoMethod

(* The inductive invariant of the copy: of two names of a method, what the    *)
(* one that was copied first has is what the other will have, or the class    *)
(* had neither of its own until the other turned up.                          *)
CopiedSoFar(c) ==
    /\ \A n \in MethodNames : c.own[n] # NoMethod => c.sub[n] = c.own[n]
    /\ \A n \in MethodNames : c.sup[n] # NoMethod /\ ~ToCopy(c, n) => c.sub[n] # NoMethod
    /\ c.checks => \A i, n \in MethodNames : OneMethod(c, i, n) =>
          /\ ~ToCopy(c, n) /\ ~ToCopy(c, i) => c.sub[n] = c.sub[i]
          /\ ~ToCopy(c, n) /\ ToCopy(c, i) =>
                c.sub[i] = c.sub[n] \/ (c.sub[n] = c.sup[n] /\ c.own[n] = NoMethod /\ c.sub[i] = c.own[i])
          /\ ToCopy(c, n) /\ ToCopy(c, i) => c.sub[n] = c.own[n]

ClassesOK(c) == c \in Class /\ ClassesFit(c) /\ CopiedSoFar(c)

LEMMA ClassesPromise ==
  ASSUME ClassesOK(classes)
  PROVE  MethodsInherited
<1> SUFFICES ASSUME classes.left = <<>>, NEW n \in MethodNames
             PROVE  /\ classes.sup[n] # NoMethod => classes.sub[n] # NoMethod
                    /\ classes.own[n] # NoMethod => classes.sub[n] = classes.own[n]
                    /\ classes.checks => \A i \in MethodNames :
                          classes.sup[n] = classes.sup[i] /\ classes.sup[n] # NoMethod => classes.sub[n] = classes.sub[i]
  BY DEF MethodsInherited
<1>1. \A i : ~ToCopy(classes, i)
  BY DEF ToCopy
<1> QED
  BY <1>1 DEF ClassesOK, CopiedSoFar, OneMethod

(* The other name that is found is one, and none is found only where there is *)
(* none.                                                                      *)
LEMMA AliasIs ==
  ASSUME NEW c \in Class, NEW i \in MethodNames
  PROVE  /\ searchAlias(c, i) # 0 =>
              /\ searchAlias(c, i) \in 1..Len(c.order)
              /\ c.order[searchAlias(c, i)] # i /\ c.sup[c.order[searchAlias(c, i)]] = c.sup[i]
         /\ searchAlias(c, i) = 0 =>
              \A p \in 1..Len(c.order) : c.order[p] = i \/ c.sup[c.order[p]] # c.sup[i]
<1> DEFINE I == {p \in 1..Len(c.order) : c.order[p] # i /\ c.sup[c.order[p]] = c.sup[i]}
<1>1. Len(c.order) \in Nat
  BY DEF Class
<1>2. searchAlias(c, i) = IF I # {} THEN Min(I) ELSE 0
  BY DEF searchAlias, SelectInSeq
<1>3. I \in SUBSET Nat /\ IsFiniteSet(I)
  <2>1. IsFiniteSet(1..Len(c.order)) /\ I \in SUBSET (1..Len(c.order))
    BY <1>1, CountTo
  <2> QED
    BY <1>1, <2>1, FS_Subset
<1>4. I # {} => Min(I) \in I /\ Min(I) # 0
  <2> SUFFICES ASSUME I # {} PROVE Min(I) \in I /\ Min(I) # 0
    OBVIOUS
  <2> HIDE DEF I
  <2>1. Nth(I, 1) \in I /\ \A p \in I : Nth(I, 1) <= p
    BY <1>3, NthFirst
  <2>2. Min(I) \in I
    BY <2>1 DEF Min
  <2> USE DEF I
  <2>3. \A p \in I : p # 0
    BY <1>1
  <2> QED
    BY <2>2, <2>3
<1> QED
  BY <1>2, <1>4

(* What the copy of one method changes.                                       *)
LEMMA CopyIs ==
  ASSUME NEW c \in Class, NEW i \in MethodNames, ClassesFit(c), c.sup[i] # NoMethod
  PROVE  /\ CopyMethod(c, i) \in Class
         /\ \E s \in [MethodNames -> {0, 1, 2, 11, 12}] :
              /\ CopyMethod(c, i) = [c EXCEPT !.sub = s]
              /\ \/ c.sub[i] = NoMethod /\ s = [c.sub EXCEPT ![i] = c.sup[i]]
                 \/ /\ c.sub[i] # NoMethod /\ s = c.sub
                    /\ c.checks => \A n \in MethodNames : ~OneMethod(c, n, i)
                 \/ /\ c.sub[i] # NoMethod /\ c.checks
                    /\ \E n \in MethodNames : OneMethod(c, n, i) /\ s = [c.sub EXCEPT ![n] = c.sub[i]]
<1> DEFINE a == searchAlias(c, i)
           j == c.order[a]
           F == [MethodNames -> {0, 1, 2, 11, 12}]
<1>1. c.sub \in F /\ c.sup \in [MethodNames -> {0, 1, 2}] /\ c.order \in Seq(MethodNames)
  BY DEF Class
<1>2. /\ a # 0 => a \in 1..Len(c.order) /\ j # i /\ c.sup[j] = c.sup[i]
      /\ a = 0 => \A p \in 1..Len(c.order) : c.order[p] = i \/ c.sup[c.order[p]] # c.sup[i]
  BY AliasIs
<1>3. ASSUME NEW s \in F
      PROVE  [c EXCEPT !.sub = s] \in Class
  BY DEF Class
<1> HIDE DEF a
<1>4. CASE c.sub[i] = NoMethod
  <2> DEFINE s == [c.sub EXCEPT ![i] = c.sup[i]]
  <2>1. s \in F
    BY <1>1
  <2>2. CopyMethod(c, i) = [c EXCEPT !.sub[i] = c.sup[i]]
    BY <1>4 DEF CopyMethod, HasMethod
  <2>3. CopyMethod(c, i) = [c EXCEPT !.sub = s]
    BY <2>2
  <2> HIDE DEF s
  <2>4. CopyMethod(c, i) \in Class
    BY <2>1, <2>3, <1>3
  <2> QED
    BY <2>1, <2>3, <2>4, <1>4 DEF s
<1>5. CASE c.sub[i] # NoMethod /\ ~(c.checks /\ a # 0)
  <2>1. CopyMethod(c, i) = c
    BY <1>5 DEF CopyMethod, HasMethod, a
  <2>2. c = [c EXCEPT !.sub = c.sub]
    BY DEF Class
  <2>3. c.checks => \A n \in MethodNames : ~OneMethod(c, n, i)
    <3> SUFFICES ASSUME c.checks, NEW n \in MethodNames, OneMethod(c, n, i)
                 PROVE  FALSE
      OBVIOUS
    <3>1. n # i /\ c.sup[n] = c.sup[i] /\ c.sup[n] # NoMethod
      BY DEF OneMethod
    <3>2. PICK p \in 1..Len(c.order) : c.order[p] = n
      BY <3>1 DEF ClassesFit
    <3> QED
      BY <1>2, <1>5, <3>1, <3>2
  <2> QED
    BY <1>1, <1>5, <2>1, <2>2, <2>3
<1>6. CASE c.sub[i] # NoMethod /\ c.checks /\ a # 0
  <2>1. j \in MethodNames /\ OneMethod(c, j, i)
    BY <1>1, <1>2, <1>6 DEF OneMethod
  <2>2. CopyMethod(c, i) = [c EXCEPT !.sub[j] = c.sub[i]]
    BY <1>6 DEF CopyMethod, HasMethod, a
  <2> HIDE DEF j
  <2> DEFINE s == [c.sub EXCEPT ![j] = c.sub[i]]
  <2>3. s \in F
    BY <1>1, <2>1
  <2>4. CopyMethod(c, i) = [c EXCEPT !.sub = s]
    BY <2>2
  <2> HIDE DEF s
  <2>5. CopyMethod(c, i) \in Class
    BY <2>3, <2>4, <1>3
  <2> QED
    BY <2>1, <2>3, <2>4, <2>5, <1>6 DEF s
<1> QED
  BY <1>4, <1>5, <1>6

(* A name that is copied is the first of those that were to be copied.        *)
LEMMA CopyOneKeeps ==
  ASSUME ClassesOK(classes), InheritOne
  PROVE  ClassesOK(classes')
<1> DEFINE b == classes
           c == [b EXCEPT !.left = Tail(@)]
           i == Head(b.left)
           d == classes'
<1>1. b \in Class /\ b.left \in Seq(MethodNames) /\ b.left # <<>> /\ d = CopyMethod(c, i)
  BY DEF ClassesOK, Class, InheritOne
<1>2. /\ i \in MethodNames /\ Tail(b.left) \in Seq(MethodNames) /\ Len(Tail(b.left)) = Len(b.left) - 1
      /\ \A p \in 1..Len(Tail(b.left)) : Tail(b.left)[p] = b.left[p + 1]
  BY <1>1, HeadTailProperties
<1>3. Len(b.left) \in Nat /\ Len(b.left) >= 1 /\ i = b.left[1]
  BY <1>1
<1>4. /\ c \in Class /\ c.sup = b.sup /\ c.sub = b.sub /\ c.own = b.own /\ c.order = b.order /\ c.checks = b.checks
      /\ c.left = Tail(b.left)
  BY <1>1, <1>2 DEF Class
<1> HIDE DEF c, i
<1>5. /\ \A p, q \in 1..Len(b.left) : b.left[p] = b.left[q] => p = q
      /\ \A p \in 1..Len(b.left) : b.sup[b.left[p]] # NoMethod
  BY DEF ClassesOK, ClassesFit
<1>6. \A p \in 1..Len(c.left) : p + 1 \in 1..Len(b.left) /\ c.left[p] = b.left[p + 1] /\ p + 1 # 1
  BY <1>2, <1>3, <1>4
<1>7. \A n : ToCopy(c, n) <=> ToCopy(b, n) /\ n # i
  <2> TAKE n
  <2>1. ASSUME ToCopy(c, n)
        PROVE  ToCopy(b, n) /\ n # i
    <3>1. PICK p \in 1..Len(c.left) : c.left[p] = n
      BY <2>1 DEF ToCopy
    <3>2. 1 \in 1..Len(b.left)
      BY <1>3
    <3> QED
      BY <3>1, <3>2, <1>3, <1>5, <1>6 DEF ToCopy
  <2>2. ASSUME ToCopy(b, n), n # i
        PROVE  ToCopy(c, n)
    <3>1. PICK p \in 1..Len(b.left) : b.left[p] = n
      BY <2>2 DEF ToCopy
    <3>2. p # 1
      BY <2>2, <3>1, <1>3
    <3>3. p - 1 \in 1..Len(c.left) /\ p - 1 + 1 = p
      BY <3>1, <3>2, <1>2, <1>3, <1>4
    <3>4. c.left[p - 1] = n
      BY <3>1, <3>3, <1>6
    <3> QED
      BY <3>3, <3>4 DEF ToCopy
  <2> QED
    BY <2>1, <2>2
<1>8. ToCopy(b, i) /\ b.sup[i] # NoMethod
  <2>1. 1 \in 1..Len(b.left)
    BY <1>3
  <2> QED
    BY <2>1, <1>3, <1>5 DEF ToCopy
<1>9. \A x, y : OneMethod(c, x, y) <=> OneMethod(b, x, y)
  BY <1>4 DEF OneMethod
<1>10. ClassesFit(c)
  <2>1. \A p, q \in 1..Len(c.left) : c.left[p] = c.left[q] => p = q
    <3> SUFFICES ASSUME NEW p \in 1..Len(c.left), NEW q \in 1..Len(c.left), c.left[p] = c.left[q]
                 PROVE  p = q
      OBVIOUS
    <3>1. p + 1 = q + 1
      BY <1>5, <1>6
    <3> QED
      BY <3>1
  <2>2. \A p \in 1..Len(c.left) : c.sup[c.left[p]] # NoMethod
    BY <1>4, <1>5, <1>6
  <2> QED
    BY <2>1, <2>2, <1>4, <1>9 DEF ClassesOK, ClassesFit
<1>11. PICK s \in [MethodNames -> {0, 1, 2, 11, 12}] :
         /\ d = [c EXCEPT !.sub = s]
         /\ \/ c.sub[i] = NoMethod /\ s = [c.sub EXCEPT ![i] = c.sup[i]]
            \/ /\ c.sub[i] # NoMethod /\ s = c.sub
               /\ c.checks => \A n \in MethodNames : ~OneMethod(c, n, i)
            \/ /\ c.sub[i] # NoMethod /\ c.checks
               /\ \E n \in MethodNames : OneMethod(c, n, i) /\ s = [c.sub EXCEPT ![n] = c.sub[i]]
  BY <1>1, <1>2, <1>4, <1>8, <1>10, CopyIs
<1>12. d \in Class
  BY <1>1, <1>2, <1>4, <1>8, <1>10, CopyIs
<1>13. /\ d.sup = b.sup /\ d.sub = s /\ d.own = b.own /\ d.order = b.order /\ d.checks = b.checks
       /\ d.left = c.left
  BY <1>4, <1>11 DEF Class
<1>14. /\ \A x, y : OneMethod(d, x, y) <=> OneMethod(b, x, y)
       /\ \A n : ToCopy(d, n) <=> ToCopy(b, n) /\ n # i
  BY <1>7, <1>13 DEF OneMethod, ToCopy
<1>15. ClassesFit(d)
  BY <1>4, <1>9, <1>10, <1>13, <1>14 DEF ClassesFit
<1>16. CopiedSoFar(d)
  <2>1. b.sub \in [MethodNames -> {0, 1, 2, 11, 12}] /\ b.sup \in [MethodNames -> {0, 1, 2}]
    BY <1>1 DEF Class
  <2>2. \A n \in MethodNames : b.own[n] # NoMethod => b.sub[n] = b.own[n]
    BY DEF ClassesOK, CopiedSoFar
  <2>3. \A n \in MethodNames : b.sup[n] # NoMethod /\ ~ToCopy(b, n) => b.sub[n] # NoMethod
    BY DEF ClassesOK, CopiedSoFar
  <2>4. b.checks => \A x, n \in MethodNames : OneMethod(b, x, n) =>
          /\ ~ToCopy(b, n) /\ ~ToCopy(b, x) => b.sub[n] = b.sub[x]
          /\ ~ToCopy(b, n) /\ ToCopy(b, x) =>
                b.sub[x] = b.sub[n] \/ (b.sub[n] = b.sup[n] /\ b.own[n] = NoMethod /\ b.sub[x] = b.own[x])
          /\ ToCopy(b, n) /\ ToCopy(b, x) => b.sub[n] = b.own[n]
    BY DEF ClassesOK, CopiedSoFar
  <2>5. /\ \A x, y, n \in MethodNames : OneMethod(b, x, n) /\ OneMethod(b, y, n) => x = y
        /\ b.checks => \A x, n \in MethodNames :
              OneMethod(b, x, n) => b.own[x] = b.own[n] \/ b.own[x] = NoMethod \/ b.own[n] = NoMethod
    BY DEF ClassesOK, ClassesFit
  <2>6. \A x, n : OneMethod(b, x, n) <=> x # n /\ b.sup[x] = b.sup[n] /\ b.sup[n] # NoMethod
    BY DEF OneMethod
  <2>7. c.sub = b.sub /\ c.sup = b.sup /\ c.checks = b.checks
    BY <1>4
  <2>8. /\ \A n \in MethodNames : b.own[n] # NoMethod => s[n] = b.own[n]
        /\ \A n \in MethodNames : b.sup[n] # NoMethod /\ ~(ToCopy(b, n) /\ n # i) => s[n] # NoMethod
    <3>1. CASE b.sub[i] = NoMethod /\ s = [b.sub EXCEPT ![i] = b.sup[i]]
      BY <1>2, <1>8, <2>1, <2>2, <2>3, <3>1
    <3>2. CASE b.sub[i] # NoMethod /\ s = b.sub
      BY <1>2, <2>1, <2>2, <2>3, <3>2
    <3>3. CASE b.sub[i] # NoMethod /\ b.checks /\ \E n \in MethodNames : OneMethod(b, n, i) /\ s = [b.sub EXCEPT ![n] = b.sub[i]]
      <4>1. PICK j \in MethodNames : OneMethod(b, j, i) /\ s = [b.sub EXCEPT ![j] = b.sub[i]]
        BY <3>3
      <4>2. b.own[j] # NoMethod => b.sub[i] = b.own[j]
        <5> SUFFICES ASSUME b.own[j] # NoMethod PROVE b.sub[i] = b.own[j]
          OBVIOUS
        <5>1. b.sub[j] = b.own[j]
          BY <2>2
        <5>2. CASE b.own[i] # NoMethod
          BY <5>2, <1>2, <2>2, <2>5, <3>3, <4>1
        <5>3. CASE b.own[i] = NoMethod
          BY <5>1, <5>3, <1>2, <1>8, <2>4, <2>6, <3>3, <4>1
        <5> QED
          BY <5>2, <5>3
      <4> QED
        BY <1>2, <2>1, <2>2, <2>3, <3>3, <4>1, <4>2
    <3> QED
      BY <1>9, <1>11, <2>7, <3>1, <3>2, <3>3
  <2>9. ASSUME b.checks, NEW x \in MethodNames, NEW n \in MethodNames, OneMethod(b, x, n)
        PROVE  /\ ~(ToCopy(b, n) /\ n # i) /\ ~(ToCopy(b, x) /\ x # i) => s[n] = s[x]
               /\ ~(ToCopy(b, n) /\ n # i) /\ ToCopy(b, x) /\ x # i =>
                     s[x] = s[n] \/ (s[n] = b.sup[n] /\ b.own[n] = NoMethod /\ s[x] = b.own[x])
               /\ ToCopy(b, n) /\ n # i /\ ToCopy(b, x) /\ x # i => s[n] = b.own[n]
    <3>1. x # n /\ b.sup[x] = b.sup[n] /\ b.sup[n] # NoMethod /\ OneMethod(b, n, x)
      BY <2>6, <2>9
    <3>2. CASE b.sub[i] = NoMethod /\ s = [b.sub EXCEPT ![i] = b.sup[i]]
      <4>1. s[i] = b.sup[i] /\ (\A y \in MethodNames : y # i => s[y] = b.sub[y]) /\ b.own[i] = NoMethod
        BY <1>2, <2>1, <2>2, <3>2
      <4> QED
        BY <1>2, <1>8, <2>3, <2>4, <2>9, <3>1, <3>2, <4>1
    <3>3. CASE b.sub[i] # NoMethod /\ s = b.sub /\ \A y \in MethodNames : ~OneMethod(b, y, i)
      <4>1. x # i /\ n # i
        BY <2>9, <3>1, <3>3
      <4> QED
        BY <2>4, <2>9, <3>1, <3>3, <4>1
    <3>4. CASE b.sub[i] # NoMethod /\ b.checks /\ \E y \in MethodNames : OneMethod(b, y, i) /\ s = [b.sub EXCEPT ![y] = b.sub[i]]
      <4>1. PICK j \in MethodNames : OneMethod(b, j, i) /\ s = [b.sub EXCEPT ![j] = b.sub[i]]
        BY <3>4
      <4>2. s[j] = b.sub[i] /\ s[i] = b.sub[i] /\ (\A y \in MethodNames : y # j => s[y] = b.sub[y]) /\ i # j
        BY <1>2, <2>1, <2>6, <4>1
      <4>3. (x = i => n = j) /\ (n = i => x = j) /\ (x = j => n = i) /\ (n = j => x = i)
        BY <1>2, <2>5, <2>6, <2>9, <3>1, <4>1
      <4> QED
        BY <2>4, <2>9, <3>1, <4>2, <4>3
    <3> QED
      BY <1>9, <1>11, <2>7, <2>9, <3>2, <3>3, <3>4
  <2> QED
    BY <1>13, <1>14, <2>8, <2>9 DEF CopiedSoFar
<1> QED
  BY <1>12, <1>15, <1>16 DEF ClassesOK

(* The super class of a class being set up changes nothing of its methods.    *)
LEMMA SetUpKeeps ==
  ASSUME ClassesOK(classes), InheritLast
  PROVE  ClassesOK(classes')
<1>1. /\ classes' \in Class /\ classes'.sup = classes.sup /\ classes'.sub = classes.sub /\ classes'.own = classes.own
      /\ classes'.order = classes.order /\ classes'.checks = classes.checks /\ classes'.left = classes.left
  BY DEF ClassesOK, Class, InheritLast, SetUpSuper
<1>2. /\ \A x, y : OneMethod(classes', x, y) <=> OneMethod(classes, x, y)
      /\ \A n : ToCopy(classes', n) <=> ToCopy(classes, n)
  BY <1>1 DEF OneMethod, ToCopy
<1>3. ClassesFit(classes')
  BY <1>1, <1>2 DEF ClassesOK, ClassesFit
<1>4. CopiedSoFar(classes')
  BY <1>1, <1>2 DEF ClassesOK, CopiedSoFar
<1> QED
  BY <1>1, <1>3, <1>4 DEF ClassesOK

(* A sequence of the elements of a finite set, each once, has them all.       *)
LEMMA AllNamed ==
  ASSUME NEW S, IsFiniteSet(S), NEW names \in SetToSeqs(S)
  PROVE  /\ names \in Seq(S)
         /\ \A p, q \in 1..Len(names) : names[p] = names[q] => p = q
         /\ \A n \in S : \E p \in 1..Len(names) : names[p] = n
<1> DEFINE k == Cardinality(S)
<1>1. k \in Nat
  BY FS_CardinalityType
<1>2. names \in [1..k -> S] /\ \A p, q \in 1..k : p # q => names[p] # names[q]
  BY DEF SetToSeqs
<1>3. names \in Injection(1..k, S)
  BY <1>2 DEF Injection, IsInjective
<1>4. Cardinality(1..k) = Cardinality(S)
  BY <1>1, CountTo
<1>5. names \in Surjection(1..k, S)
  BY <1>3, <1>4, FS_Injection
<1>6. \A n \in S : \E p \in 1..k : names[p] = n
  BY <1>5 DEF Surjection
<1> HIDE DEF k
<1>7. names \in Seq(S) /\ Len(names) = k
  BY <1>1, <1>2
<1> QED
  BY <1>2, <1>6, <1>7

(* A set of less than three has no three elements.                            *)
LEMMA NoThree ==
  ASSUME NEW S, IsFiniteSet(S), Cardinality(S) < 3, NEW i \in S, NEW j \in S, NEW n \in S, i # n, j # n
  PROVE  i = j
<1>1. Cardinality(S) \in Nat
  BY FS_CardinalityType
<1> DEFINE A == S \ {n}
           B == A \ {i}
<1>2. IsFiniteSet(A) /\ Cardinality(A) = Cardinality(S) - 1
  BY FS_RemoveElement
<1>3. i \in A /\ j \in A
  OBVIOUS
<1> HIDE DEF A
<1>4. IsFiniteSet(B) /\ Cardinality(B) = Cardinality(A) - 1
  BY <1>2, <1>3, FS_RemoveElement
<1>5. i # j => j \in B
  BY <1>3
<1> HIDE DEF B
<1>6. Cardinality(B) \in Nat /\ (i # j => Cardinality(B) # 0)
  BY <1>4, <1>5, FS_EmptySet, FS_CardinalityType
<1> QED
  BY <1>1, <1>2, <1>4, <1>6

(* In the beginning nothing is copied: a class has its own methods only.      *)
LEMMA InheritInitOK ==
  ASSUME InheritInit, {"colliding_methods", "third_names"} \subseteq InheritAvoided
  PROVE  ClassesOK(classes)
<1>1. PICK w \in [MethodNames -> {0, 1, 2}], v \in [MethodNames -> {0, 11, 12}], checks \in BOOLEAN, light \in BOOLEAN :
        /\ checks => ~Collides(w, v)
        /\ \A m \in {1, 2} : Cardinality({n \in MethodNames : w[n] = m}) < 3
        /\ \E names \in SetToSeqs({n \in MethodNames : w[n] # NoMethod}) :
              classes = [sup |-> w, sub |-> v, own |-> v, order |-> names, checks |-> checks,
                         left |-> names, light |-> light, super |-> FALSE]
  <2>1. PICK w \in [MethodNames -> {0, 1, 2}], v \in [MethodNames -> {0, 11, 12}], checks, light \in BOOLEAN :
          /\ "colliding_methods" \in InheritAvoided /\ checks => ~Collides(w, v)
          /\ "third_names" \in InheritAvoided => \A m \in {1, 2} : Cardinality({n \in MethodNames : w[n] = m}) < 3
          /\ \E names \in SetToSeqs({n \in MethodNames : w[n] # NoMethod}) :
                classes = [sup |-> w, sub |-> v, own |-> v, order |-> names, checks |-> checks,
                           left |-> names, light |-> light, super |-> FALSE]
    BY DEF InheritInit
  <2>2. "colliding_methods" \in InheritAvoided /\ "third_names" \in InheritAvoided
    OBVIOUS
  <2> QED
    BY <2>1, <2>2, Zenon
<1> DEFINE S == {n \in MethodNames : w[n] # NoMethod}
<1>2. PICK names \in SetToSeqs(S) :
        classes = [sup |-> w, sub |-> v, own |-> v, order |-> names, checks |-> checks,
                   left |-> names, light |-> light, super |-> FALSE]
  BY <1>1
<1>3. S \subseteq MethodNames /\ IsFiniteSet(S) /\ (\A n \in MethodNames : n \in S <=> w[n] # NoMethod)
  BY ClassesAreFinite, FS_Subset
<1> HIDE DEF S
<1>4. /\ names \in Seq(S) /\ (\A p, q \in 1..Len(names) : names[p] = names[q] => p = q)
      /\ \A n \in S : \E p \in 1..Len(names) : names[p] = n
  BY <1>3, AllNamed
<1>5. names \in Seq(MethodNames) /\ \A p \in 1..Len(names) : names[p] \in S /\ names[p] \in MethodNames
  BY <1>3, <1>4
<1>6. classes \in Class
  BY <1>2, <1>5 DEF Class
<1>7. /\ classes.sup = w /\ classes.sub = v /\ classes.own = v /\ classes.order = names /\ classes.checks = checks
      /\ classes.left = names
  BY <1>2
<1>8. \A i, n \in MethodNames : OneMethod(classes, i, n) <=> i # n /\ w[i] = w[n] /\ w[n] # NoMethod
  BY <1>7 DEF OneMethod
<1>9. \A n \in MethodNames : w[n] # NoMethod => ToCopy(classes, n)
  BY <1>3, <1>4, <1>7 DEF ToCopy
<1>10. ASSUME NEW i \in MethodNames, NEW j \in MethodNames, NEW n \in MethodNames,
              OneMethod(classes, i, n), OneMethod(classes, j, n)
       PROVE  i = j
  <2> DEFINE T == {x \in MethodNames : w[x] = w[n]}
  <2>1. w[n] \in {1, 2} /\ i # n /\ j # n /\ w[i] = w[n] /\ w[j] = w[n]
    BY <1>8, <1>10 DEF NoMethod
  <2>2. Cardinality(T) < 3 /\ IsFiniteSet(T)
    BY <1>1, <2>1, ClassesAreFinite, FS_Subset
  <2>3. i \in T /\ j \in T /\ n \in T
    BY <2>1
  <2> HIDE DEF T
  <2> QED
    BY <2>1, <2>2, <2>3, NoThree
<1>11. ASSUME checks, NEW i \in MethodNames, NEW n \in MethodNames, OneMethod(classes, i, n)
       PROVE  v[i] = v[n] \/ v[i] = NoMethod \/ v[n] = NoMethod
  BY <1>1, <1>8, <1>11 DEF Collides
<1>12. ClassesFit(classes)
  BY <1>3, <1>4, <1>5, <1>7, <1>10, <1>11 DEF ClassesFit
<1>13. CopiedSoFar(classes)
  BY <1>7, <1>8, <1>9 DEF CopiedSoFar
<1> QED
  BY <1>6, <1>12, <1>13 DEF ClassesOK

-----------------------------------------------------------------------------
(* The inductive invariant of the two parts.                                  *)
LoopsOK ==
    /\ part = "collections" => CollectionOK(coll)
    /\ part = "classes" => ClassesOK(classes)

LEMMA LoopsStep ==
  ASSUME LoopsOK, [PartsNext]_vars
  PROVE  LoopsOK'
<1>1. CASE CollectionsStep
  <2>1. part = "collections" /\ part' = part /\ CollectionsNext
    BY <1>1 DEF CollectionsStep
  <2>2. CollectionOK(coll)
    BY <2>1 DEF LoopsOK
  <2>3. CollectionOK(coll')
    BY <2>1, <2>2, CollectionsNextOK
  <2> QED
    BY <2>1, <2>3 DEF LoopsOK
<1>2. CASE ClassesStep
  <2>1. part = "classes" /\ part' = part /\ (InheritOne \/ InheritLast)
    BY <1>2 DEF ClassesStep, InheritNext, partVars
  <2>2. ClassesOK(classes)
    BY <2>1 DEF LoopsOK
  <2>3. ClassesOK(classes')
    BY <2>1, <2>2, CopyOneKeeps, SetUpKeeps
  <2> QED
    BY <2>1, <2>3 DEF LoopsOK
<1>3. CASE UNCHANGED <<part, coll, classes>>
  BY <1>3 DEF LoopsOK
<1>4. CASE UNCHANGED vars
  BY <1>3, <1>4 DEF vars, partVars, toolVars
<1>5. CASE PartsNext /\ ~CollectionsStep /\ ~ClassesStep
  BY <1>3, <1>5 DEF PartsNext, partVars, toolVars, ChartStep, CellsStep, EventsStep, PageStep, LogsStep, StatusStep,
     ListeningStep, ScanStep, DelaysStep, BrowserStep, ColoursStep, NodesStep, ContentsStep, TicksStep, LinesStep,
     DrawingStep, CookiesStep, SimpleStep, SettingsStep
<1> QED
  BY <1>1, <1>2, <1>4, <1>5

(* LoopsAreComplete: a loop over a collection that changes meanwhile visits   *)
(* each element that is there when its turn comes, once, in order, and none   *)
(* that was removed; its array and its map have the same keys; and a class    *)
(* that was extended has each method under all its names. Classes whose       *)
(* methods collide or have three names are not covered: of those it is not    *)
(* so.                                                                        *)
THEOREM LoopsVisitAll ==
  ASSUME {"colliding_methods", "third_names"} \subseteq InheritAvoided
  PROVE  Spec => []LoopsAreComplete
<1>1. PartsInit => LoopsOK
  BY CollectionsInitOK, InheritInitOK DEF PartsInit, LoopsOK
<1>2. LoopsOK /\ [PartsNext]_vars => LoopsOK'
  BY LoopsStep
<1>3. LoopsOK => LoopsAreComplete
  BY CollectionPromises, ClassesPromise DEF LoopsOK, LoopsAreComplete
<1> QED
  BY <1>1, <1>2, <1>3, PTL DEF Spec

-----------------------------------------------------------------------------
(* Powers of two, up to the longest delay.                                    *)
LEMMA TwoToIs ==
  /\ TwoTo[0] = 1
  /\ \A n \in 1..LongestDelay : TwoTo[n] = 2 * TwoTo[n - 1]
<1> DEFINE N == LongestDelay
           one == 1
           G == [k \in 1..N |-> [x \in Nat |-> 2 * x]]
           Body(f) == [n \in 0..N |-> IF n = 0 THEN one ELSE 2 * f[n - 1]]
           powers == CHOOSE f : f = Body(f)
<1>1. N \in Nat /\ one \in Nat
  BY DelaysAssumption
<1>2. G \in [1..N -> [Nat -> Nat]]
  OBVIOUS
<1> HIDE DEF N, G, one
<1>3. PICK f \in [0..N -> Nat] : f[0] = one /\ \A k \in 1..N : f[k] = G[k][f[k - 1]]
  <2>1. Loops(N, Nat, one, G) # {}
    BY ONLY <1>1, <1>2, LoopExists
  <2> QED
    BY ONLY <2>1 DEF Loops
<1>4. f = Body(f)
  <2>1. ASSUME NEW n \in 0..N
        PROVE  f[n] = IF n = 0 THEN one ELSE 2 * f[n - 1]
    <3>1. CASE n = 0
      BY <1>3, <3>1
    <3>2. CASE n # 0
      <4>1. n \in 1..N /\ n - 1 \in 0..N
        BY <1>1, <3>2
      <4>2. f[n - 1] \in Nat
        BY <1>3, <4>1
      <4> QED
        BY <1>3, <3>2, <4>1, <4>2 DEF G
    <3> QED
      BY <3>1, <3>2
  <2> QED
    BY <1>3, <2>1
<1>5. powers = Body(powers)
  BY <1>4
<1>6. TwoTo = powers
  BY DEF TwoTo, N, one
<1> HIDE DEF powers
<1>7. TwoTo = [n \in 0..N |-> IF n = 0 THEN one ELSE 2 * TwoTo[n - 1]]
  BY <1>5, <1>6
<1> QED
  BY <1>1, <1>7 DEF N, one

(* They are at least as great as their exponent.                              *)
LEMMA TwoToGrows ==
  \A n \in 0..LongestDelay : TwoTo[n] \in Nat /\ TwoTo[n] >= n /\ TwoTo[n] >= 1
<1> DEFINE Good(n) == TwoTo[n] \in Nat /\ TwoTo[n] >= n /\ TwoTo[n] >= 1
           Wrong == {n \in 0..LongestDelay : ~Good(n)}
<1>1. LongestDelay \in Nat
  BY DelaysAssumption
<1>2. CASE Wrong # {}
  <2> DEFINE m == Nth(Wrong, 1)
  <2>1. Wrong \in SUBSET Nat /\ IsFiniteSet(Wrong)
    <3>1. IsFiniteSet(0..LongestDelay) /\ Wrong \in SUBSET (0..LongestDelay)
      BY <1>1, FS_Interval
    <3>2. IsFiniteSet(Wrong)
      BY <3>1, FS_Subset
    <3> QED
      BY <1>1, <3>1, <3>2
  <2>2. m \in Wrong /\ \A h \in Wrong : m <= h
    BY <1>2, <2>1, NthFirst
  <2> HIDE DEF m
  <2>3. m # 0
    BY <2>2, TwoToIs
  <2>4. m \in 1..LongestDelay /\ m - 1 \in 0..LongestDelay /\ m - 1 \notin Wrong
    BY <1>1, <2>2, <2>3
  <2>5. Good(m - 1) /\ TwoTo[m] = 2 * TwoTo[m - 1]
    BY <2>4, TwoToIs
  <2> QED
    BY <2>2, <2>4, <2>5
<1> QED
  BY <1>2

(* One retry more doubles the delay, or leaves it.                            *)
LEMMA DelayGrows ==
  ASSUME NEW r \in 0..(SameDelays + LongestDelay), NEW base \in Nat \ {0}
  PROVE  LET d == DelayAfter(r, base)
             after == DelayAfter(Fewest(r + 1, SameDelays + LongestDelay), base)
         IN /\ d \in Nat
            /\ after = IF r < SameDelays \/ d >= LongestDelay THEN d ELSE Fewest(2 * d, LongestDelay)
<1> DEFINE d == DelayAfter(r, base)
           n == Fewest(r + 1, SameDelays + LongestDelay)
           k == r - SameDelays
<1>1. SameDelays \in Nat /\ LongestDelay \in Nat
  BY DelaysAssumption
<1>2. CASE r < SameDelays
  <2>1. n <= SameDelays /\ r <= SameDelays
    BY <1>1, <1>2 DEF Fewest
  <2> QED
    BY <1>2, <2>1 DEF DelayAfter
<1>3. CASE r >= SameDelays
  <2> DEFINE p == TwoTo[k]
             q == base * p
  <2>1. k \in 0..LongestDelay
    BY <1>1, <1>3
  <2>2. p \in Nat /\ p >= k /\ p >= 1
    BY <2>1, TwoToGrows
  <2>3. q \in Nat /\ q >= base /\ q >= p
    <3> HIDE DEF p
    <3> QED
      BY <2>2
  <2>4. d = Most(base, Fewest(LongestDelay, q))
    <3>1. CASE r = SameDelays
      <4>1. p = 1
        BY <1>1, <3>1, TwoToIs
      <4>2. q = base
        BY <4>1
      <4>3. d = base
        BY <3>1, <1>1 DEF DelayAfter
      <4> HIDE DEF q
      <4> QED
        BY <4>2, <4>3, <1>1 DEF Most, Fewest
    <3>2. CASE r # SameDelays
      BY <1>1, <1>3, <3>2 DEF DelayAfter
    <3> QED
      BY <3>1, <3>2
  <2> HIDE DEF p
  <2>5. CASE k = LongestDelay
    <3>1. n = r
      BY <1>1, <2>5 DEF Fewest
    <3>2. q >= LongestDelay
      BY <1>1, <2>2, <2>3, <2>5
    <3> HIDE DEF q, n, d
    <3>3. d = Most(base, LongestDelay)
      BY <1>1, <2>3, <2>4, <3>2 DEF Fewest
    <3>4. d \in Nat /\ d >= LongestDelay
      BY <1>1, <3>3 DEF Most
    <3> QED
      BY <3>1, <3>4 DEF n, d
  <2>6. CASE k # LongestDelay
    <3>1. n = r + 1 /\ k + 1 \in 1..LongestDelay /\ r + 1 > SameDelays /\ (r + 1) - SameDelays = k + 1
      BY <1>1, <1>3, <2>1, <2>6 DEF Fewest
    <3>2. TwoTo[k + 1] = 2 * p
      BY <2>1, <3>1, TwoToIs DEF p
    <3>3. base * TwoTo[k + 1] = 2 * q
      BY <2>2, <3>2
    <3>4. DelayAfter(n, base) = Most(base, Fewest(LongestDelay, 2 * q))
      BY <1>1, <3>1, <3>3 DEF DelayAfter
    <3> HIDE DEF q, n, d
    <3> QED
      BY <1>1, <1>3, <2>3, <2>4, <3>4 DEF Most, Fewest, n, d
  <2> QED
    BY <2>5, <2>6
<1> QED
  BY <1>1, <1>2, <1>3

-----------------------------------------------------------------------------
(* The inductive invariant: the counter has the delay after the retries that  *)
(* were made, and a timer that is set ends that long after the attempt.       *)
DelayIsSet(d) ==
    /\ d.left > 0 /\ d.m \in {111, 112, 120, 122, 130} => d.since + d.left = d.current
    /\ d.left = 0 /\ d.m \in {111, 112} => d.since >= d.current
Retries == 0..(SameDelays + LongestDelay)
Delaying ==
    [m : Nat, attempt : Nat, current : Nat, option : Nat \ {0}, since : Nat, left : Nat \cup {NoTimer},
     base : Nat \ {0}, retries : Retries]
CounterOK(d) ==
    /\ d \in Delaying
    /\ d.attempt = Fewest(d.retries, SameDelays) + 1
    /\ d.current = DelayAfter(d.retries, d.base)
DelaysOK(d) == CounterOK(d) /\ DelayIsSet(d)

LEMMA ResetOK ==
  ASSUME NEW d, CounterOK(d)
  PROVE  CounterOK(reset(d))
<1>1. SameDelays \in Nat /\ LongestDelay \in Nat
  BY DelaysAssumption
<1>2. DelayAfter(0, d.option) = d.option /\ Fewest(0, SameDelays) = 0
  BY <1>1 DEF DelayAfter, Fewest
<1>3. d \in Delaying /\ d.option \in Nat \ {0} /\ 0 \in Retries
  BY <1>1 DEF CounterOK, Delaying, Retries
<1>4. /\ reset(d) \in Delaying /\ reset(d).attempt = 1 /\ reset(d).current = d.option
      /\ reset(d).base = d.option /\ reset(d).retries = 0
  BY <1>3 DEF reset, Delaying
<1> QED
  BY <1>2, <1>4 DEF CounterOK

LEMMA IncreaseOK ==
  ASSUME NEW d, CounterOK(d)
  PROVE  CounterOK([increase(d) EXCEPT !.retries = Fewest(@ + 1, SameDelays + LongestDelay)])
<1> DEFINE r == d.retries
           n == Fewest(r + 1, SameDelays + LongestDelay)
           e == [increase(d) EXCEPT !.retries = n]
<1>1. SameDelays \in Nat /\ LongestDelay \in Nat
  BY DelaysAssumption
<1>2. /\ r \in 0..(SameDelays + LongestDelay) /\ d.base \in Nat \ {0}
      /\ d.attempt = Fewest(r, SameDelays) + 1 /\ d.current = DelayAfter(r, d.base) /\ d.current \in Nat
  BY DEF CounterOK, Delaying, Retries
<1>3. DelayAfter(n, d.base) =
         IF r < SameDelays \/ d.current >= LongestDelay THEN d.current ELSE Fewest(2 * d.current, LongestDelay)
  BY <1>2, DelayGrows
<1>4. n \in 0..(SameDelays + LongestDelay) /\ (r < SameDelays <=> d.attempt <= SameDelays)
      /\ Fewest(n, SameDelays) = IF r < SameDelays THEN r + 1 ELSE SameDelays
  BY <1>1, <1>2 DEF Fewest
<1>5. Fewest(2 * d.current, LongestDelay) \in Nat
  BY <1>1, <1>2 DEF Fewest
<1>6. increase(d).retries = r
  BY DEF increase, CounterOK, Delaying
<1>7. e = [d EXCEPT !.retries = n, !.attempt = Fewest(n, SameDelays) + 1, !.current = DelayAfter(n, d.base)]
  <2>1. CASE d.attempt <= SameDelays
    <3>1. increase(d) = [d EXCEPT !.attempt = r + 2]
      BY <1>1, <1>2, <1>4, <2>1 DEF increase, Fewest, CounterOK, Delaying
    <3>2. Fewest(n, SameDelays) + 1 = r + 2 /\ DelayAfter(n, d.base) = d.current
      BY <1>1, <1>2, <1>3, <1>4, <2>1
    <3> HIDE DEF n, r
    <3> QED
      BY <3>1, <3>2 DEF CounterOK, Delaying
  <2>2. CASE ~(d.attempt <= SameDelays)
    <3>1. Fewest(n, SameDelays) + 1 = d.attempt /\ DelayAfter(n, d.base) =
            IF d.current >= LongestDelay THEN d.current ELSE Fewest(2 * d.current, LongestDelay)
      BY <1>1, <1>2, <1>3, <1>4, <2>2 DEF Fewest
    <3>2. increase(d) = [d EXCEPT !.current = DelayAfter(n, d.base)]
      BY <1>1, <1>2, <2>2, <3>1 DEF increase, CounterOK, Delaying
    <3> HIDE DEF n, r
    <3> QED
      BY <3>1, <3>2 DEF CounterOK, Delaying
  <2> QED
    BY <2>1, <2>2
<1>8. DelayAfter(n, d.base) \in Nat /\ Fewest(n, SameDelays) + 1 \in Nat
  BY <1>1, <1>2, <1>3, <1>4, <1>5
<1>9. d \in Delaying /\ n \in Retries
  BY <1>4 DEF CounterOK, Retries
<1> HIDE DEF e, n, r
<1>10. /\ e \in Delaying /\ e.retries = n /\ e.base = d.base
       /\ e.attempt = Fewest(n, SameDelays) + 1 /\ e.current = DelayAfter(n, d.base)
  BY <1>7, <1>8, <1>9 DEF Delaying
<1>11. CounterOK(e)
  BY <1>10 DEF CounterOK
<1> QED
  BY <1>6, <1>11 DEF e, n, r

(* The timer and the time of the attempt say nothing about the counter.       *)
SameCounter(d, e) ==
    /\ e \in Delaying
    /\ e.attempt = d.attempt /\ e.current = d.current /\ e.base = d.base /\ e.retries = d.retries

LEMMA SameCounterOK ==
  ASSUME NEW d, CounterOK(d), NEW e, SameCounter(d, e)
  PROVE  CounterOK(e)
  BY DEF SameCounter, CounterOK

(* What an attempt and a pause set is right, whatever was set before.         *)
LEMMA AttemptOK ==
  ASSUME NEW d, CounterOK(d), NEW m \in {120, 130, 140}
  PROVE  DelaysOK(Attempt(d, m))
<1> DEFINE e == Attempt(d, m)
           left == IF m = 140 THEN LongestDelay ELSE d.current
           since == 0
<1>1. d \in Delaying /\ LongestDelay \in Nat
  BY DelaysAssumption DEF CounterOK
<1>2. left \in Nat \cup {NoTimer} /\ m \in Nat /\ (m # 140 => left = d.current) /\ since \in Nat
  BY <1>1 DEF Delaying
<1>3. e = [d EXCEPT !.since = since, !.m = m, !.left = left]
  BY <1>1 DEF Attempt, Schedule, Delaying
<1> HIDE DEF left, since, e
<1>4. /\ SameCounter(d, e)
      /\ e.m = m /\ e.left = left /\ e.since = since /\ e.current = d.current
  <2>1. e \in Delaying
    BY <1>1, <1>2, <1>3 DEF Delaying
  <2>2. /\ e.m = m /\ e.left = left /\ e.since = since
        /\ e.attempt = d.attempt /\ e.current = d.current /\ e.base = d.base /\ e.retries = d.retries
    BY <1>1, <1>2, <1>3 DEF Delaying
  <2> QED
    BY <2>1, <2>2 DEF SameCounter
<1>5. d.current \in Nat /\ CounterOK(e)
  BY <1>1, <1>4, SameCounterOK DEF Delaying
<1> QED
  BY <1>2, <1>4, <1>5 DEF DelaysOK, DelayIsSet, e, since

LEMMA PauseOK ==
  ASSUME NEW d, CounterOK(d), NEW m \in {111, 112}
  PROVE  DelaysOK(Pause(d, m))
<1> DEFINE e == Pause(d, m)
           left == waitingInterval(d.current, d.since)
           since == d.since
<1>1. d \in Delaying
  BY DEF CounterOK
<1>2. /\ left \in Nat \cup {NoTimer} /\ m \in Nat /\ since \in Nat /\ left \in Nat
      /\ left > 0 => since + left = d.current
      /\ left = 0 => since >= d.current
  BY <1>1 DEF waitingInterval, Most, Delaying
<1>3. e = [d EXCEPT !.since = since, !.m = m, !.left = left]
  BY <1>1 DEF Pause, Schedule, Delaying
<1> HIDE DEF e, left, since
<1>4. /\ SameCounter(d, e)
      /\ e.m = m /\ e.left = left /\ e.since = since /\ e.current = d.current
  <2>1. e \in Delaying
    BY <1>1, <1>2, <1>3 DEF Delaying
  <2>2. /\ e.m = m /\ e.left = left /\ e.since = since
        /\ e.attempt = d.attempt /\ e.current = d.current /\ e.base = d.base /\ e.retries = d.retries
    BY <1>1, <1>2, <1>3 DEF Delaying
  <2> QED
    BY <2>1, <2>2 DEF SameCounter
<1>5. CounterOK(e)
  BY <1>4, SameCounterOK
<1> QED
  BY <1>2, <1>4, <1>5 DEF DelaysOK, DelayIsSet, e

LEMMA OtherwiseOK ==
  ASSUME NEW d, CounterOK(d), NEW m \in {100, 113, 150}, NEW left, left \in Nat \cup {NoTimer}
  PROVE  DelaysOK(Schedule(d, m, left))
<1> DEFINE e == Schedule(d, m, left)
           since == d.since
<1>1. d \in Delaying
  BY DEF CounterOK
<1>2. since \in Nat /\ m \in Nat
  BY <1>1 DEF Delaying
<1>3. e = [d EXCEPT !.since = since, !.m = m, !.left = left]
  BY <1>1 DEF Schedule, Delaying
<1> HIDE DEF e, since
<1>4. /\ SameCounter(d, e)
      /\ e.m = m /\ e.left = left /\ e.since = since /\ e.current = d.current
  <2>1. e \in Delaying
    BY <1>1, <1>2, <1>3 DEF Delaying
  <2>2. /\ e.m = m /\ e.left = left /\ e.since = since
        /\ e.attempt = d.attempt /\ e.current = d.current /\ e.base = d.base /\ e.retries = d.retries
    BY <1>1, <1>2, <1>3 DEF Delaying
  <2> QED
    BY <2>1, <2>2 DEF SameCounter
<1>5. CounterOK(e)
  BY <1>4, SameCounterOK
<1> QED
  BY <1>4, <1>5 DEF DelaysOK, DelayIsSet, e

LEMMA DelaysStepOK ==
  ASSUME DelaysOK(delays), DelaysNext
  PROVE  DelaysOK(delays')
<1> DEFINE d == delays
<1>1. CounterOK(d) /\ DelayIsSet(d)
  BY DEF DelaysOK
<1>2. NoTimer \in Nat \cup {NoTimer} /\ FirstPauses \subseteq Nat
  BY DelaysAssumption
<1>3. ASSUME NEW e, CounterOK(e), delays' \in evtSelectCreate(e)
      PROVE  DelaysOK(delays')
  BY <1>3, AttemptOK DEF evtSelectCreate
<1>4. CASE connect
  BY <1>1, <1>3, <1>4, ResetOK DEF connect
<1>5. CASE disconnect
  BY <1>1, <1>2, <1>5, ResetOK, OtherwiseOK DEF disconnect, Ended
<1>6. CASE evtWSOK
  BY <1>1, <1>6 DEF evtWSOK, CounterOK, Delaying, DelaysOK, DelayIsSet
<1>7. CASE evtTransportTimeout \/ evtTransportError
  <2>1. FailAttempt
    BY <1>7 DEF evtTransportTimeout, evtTransportError
  <2> QED
    BY <1>1, <2>1, AttemptOK, PauseOK DEF FailAttempt, AfterFailure
<1>8. CASE evtCONERR
  <2>1. CASE delays' = Pause(d, 112)
    BY <1>1, <2>1, PauseOK
  <2>2. CASE delays' = Attempt(d, 140)
    BY <1>1, <2>2, AttemptOK
  <2>3. CASE delays' = Ended(d)
    BY <1>1, <1>2, <2>3, ResetOK, OtherwiseOK DEF Ended
  <2> QED
    BY <1>8, <2>1, <2>2, <2>3 DEF evtCONERR
<1>9. CASE evtCONOK
  <2>1. CounterOK(reset(d))
    BY <1>1, ResetOK
  <2>2. DelaysOK(Schedule(reset(d), 150, NoTimer))
    BY <1>2, <2>1, OtherwiseOK
  <2> QED
    BY <1>9, <2>2 DEF evtCONOK
<1>10. CASE LoseSession
  <2>1. CASE delays' = Pause(d, 112)
    BY <1>1, <2>1, PauseOK
  <2>2. CASE \E p \in FirstPauses : delays' = Schedule(d, 113, p)
    BY <1>1, <1>2, <2>2, OtherwiseOK
  <2> QED
    BY <1>10, <2>1, <2>2 DEF LoseSession
<1>11. CASE evtRetryTimeout
  <2> DEFINE grown == [increase(d) EXCEPT !.retries = Fewest(@ + 1, SameDelays + LongestDelay)]
  <2>1. CounterOK(grown)
    BY <1>1, IncreaseOK
  <2>2. delays' \in evtSelectCreate(d) \/ delays' \in evtSelectCreate(grown) \/ delays' = Attempt(grown, 140)
    BY <1>11 DEF evtRetryTimeout
  <2> HIDE DEF grown
  <2> QED
    BY <1>1, <1>3, <2>1, <2>2, AttemptOK
<1>12. CASE evtOnlineAgain
  BY <1>1, <1>3, <1>12 DEF evtOnlineAgain
<1>13. CASE Tick
  <2> DEFINE since == d.since + 1
             left == IF d.left > 0 THEN d.left - 1 ELSE d.left
             e == [d EXCEPT !.since = since, !.left = left]
  <2>1. d \in Delaying
    BY <1>1 DEF CounterOK
  <2>2. d.left \in Nat \cup {-1} /\ d.since \in Nat /\ d.current \in Nat
    BY <2>1 DEF Delaying, NoTimer
  <2>3. since \in Nat /\ left \in Nat \cup {NoTimer}
    BY <2>2 DEF NoTimer
  <2>4. delays' = e
    BY <1>13, <2>1 DEF Tick, Delaying
  <2> HIDE DEF since, left
  <2>5. e \in Delaying
    BY <2>1, <2>3 DEF Delaying
  <2>6. /\ e.m = d.m /\ e.left = left /\ e.since = since
        /\ e.attempt = d.attempt /\ e.current = d.current /\ e.base = d.base /\ e.retries = d.retries
    BY <2>1 DEF Delaying
  <2> HIDE DEF e
  <2>7. CounterOK(e)
    BY <1>1, <2>5, <2>6, SameCounterOK DEF SameCounter
  <2>8. DelayIsSet(e)
    BY <1>1, <2>2, <2>6 DEF DelayIsSet, since, left
  <2> QED
    BY <2>4, <2>7, <2>8 DEF DelaysOK
<1>14. ASSUME NEW o \in RetryDelays, setRetryDelay(o)
       PROVE  DelaysOK(delays')
  BY <1>1, <1>14, DelaysAssumption DEF setRetryDelay, CounterOK, Delaying, DelaysOK, DelayIsSet
<1> QED
  BY <1>4, <1>5, <1>6, <1>7, <1>8, <1>9, <1>10, <1>11, <1>12, <1>13, <1>14 DEF DelaysNext

LEMMA DelaysInitOK ==
  ASSUME DelaysInit
  PROVE  DelaysOK(delays)
<1>1. SameDelays \in Nat /\ LongestDelay \in Nat /\ RetryDelays \subseteq Nat \ {0}
  BY DelaysAssumption
<1>2. PICK o \in RetryDelays : delays = [m |-> 100, attempt |-> 1, current |-> o, option |-> o, since |-> 0,
                                         left |-> NoTimer, base |-> o, retries |-> 0]
  BY DEF DelaysInit
<1>3. DelayAfter(0, o) = o /\ Fewest(0, SameDelays) = 0
  BY <1>1 DEF DelayAfter, Fewest
<1> QED
  BY <1>1, <1>2, <1>3 DEF DelaysOK, CounterOK, Delaying, Retries, DelayIsSet, NoTimer

LEMMA DelaysPromise ==
  ASSUME DelaysOK(delays)
  PROVE  PausesGrow
  BY DEF DelaysOK, CounterOK, Delaying, DelayIsSet, PausesGrow

-----------------------------------------------------------------------------
LEMMA DelaysStepsOK ==
  ASSUME part = "delays" => DelaysOK(delays), [PartsNext]_vars
  PROVE  part' = "delays" => DelaysOK(delays')
<1>1. CASE DelaysStep
  BY <1>1, DelaysStepOK DEF DelaysStep
<1>2. CASE UNCHANGED <<part, delays>>
  BY <1>2
<1>3. CASE UNCHANGED vars
  BY <1>2, <1>3 DEF vars, partVars
<1>4. CASE PartsNext /\ ~DelaysStep
  BY <1>2, <1>4 DEF PartsNext, partVars, toolVars, ChartStep, CellsStep, EventsStep, PageStep, LogsStep, StatusStep,
     ListeningStep, ScanStep, CollectionsStep, BrowserStep, ColoursStep, NodesStep, ContentsStep, TicksStep, ClassesStep,
     LinesStep, DrawingStep, CookiesStep, SimpleStep, SettingsStep
<1> QED
  BY <1>1, <1>3, <1>4

(* AttemptsArePaced: attempts to create a session follow each other by the    *)
(* delay that RetryDelayCounter has after so many retries, from the start of  *)
(* one to the start of the next, whatever the first one ended by.             *)
THEOREM AttemptsWait == Spec => []AttemptsArePaced
<1>1. PartsInit => (part = "delays" => DelaysOK(delays))
  BY DelaysInitOK DEF PartsInit
<1>2. (part = "delays" => DelaysOK(delays)) /\ [PartsNext]_vars => (part = "delays" => DelaysOK(delays))'
  BY DelaysStepsOK
<1>3. (part = "delays" => DelaysOK(delays)) => AttemptsArePaced
  BY DelaysPromise DEF AttemptsArePaced
<1> QED
  BY <1>1, <1>2, <1>3, PTL DEF Spec

-----------------------------------------------------------------------------
-----------------------------------------------------------------------------
Telling == {"start", "event", "end"}
EventTask == [what : Telling \cup {"verify", "repeat"}, l : Nat, n : Nat, time : Nat, id : Nat]

(* Tasks with different numbers are in a strict order.                        *)
LEMMA TasksAreOrdered ==
  ASSUME NEW a \in EventTask, NEW b \in EventTask, NEW c \in EventTask
  PROVE  /\ ~sortFun(a, a) /\ (sortFun(a, b) => ~sortFun(b, a))
         /\ (sortFun(a, b) /\ sortFun(b, c) => sortFun(a, c))
         /\ (a.id # b.id => sortFun(a, b) \/ sortFun(b, a))
<1>1. \A x \in {a, b, c} : x.time \in Nat /\ x.id \in Nat
  BY DEF EventTask
<1> QED
  BY <1>1 DEF sortFun

(* The sort of the executor puts each task in a place of its own.             *)
LEMMA SortMoves ==
  ASSUME NEW q \in Seq(EventTask), \A i, j \in DOMAIN q : q[i].id = q[j].id => i = j
  PROVE  \E g \in Bijection(DOMAIN q, DOMAIN q) :
           /\ \A i \in DOMAIN q : InOrder(q)[g[i]] = q[i]
           /\ \A i, j \in DOMAIN q : sortFun(q[i], q[j]) <=> g[i] < g[j]
<1> DEFINE n == Len(q)
           D == DOMAIN q
           g == [i \in D |-> Cardinality(UpToIt(q, i))]
<1>1. n \in Nat /\ D = 1..n /\ \A i \in D : q[i] \in EventTask
  OBVIOUS
<1>2. IsFiniteSet(D) /\ Cardinality(D) = n /\ D \in SUBSET Nat
  BY <1>1, CountTo
<1>3. ASSUME NEW i \in D
      PROVE  /\ UpToIt(q, i) \in SUBSET D /\ i \in UpToIt(q, i) /\ IsFiniteSet(UpToIt(q, i))
             /\ Cardinality(UpToIt(q, i)) \in D
  <2>1. UpToIt(q, i) \in SUBSET D /\ i \in UpToIt(q, i)
    BY <1>1, TasksAreOrdered DEF UpToIt
  <2>2. IsFiniteSet(UpToIt(q, i)) /\ Cardinality(UpToIt(q, i)) <= Cardinality(D)
    BY <1>2, <2>1, FS_Subset
  <2>3. Cardinality(UpToIt(q, i)) \in Nat /\ Cardinality(UpToIt(q, i)) # 0
    BY <2>1, <2>2, FS_CardinalityType, FS_EmptySet
  <2> QED
    BY <1>1, <1>2, <2>1, <2>2, <2>3
<1>4. ASSUME NEW i \in D, NEW j \in D, sortFun(q[i], q[j])
      PROVE  g[i] < g[j]
  <2>1. UpToIt(q, i) \subseteq UpToIt(q, j)
    <3> SUFFICES ASSUME NEW k \in UpToIt(q, i)
                 PROVE  ~sortFun(q[j], q[k])
      BY DEF UpToIt
    <3>1. k \in D /\ ~sortFun(q[i], q[k])
      BY DEF UpToIt
    <3> QED
      BY <1>1, <1>4, <3>1, TasksAreOrdered
  <2>2. j \notin UpToIt(q, i) /\ j \in UpToIt(q, j)
    BY <1>3, <1>4 DEF UpToIt
  <2>3. /\ Cardinality(UpToIt(q, i)) <= Cardinality(UpToIt(q, j))
        /\ Cardinality(UpToIt(q, i)) # Cardinality(UpToIt(q, j))
    BY <1>3, <2>1, <2>2, FS_Subset
  <2> QED
    BY <1>2, <1>3, <2>3
<1>5. ASSUME NEW i \in D, NEW j \in D, i # j
      PROVE  sortFun(q[i], q[j]) \/ sortFun(q[j], q[i])
  BY <1>1, <1>5, TasksAreOrdered
<1>6. g \in [D -> D]
  BY <1>3
<1>7. \A i, j \in D : g[i] = g[j] => i = j
  <2> SUFFICES ASSUME NEW i \in D, NEW j \in D, i # j
               PROVE  g[i] # g[j]
    OBVIOUS
  <2>1. g[i] \in Nat /\ g[j] \in Nat
    BY <1>2, <1>6
  <2>2. g[i] < g[j] \/ g[j] < g[i]
    BY <1>4, <1>5
  <2> QED
    BY <2>1, <2>2
<1>8. g \in Injection(D, D)
  BY <1>6, <1>7 DEF Injection, IsInjective
<1>9. g \in Surjection(D, D)
  BY <1>2, <1>8, FS_Injection
<1>10. g \in Bijection(D, D)
  BY <1>8, <1>9 DEF Bijection
<1>11. ASSUME NEW i \in D
       PROVE  InOrder(q)[g[i]] = q[i]
  <2>1. g[i] \in D /\ i \in D /\ Cardinality(UpToIt(q, i)) = g[i]
    BY <1>6
  <2>2. Ranked(q, g[i]) \in D /\ Cardinality(UpToIt(q, Ranked(q, g[i]))) = g[i]
    BY <2>1 DEF Ranked
  <2>3. g[Ranked(q, g[i])] = g[i]
    BY <2>2
  <2>4. Ranked(q, g[i]) = i
    BY <1>7, <2>2, <2>3
  <2> QED
    BY <2>1, <2>4 DEF InOrder
<1>12. ASSUME NEW i \in D, NEW j \in D
       PROVE  sortFun(q[i], q[j]) <=> g[i] < g[j]
  <2>1. g[i] \in Nat /\ g[j] \in Nat
    BY <1>2, <1>6
  <2>2. CASE i = j
    BY <2>1, <2>2, <1>1, TasksAreOrdered
  <2>3. CASE i # j /\ ~sortFun(q[i], q[j])
    BY <2>1, <2>3, <1>4, <1>5
  <2> QED
    BY <2>2, <2>3, <1>4
<1> HIDE DEF g
<1> QED
  BY <1>10, <1>11, <1>12
-----------------------------------------------------------------------------
Registration == [handler : Handlers, listening : BOOLEAN]
ToTell == (Telling \cup {"unexpected"}) \X Nat
EventsState ==
    [queue : Seq(EventTask), repeated : Seq(EventTask), now : Nat, nextId : Nat, newStuff : BOOLEAN, looping : BOOLEAN,
     objs : Seq(Registration), list : Seq(Nat), synch : BOOLEAN, dispatch : [n : Nat, i : Nat], n : Nat,
     owed : [Handlers -> Seq(ToTell)], users : SUBSET Users, inUse : Int, touchPhase : Nat, clean : BOOLEAN,
     repeats : Seq({"live", "stopped"})]

(* The queue: tasks have numbers of their own, less than the next one; it is  *)
(* sorted when nothing is new in it, and during a turn a task that is due     *)
(* comes before those that follow it.                                         *)
QueueOK(e) ==
    /\ e \in EventsState
    /\ \A i \in DOMAIN e.queue : e.queue[i].id < e.nextId
    /\ \A i, j \in DOMAIN e.queue : e.queue[i].id = e.queue[j].id => i = j
    /\ ~e.newStuff => \A i, j \in DOMAIN e.queue : i < j => sortFun(e.queue[i], e.queue[j])
    /\ e.looping => \A i, j \in DOMAIN e.queue :
                       i < j /\ e.queue[i].time <= e.now => sortFun(e.queue[i], e.queue[j])

(* The registrations: those in the list are listening, one for each listener. *)
Listed(e) == {e.list[i] : i \in DOMAIN e.list}
ListOK(e) ==
    /\ \A i \in DOMAIN e.list : e.list[i] \in DOMAIN e.objs /\ e.objs[e.list[i]].listening
    /\ \A i, j \in DOMAIN e.list : e.objs[e.list[i]].handler = e.objs[e.list[j]].handler => i = j
    /\ \A o \in DOMAIN e.objs : e.objs[o].listening => o \in Listed(e)

Queued(e) == {e.queue[i] : i \in DOMAIN e.queue}

(* What is told at once, and what is told by tasks, which are in the order in *)
(* which they were added.                                                     *)
Reached(e, h) == \E i \in DOMAIN e.list : i >= e.dispatch.i /\ e.objs[e.list[i]].handler = h
AtOnce(e) ==
    /\ \A t \in Queued(e) : t.what \notin Telling
    /\ IF e.dispatch = NoDispatch THEN \A h \in Handlers : e.owed[h] = <<>>
       ELSE /\ e.dispatch.n = e.n /\ e.dispatch.i \in 1..Len(e.list) + 1
            /\ \A h \in Handlers : e.owed[h] = IF Reached(e, h) THEN <<<<"event", e.n>>>> ELSE <<>>
InSequence(e) ==
    /\ \A t \in Queued(e) : t.what \in Telling => t.l \in DOMAIN e.objs /\ t.time <= e.now
    /\ \A i, j \in DOMAIN e.queue : {e.queue[i].what, e.queue[j].what} \subseteq Telling /\ i < j =>
          sortFun(e.queue[i], e.queue[j])
PositionsFor(e, h) == {i \in DOMAIN e.queue : IsFor(e, h, e.queue[i])}
ByTasks(e) == e.dispatch = NoDispatch /\ InSequence(e) /\ \A h \in Handlers : Undelivered(e, h) = e.owed[h]
TellOK(e) == IF e.synch THEN AtOnce(e) ELSE ByTasks(e)

(* Repetitive tasks: one is in one place only, and a live one in one of them. *)
RepeatOK(e) ==
    /\ \A t \in Queued(e) : t.what = "repeat" => t.n \in DOMAIN e.repeats
    /\ \A i \in DOMAIN e.repeated : e.repeated[i].what = "repeat" /\ e.repeated[i].n \in DOMAIN e.repeats
    /\ \A t, u \in Queued(e) : t.what = "repeat" /\ u.what = "repeat" /\ t.n = u.n => t = u
    /\ \A i, j \in DOMAIN e.repeated : e.repeated[i].n = e.repeated[j].n => i = j
    /\ \A t \in Queued(e), j \in DOMAIN e.repeated : t.what = "repeat" => t.n # e.repeated[j].n
    /\ \A r \in DOMAIN e.repeats : e.repeats[r] = "live" =>
          \/ \E t \in Queued(e) : t.what = "repeat" /\ t.n = r
          \/ \E i \in DOMAIN e.repeated : e.repeated[i].n = r

(* The object that is dismissed.                                              *)
UseOK(e) ==
    /\ IsFiniteSet(e.users) /\ e.inUse = Cardinality(e.users)
    /\ e.users # {} => ~e.clean
    /\ e.users = {} /\ ~e.clean =>
          \E t \in Queued(e) : t.what = "verify" /\ t.n = e.touchPhase

EventsOK(e) == QueueOK(e) /\ ListOK(e) /\ TellOK(e) /\ RepeatOK(e) /\ UseOK(e)

-----------------------------------------------------------------------------
(* Tasks that are added come last, numbered in order; nothing else changes.   *)
SameTold(e, f) ==
    f.objs = e.objs /\ f.list = e.list /\ f.synch = e.synch /\ f.dispatch = e.dispatch /\ f.n = e.n /\ f.owed = e.owed
SameRepeated(e, f) == f.repeated = e.repeated /\ f.repeats = e.repeats
SameUse(e, f) == f.users = e.users /\ f.inUse = e.inUse /\ f.touchPhase = e.touchPhase /\ f.clean = e.clean

NewTask(e, t, d, k) == [t EXCEPT !.time = e.now + d, !.id = e.nextId + k - 1]
LEMMA AddedLast ==
  ASSUME NEW e \in EventsState, NEW ts \in Seq(EventTask), NEW d \in Nat
  PROVE  LET f == addTimedTasks(e, ts, d)
             q == Len(e.queue)
             m == Len(ts)
         IN /\ f \in EventsState /\ q \in Nat /\ m \in Nat /\ DOMAIN e.queue = 1..q /\ DOMAIN ts = 1..m
            /\ DOMAIN f.queue = 1..(q + m)
            /\ \A i \in 1..q : f.queue[i] = e.queue[i]
            /\ \A k \in 1..m : f.queue[q + k] = NewTask(e, ts[k], d, k)
            /\ f.nextId = e.nextId + m /\ (f.newStuff <=> e.newStuff \/ ts # <<>>)
            /\ f.now = e.now /\ f.looping = e.looping /\ SameTold(e, f) /\ SameRepeated(e, f) /\ SameUse(e, f)
<1> DEFINE f == addTimedTasks(e, ts, d)
           q == Len(e.queue)
           m == Len(ts)
           new == [i \in DOMAIN ts |-> NewTask(e, ts[i], d, i)]
           queue == e.queue \o new
           nextId == e.nextId + m
           newStuff == e.newStuff \/ ts # <<>>
<1>1. /\ e.queue \in Seq(EventTask) /\ e.now \in Nat /\ e.nextId \in Nat /\ e.newStuff \in BOOLEAN
      /\ q \in Nat /\ m \in Nat /\ DOMAIN e.queue = 1..q /\ DOMAIN ts = 1..m
  BY DEF EventsState
<1>2. ASSUME NEW i \in 1..m
      PROVE  NewTask(e, ts[i], d, i) \in EventTask
  <2>1. ts[i] \in EventTask
    BY <1>1
  <2>2. e.now + d \in Nat /\ e.nextId + i - 1 \in Nat
    BY <1>1
  <2> QED
    BY <2>1, <2>2 DEF EventTask, NewTask
<1>3. new \in [1..m -> EventTask] /\ \A k \in 1..m : new[k] = NewTask(e, ts[k], d, k)
  BY <1>1, <1>2
<1> HIDE DEF new, m, q
<1>4. new \in Seq(EventTask) /\ Len(new) = m
  BY <1>1, <1>3
<1>5. /\ queue \in Seq(EventTask) /\ Len(queue) = q + m
      /\ \A i \in 1..(q + m) : queue[i] = IF i <= q THEN e.queue[i] ELSE new[i - q]
  BY <1>1, <1>4, ConcatProperties DEF q
<1>6. f = [e EXCEPT !.queue = queue, !.nextId = nextId, !.newStuff = newStuff]
  BY DEF addTimedTasks, new, NewTask, m, EventsState
<1>7. nextId \in Nat /\ newStuff \in BOOLEAN
  BY <1>1
<1> HIDE DEF queue, nextId, newStuff, f
<1>8. f \in EventsState
  BY <1>5, <1>6, <1>7 DEF EventsState
<1>9. /\ f.queue = queue /\ f.nextId = nextId /\ f.newStuff = newStuff
      /\ f.now = e.now /\ f.looping = e.looping /\ SameTold(e, f) /\ SameRepeated(e, f) /\ SameUse(e, f)
  BY <1>6 DEF EventsState, SameTold, SameRepeated, SameUse
<1>10. DOMAIN queue = 1..(q + m)
  BY <1>5
<1>11. \A i \in 1..q : i \in 1..(q + m) /\ i <= q
  BY <1>1
<1>12. \A k \in 1..m : q + k \in 1..(q + m) /\ ~(q + k <= q) /\ (q + k) - q = k
  BY <1>1
<1>13. \A i \in 1..q : f.queue[i] = e.queue[i]
  BY <1>5, <1>9, <1>11
<1>14. ASSUME NEW k \in 1..m
       PROVE  f.queue[q + k] = NewTask(e, ts[k], d, k)
  <2>1. queue[q + k] = new[(q + k) - q]
    BY <1>5, <1>12
  <2> QED
    BY <1>3, <1>9, <1>12, <2>1
<1> QED
  BY <1>1, <1>8, <1>9, <1>10, <1>13, <1>14 DEF f, q, m, nextId, newStuff

(* What the tasks of the queue are, by where they come from.                  *)
LEMMA AddedTasks ==
  ASSUME NEW e \in EventsState, NEW ts \in Seq(EventTask), NEW d \in Nat,
         NEW i \in DOMAIN addTimedTasks(e, ts, d).queue
  PROVE  LET t == addTimedTasks(e, ts, d).queue[i]
         IN \/ i \in DOMAIN e.queue /\ t = e.queue[i]
            \/ \E k \in DOMAIN ts : i = Len(e.queue) + k /\ t = NewTask(e, ts[k], d, k)
<1> DEFINE f == addTimedTasks(e, ts, d)
           q == Len(e.queue)
           m == Len(ts)
<1>1. /\ q \in Nat /\ m \in Nat /\ DOMAIN e.queue = 1..q /\ DOMAIN ts = 1..m /\ DOMAIN f.queue = 1..(q + m)
      /\ (\A k \in 1..q : f.queue[k] = e.queue[k]) /\ \A k \in 1..m : f.queue[q + k] = NewTask(e, ts[k], d, k)
  <2>1. /\ q \in Nat /\ m \in Nat /\ DOMAIN e.queue = 1..q /\ DOMAIN ts = 1..m /\ DOMAIN f.queue = 1..(q + m)
    BY AddedLast
  <2>2. ASSUME NEW k \in 1..q
        PROVE  f.queue[k] = e.queue[k]
    BY AddedLast
  <2>3. ASSUME NEW k \in 1..m
        PROVE  f.queue[q + k] = NewTask(e, ts[k], d, k)
    BY AddedLast
  <2> QED
    BY <2>1, <2>2, <2>3
<1> HIDE DEF f, q, m
<1>2. i \in 1..(q + m)
  BY <1>1 DEF f
<1>3. CASE i <= q
  BY <1>1, <1>2, <1>3 DEF f, q, m
<1>4. CASE ~(i <= q)
  <2>1. i - q \in 1..m /\ i = q + (i - q)
    BY <1>1, <1>2, <1>4
  <2>2. f.queue[i] = NewTask(e, ts[i - q], d, i - q)
    BY <1>1, <2>1
  <2> QED
    BY <1>1, <2>1, <2>2 DEF f, q, m
<1> QED
  BY <1>3, <1>4

LEMMA NewTaskIs ==
  ASSUME NEW e, NEW t \in EventTask, NEW d, NEW k
  PROVE  /\ NewTask(e, t, d, k).what = t.what /\ NewTask(e, t, d, k).l = t.l /\ NewTask(e, t, d, k).n = t.n
         /\ NewTask(e, t, d, k).time = e.now + d /\ NewTask(e, t, d, k).id = e.nextId + k - 1
  BY DEF NewTask, EventTask

LEMMA AddedQueueOK ==
  ASSUME NEW e, QueueOK(e), NEW ts \in Seq(EventTask), NEW d \in Nat
  PROVE  QueueOK(addTimedTasks(e, ts, d))
<1> DEFINE f == addTimedTasks(e, ts, d)
           q == Len(e.queue)
           m == Len(ts)
           Old(i) == i \in 1..q /\ f.queue[i] = e.queue[i] /\ f.queue[i].id \in Nat /\ f.queue[i].time \in Nat /\ f.queue[i].id < e.nextId
           New(i) == i \in (q + 1)..(q + m) /\ f.queue[i].time = e.now + d /\ f.queue[i].id = e.nextId + (i - q) - 1
<1>1. /\ e \in EventsState /\ f \in EventsState /\ q \in Nat /\ m \in Nat /\ DOMAIN e.queue = 1..q
      /\ DOMAIN ts = 1..m /\ DOMAIN f.queue = 1..(q + m)
      /\ f.nextId = e.nextId + m /\ (f.newStuff <=> e.newStuff \/ ts # <<>>) /\ f.now = e.now /\ f.looping = e.looping
  BY AddedLast DEF QueueOK
<1>2. e.now \in Nat /\ e.nextId \in Nat /\ e.queue \in Seq(EventTask)
  BY <1>1 DEF EventsState
<1>3. ASSUME NEW i \in DOMAIN f.queue
      PROVE  Old(i) \/ New(i)
  <2>1. CASE i \in DOMAIN e.queue /\ f.queue[i] = e.queue[i]
    <3>1. e.queue[i] \in EventTask /\ e.queue[i].id < e.nextId
      BY <1>2, <2>1 DEF QueueOK
    <3>2. e.queue[i].id \in Nat /\ e.queue[i].time \in Nat
      BY <3>1 DEF EventTask
    <3> QED
      BY <1>1, <2>1, <3>1, <3>2
  <2>2. CASE \E k \in DOMAIN ts : i = q + k /\ f.queue[i] = NewTask(e, ts[k], d, k)
    <3>1. PICK k \in DOMAIN ts : i = q + k /\ f.queue[i] = NewTask(e, ts[k], d, k)
      BY <2>2
    <3>2. ts[k] \in EventTask
      OBVIOUS
    <3>3. f.queue[i].time = e.now + d /\ f.queue[i].id = e.nextId + k - 1
      BY <3>1, <3>2 DEF NewTask, EventTask
    <3>4. k \in 1..m
      BY <1>1
    <3> HIDE DEF q, m, f
    <3>5. i \in (q + 1)..(q + m) /\ k = i - q
      BY <1>1, <3>1, <3>4
    <3> QED
      BY <3>3, <3>5
  <2>3. \/ i \in DOMAIN e.queue /\ f.queue[i] = e.queue[i]
        \/ \E k \in DOMAIN ts : i = q + k /\ f.queue[i] = NewTask(e, ts[k], d, k)
    BY <1>1, AddedTasks
  <2> QED
    BY <2>1, <2>2, <2>3
<1> HIDE DEF f, q, m
<1>6. \A i \in DOMAIN f.queue : f.queue[i].id < f.nextId
  <2> SUFFICES ASSUME NEW i \in DOMAIN f.queue
               PROVE  f.queue[i].id < f.nextId
    OBVIOUS
  <2>1. q \in Nat /\ m \in Nat /\ e.nextId \in Nat /\ f.nextId = e.nextId + m
    BY <1>1, <1>2
  <2>2. CASE Old(i)
    BY <2>1, <2>2
  <2>3. CASE New(i)
    BY <2>1, <2>3
  <2> QED
    BY <1>3, <2>2, <2>3
<1>7. \A i, j \in DOMAIN f.queue : f.queue[i].id = f.queue[j].id => i = j
  <2> SUFFICES ASSUME NEW i \in DOMAIN f.queue, NEW j \in DOMAIN f.queue, f.queue[i].id = f.queue[j].id
               PROVE  i = j
    OBVIOUS
  <2>1. CASE Old(i) /\ Old(j)
    BY <1>1, <2>1 DEF QueueOK
  <2>2. CASE New(i) /\ New(j)
    <3>1. e.nextId + (i - q) - 1 = e.nextId + (j - q) - 1
      BY <2>2
    <3>2. i \in Int /\ j \in Int
      BY <1>1, <2>2
    <3> QED
      BY <1>1, <1>2, <3>1, <3>2
  <2>3. CASE Old(i) /\ New(j)
    BY <1>1, <1>2, <2>3
  <2>4. CASE New(i) /\ Old(j)
    BY <1>1, <1>2, <2>4
  <2> QED
    BY <1>3, <2>1, <2>2, <2>3, <2>4
<1>8. ~f.newStuff => \A i, j \in DOMAIN f.queue : i < j => sortFun(f.queue[i], f.queue[j])
  <2> SUFFICES ASSUME ~f.newStuff
               PROVE  \A i, j \in DOMAIN f.queue : i < j => sortFun(f.queue[i], f.queue[j])
    OBVIOUS
  <2>1. ts = <<>> /\ ~e.newStuff
    BY <1>1
  <2>2. m = 0
    BY <2>1 DEF m
  <2>3. \A i \in DOMAIN f.queue : Old(i)
    BY <1>1, <1>3, <2>2
  <2> QED
    BY <1>1, <2>1, <2>3 DEF QueueOK
<1>9. f.looping => \A i, j \in DOMAIN f.queue : i < j /\ f.queue[i].time <= f.now => sortFun(f.queue[i], f.queue[j])
  <2> SUFFICES ASSUME f.looping, NEW i \in DOMAIN f.queue, NEW j \in DOMAIN f.queue, i < j, f.queue[i].time <= e.now
               PROVE  sortFun(f.queue[i], f.queue[j])
    BY <1>1
  <2>1. CASE Old(i) /\ Old(j)
    BY <1>1, <2>1 DEF QueueOK
  <2>2. CASE New(i) /\ New(j)
    <3>1. i \in Int /\ j \in Int
      BY <1>1, <2>2
    <3>2. e.nextId + (i - q) - 1 < e.nextId + (j - q) - 1
      BY <1>1, <1>2, <3>1
    <3> QED
      BY <2>2, <3>2 DEF sortFun
  <2>3. CASE Old(i) /\ New(j)
    <3>5. j \in Int /\ j >= q + 1
      BY <1>1, <2>3
    <3>1. e.nextId + (j - q) - 1 >= e.nextId /\ e.nextId + (j - q) - 1 \in Nat
      BY <1>1, <1>2, <3>5
    <3>2. e.now + d >= e.now /\ e.now + d \in Nat
      BY <1>2
    <3>6. /\ f.queue[i].id \in Nat /\ f.queue[i].id < e.nextId /\ f.queue[i].time \in Nat
          /\ f.queue[j].id = e.nextId + (j - q) - 1 /\ f.queue[j].time = e.now + d
      BY <2>3
    <3>7. f.queue[j].id \in Nat /\ f.queue[j].id >= e.nextId /\ e.nextId \in Nat
      BY <1>2, <3>1, <3>6
    <3>3. f.queue[i].id < f.queue[j].id /\ f.queue[i].time <= f.queue[j].time
      BY <1>2, <3>2, <3>6, <3>7
    <3>4. f.queue[i].time \in Nat /\ f.queue[j].time \in Nat
      BY <2>3, <3>2
    <3> QED
      BY <3>3, <3>4 DEF sortFun
  <2>4. CASE New(i) /\ Old(j)
    BY <1>1, <1>2, <2>4
  <2> QED
    BY <1>3, <2>1, <2>2, <2>3, <2>4
<1> QED
  BY <1>1, <1>6, <1>7, <1>8, <1>9 DEF QueueOK, f

(* Where they are.                                                            *)
LEMMA AddedAt ==
  ASSUME NEW e \in EventsState, NEW ts \in Seq(EventTask), NEW d \in Nat
  PROVE  LET f == addTimedTasks(e, ts, d)
         IN /\ \A i \in DOMAIN e.queue : i \in DOMAIN f.queue /\ f.queue[i] = e.queue[i]
            /\ \A k \in DOMAIN ts :
                 /\ Len(e.queue) + k \in DOMAIN f.queue /\ f.queue[Len(e.queue) + k] = NewTask(e, ts[k], d, k)
                 /\ Len(e.queue) + k \in Nat /\ \A i \in DOMAIN e.queue : i < Len(e.queue) + k
<1> DEFINE f == addTimedTasks(e, ts, d)
           q == Len(e.queue)
           m == Len(ts)
<1>1. /\ q \in Nat /\ m \in Nat /\ DOMAIN e.queue = 1..q /\ DOMAIN ts = 1..m /\ DOMAIN f.queue = 1..(q + m)
  BY AddedLast
<1>2. ASSUME NEW k \in 1..q
      PROVE  f.queue[k] = e.queue[k]
  BY AddedLast
<1>3. ASSUME NEW k \in 1..m
      PROVE  f.queue[q + k] = NewTask(e, ts[k], d, k)
  BY AddedLast
<1> HIDE DEF f, q, m
<1>4. \A i \in 1..q : i \in 1..(q + m)
  BY <1>1
<1>5. \A k \in 1..m : q + k \in 1..(q + m) /\ q + k \in Nat /\ \A i \in 1..q : i < q + k
  BY <1>1
<1> QED
  BY <1>1, <1>2, <1>3, <1>4, <1>5 DEF f, q

LEMMA AddedQueued ==
  ASSUME NEW e \in EventsState, NEW ts \in Seq(EventTask), NEW d \in Nat
  PROVE  Queued(addTimedTasks(e, ts, d)) = Queued(e) \cup {NewTask(e, ts[k], d, k) : k \in DOMAIN ts}
<1> DEFINE f == addTimedTasks(e, ts, d)
           q == Len(e.queue)
           m == Len(ts)
<1>1. /\ q \in Nat /\ m \in Nat /\ DOMAIN e.queue = 1..q /\ DOMAIN ts = 1..m /\ DOMAIN f.queue = 1..(q + m)
  BY AddedLast
<1>2. ASSUME NEW k \in 1..q
      PROVE  f.queue[k] = e.queue[k]
  BY AddedLast
<1>3. ASSUME NEW k \in 1..m
      PROVE  f.queue[q + k] = NewTask(e, ts[k], d, k)
  BY AddedLast
<1>4. ASSUME NEW i \in DOMAIN f.queue
      PROVE  f.queue[i] \in Queued(e) \cup {NewTask(e, ts[k], d, k) : k \in DOMAIN ts}
  BY AddedTasks DEF Queued
<1> HIDE DEF f, q, m
<1>5. \A i \in 1..q : i \in DOMAIN f.queue
  BY <1>1
<1>6. \A k \in 1..m : q + k \in DOMAIN f.queue
  BY <1>1
<1>7. Queued(e) \subseteq Queued(f)
  BY <1>1, <1>2, <1>5 DEF Queued
<1>8. {NewTask(e, ts[k], d, k) : k \in DOMAIN ts} \subseteq Queued(f)
  BY <1>1, <1>3, <1>6 DEF Queued
<1>9. Queued(f) \subseteq Queued(e) \cup {NewTask(e, ts[k], d, k) : k \in DOMAIN ts}
  BY <1>4 DEF Queued
<1> QED
  BY <1>7, <1>8, <1>9 DEF f

-----------------------------------------------------------------------------
(* A turn begins: tasks change places.                                        *)
TurnOf(e, now) ==
    [e EXCEPT !.now = now, !.looping = TRUE, !.newStuff = FALSE,
              !.queue = IF e.newStuff THEN InOrder(e.queue) ELSE e.queue]
LEMMA TurnMoves ==
  ASSUME NEW e, QueueOK(e), NEW now \in Nat
  PROVE  LET f == TurnOf(e, now)
         IN /\ f \in EventsState /\ DOMAIN f.queue = DOMAIN e.queue
            /\ f.now = now /\ f.nextId = e.nextId /\ f.looping /\ ~f.newStuff
            /\ SameTold(e, f) /\ SameRepeated(e, f) /\ SameUse(e, f)
            /\ \E g \in Bijection(DOMAIN e.queue, DOMAIN e.queue) :
                 /\ \A i \in DOMAIN e.queue : f.queue[g[i]] = e.queue[i]
                 /\ \A i, j \in DOMAIN e.queue : sortFun(e.queue[i], e.queue[j]) <=> g[i] < g[j]
<1> DEFINE f == TurnOf(e, now)
           D == DOMAIN e.queue
           queue == IF e.newStuff THEN InOrder(e.queue) ELSE e.queue
           Moves(g) == /\ \A i \in D : queue[g[i]] = e.queue[i]
                       /\ \A i, j \in D : sortFun(e.queue[i], e.queue[j]) <=> g[i] < g[j]
<1>1. e \in EventsState /\ e.queue \in Seq(EventTask) /\ \A i, j \in D : e.queue[i].id = e.queue[j].id => i = j
  BY DEF QueueOK, EventsState
<1>2. \E g \in Bijection(D, D) : Moves(g)
  <2>1. CASE e.newStuff
    BY <1>1, <2>1, SortMoves
  <2>2. CASE ~e.newStuff
    <3> DEFINE g == [i \in D |-> i]
    <3>1. g \in Bijection(D, D)
      BY DEF Bijection, Injection, Surjection, IsInjective
    <3>2. ASSUME NEW i \in D, NEW j \in D
          PROVE  sortFun(e.queue[i], e.queue[j]) <=> i < j
      <4>1. i \in Nat /\ j \in Nat /\ e.queue[i] \in EventTask /\ e.queue[j] \in EventTask
        BY <1>1
      <4>2. CASE i < j
        BY <2>2, <4>2 DEF QueueOK
      <4>3. CASE i = j
        BY <4>1, <4>3, TasksAreOrdered
      <4>4. CASE j < i
        <5>1. sortFun(e.queue[j], e.queue[i])
          BY <2>2, <4>4 DEF QueueOK
        <5> QED
          BY <4>1, <4>4, <5>1, TasksAreOrdered
      <4> QED
        BY <4>1, <4>2, <4>3, <4>4
    <3>3. Moves(g)
      BY <2>2, <3>2
    <3> HIDE DEF g
    <3> QED
      BY <3>1, <3>3
  <2> QED
    BY <2>1, <2>2
<1>3. DOMAIN queue = D
  BY DEF InOrder
<1>4. queue \in Seq(EventTask)
  <2>1. PICK g \in Bijection(D, D) : Moves(g)
    BY <1>2
  <2>2. \A r \in D : \E i \in D : g[i] = r
    BY DEF Bijection, Surjection
  <2>3. \A r \in D : queue[r] \in EventTask
    BY <1>1, <2>1, <2>2
  <2>4. CASE e.newStuff
    <3>1. queue = [r \in 1..Len(e.queue) |-> e.queue[Ranked(e.queue, r)]]
      BY <1>1, <2>4 DEF InOrder
    <3>2. queue \in [1..Len(e.queue) -> EventTask] /\ Len(e.queue) \in Nat
      BY <1>1, <1>3, <2>3, <3>1
    <3> HIDE DEF queue
    <3> QED
      BY <3>2
  <2> QED
    BY <1>1, <2>4
<1>5. f = [e EXCEPT !.now = now, !.looping = TRUE, !.newStuff = FALSE, !.queue = queue]
  BY DEF TurnOf
<1> HIDE DEF f, queue
<1>6. f \in EventsState
  BY <1>1, <1>4, <1>5 DEF EventsState
<1>7. /\ f.queue = queue /\ f.now = now /\ f.nextId = e.nextId /\ f.looping /\ ~f.newStuff
      /\ SameTold(e, f) /\ SameRepeated(e, f) /\ SameUse(e, f)
  BY <1>1, <1>5 DEF EventsState, SameTold, SameRepeated, SameUse
<1> QED
  BY <1>2, <1>3, <1>6, <1>7 DEF f

LEMMA TurnQueueOK ==
  ASSUME NEW e, QueueOK(e), NEW now \in Nat
  PROVE  QueueOK(TurnOf(e, now)) /\ Queued(TurnOf(e, now)) = Queued(e)
<1> DEFINE f == TurnOf(e, now)
           D == DOMAIN e.queue
<1>1. f \in EventsState /\ DOMAIN f.queue = D /\ f.nextId = e.nextId
  BY TurnMoves
<1>2. PICK g \in Bijection(D, D) :
        /\ \A i \in D : f.queue[g[i]] = e.queue[i]
        /\ \A i, j \in D : sortFun(e.queue[i], e.queue[j]) <=> g[i] < g[j]
  BY TurnMoves
<1>3. g \in [D -> D] /\ \A r \in D : \E i \in D : g[i] = r
  BY DEF Bijection, Injection, Surjection
<1> HIDE DEF f
<1>4. \A r \in D : \E i \in D : g[i] = r /\ f.queue[r] = e.queue[i]
  BY <1>2, <1>3
<1>5. Queued(f) = Queued(e)
  <2>1. ASSUME NEW r \in D
        PROVE  f.queue[r] \in Queued(e)
    BY <1>4 DEF Queued
  <2>2. ASSUME NEW i \in D
        PROVE  e.queue[i] \in Queued(f)
    BY <1>1, <1>2, <1>3 DEF Queued
  <2> QED
    BY <1>1, <2>1, <2>2 DEF Queued
<1>6. \A r \in D : f.queue[r].id < f.nextId
  BY <1>1, <1>4 DEF QueueOK
<1>7. ASSUME NEW r \in D, NEW s \in D, f.queue[r].id = f.queue[s].id
      PROVE  r = s
  <2>1. PICK i \in D : g[i] = r /\ f.queue[r] = e.queue[i]
    BY <1>4
  <2>2. PICK j \in D : g[j] = s /\ f.queue[s] = e.queue[j]
    BY <1>4
  <2> QED
    BY <1>7, <2>1, <2>2 DEF QueueOK
<1>8. ASSUME NEW r \in D, NEW s \in D, r < s
      PROVE  sortFun(f.queue[r], f.queue[s])
  <2>1. PICK i \in D : g[i] = r /\ f.queue[r] = e.queue[i]
    BY <1>4
  <2>2. PICK j \in D : g[j] = s /\ f.queue[s] = e.queue[j]
    BY <1>4
  <2> QED
    BY <1>2, <1>8, <2>1, <2>2
<1> QED
  BY <1>1, <1>5, <1>6, <1>7, <1>8 DEF QueueOK, f

(* A task is taken from the queue.                                            *)
TakenFrom(e) == [e EXCEPT !.queue = Tail(@)]
LEMMA TakesFirst ==
  ASSUME NEW e, QueueOK(e), e.queue # <<>>
  PROVE  LET f == TakenFrom(e)
         IN /\ f \in EventsState
            /\ f.now = e.now /\ f.looping = e.looping /\ SameTold(e, f) /\ SameRepeated(e, f) /\ SameUse(e, f)
            /\ Len(e.queue) \in Nat \ {0} /\ DOMAIN e.queue = 1..Len(e.queue) /\ DOMAIN f.queue = 1..(Len(e.queue) - 1)
            /\ \A i \in 1..(Len(e.queue) - 1) : f.queue[i] = e.queue[i + 1]
            /\ Head(e.queue) = e.queue[1] /\ Head(e.queue) \in EventTask /\ Head(e.queue) \in Queued(e)
            /\ QueueOK(f) /\ \A t : t \in Queued(f) <=> t \in Queued(e) /\ t # Head(e.queue)
<1> DEFINE f == TakenFrom(e)
           n == Len(e.queue)
           tail == Tail(e.queue)
<1>1. e \in EventsState /\ e.queue \in Seq(EventTask)
  BY DEF QueueOK, EventsState
<1>2. /\ n \in Nat \ {0} /\ DOMAIN e.queue = 1..n
      /\ tail \in Seq(EventTask) /\ Len(tail) = n - 1 /\ \A i \in 1..(n - 1) : tail[i] = e.queue[i + 1]
      /\ Head(e.queue) = e.queue[1]
  BY <1>1, HeadTailProperties
<1>3. f = [e EXCEPT !.queue = tail]
  BY DEF TakenFrom
<1> HIDE DEF f, tail
<1>4. f \in EventsState
  BY <1>1, <1>2, <1>3 DEF EventsState
<1>5. /\ f.queue = tail /\ f.now = e.now /\ f.nextId = e.nextId /\ f.looping = e.looping /\ f.newStuff = e.newStuff
      /\ SameTold(e, f) /\ SameRepeated(e, f) /\ SameUse(e, f)
  BY <1>1, <1>3 DEF EventsState, SameTold, SameRepeated, SameUse
<1>6. DOMAIN f.queue = 1..(n - 1)
  BY <1>2, <1>5
<1> HIDE DEF n
<1>7. \A i \in 1..(n - 1) : f.queue[i] = e.queue[i + 1] /\ i + 1 \in DOMAIN e.queue /\ i + 1 # 1
  BY <1>2, <1>5
<1>8. 1 \in DOMAIN e.queue /\ e.queue[1] \in EventTask /\ \A i \in DOMAIN e.queue : i # 1 => i - 1 \in 1..(n - 1) /\ (i - 1) + 1 = i
  BY <1>1, <1>2
<1>9. QueueOK(f)
  <2>1. \A i \in DOMAIN f.queue : f.queue[i].id < f.nextId
    BY <1>5, <1>6, <1>7 DEF QueueOK
  <2>2. ASSUME NEW i \in DOMAIN f.queue, NEW j \in DOMAIN f.queue, f.queue[i].id = f.queue[j].id
        PROVE  i = j
    <3>1. i + 1 = j + 1
      BY <1>6, <1>7, <2>2 DEF QueueOK
    <3> QED
      BY <1>2, <1>6, <3>1
  <2>3. ASSUME NEW i \in DOMAIN f.queue, NEW j \in DOMAIN f.queue, i < j
        PROVE  i + 1 < j + 1 /\ i + 1 \in DOMAIN e.queue /\ j + 1 \in DOMAIN e.queue /\ f.queue[i] = e.queue[i + 1] /\ f.queue[j] = e.queue[j + 1]
    <3>1. i \in 1..(n - 1) /\ j \in 1..(n - 1) /\ i \in Int /\ j \in Int
      BY <1>2, <1>6
    <3> QED
      BY <1>7, <2>3, <3>1
  <2>4. ~f.newStuff => \A i, j \in DOMAIN f.queue : i < j => sortFun(f.queue[i], f.queue[j])
    <3> SUFFICES ASSUME ~f.newStuff, NEW i \in DOMAIN f.queue, NEW j \in DOMAIN f.queue, i < j
                 PROVE  sortFun(f.queue[i], f.queue[j])
      OBVIOUS
    <3>1. i + 1 < j + 1 /\ i + 1 \in DOMAIN e.queue /\ j + 1 \in DOMAIN e.queue /\ f.queue[i] = e.queue[i + 1] /\ f.queue[j] = e.queue[j + 1]
      BY <2>3
    <3> QED
      BY <1>5, <3>1 DEF QueueOK
  <2>5. f.looping => \A i, j \in DOMAIN f.queue : i < j /\ f.queue[i].time <= f.now => sortFun(f.queue[i], f.queue[j])
    <3> SUFFICES ASSUME f.looping, NEW i \in DOMAIN f.queue, NEW j \in DOMAIN f.queue, i < j, f.queue[i].time <= f.now
                 PROVE  sortFun(f.queue[i], f.queue[j])
      OBVIOUS
    <3>1. i + 1 < j + 1 /\ i + 1 \in DOMAIN e.queue /\ j + 1 \in DOMAIN e.queue /\ f.queue[i] = e.queue[i + 1] /\ f.queue[j] = e.queue[j + 1]
      BY <2>3
    <3> QED
      BY <1>5, <3>1 DEF QueueOK
  <2> QED
    BY <1>4, <2>1, <2>2, <2>4, <2>5 DEF QueueOK
<1>10. ASSUME NEW t
       PROVE  t \in Queued(f) <=> t \in Queued(e) /\ t # Head(e.queue)
  <2>1. ASSUME NEW i \in 1..(n - 1)
        PROVE  e.queue[i + 1] # e.queue[1]
    BY <1>7, <1>8 DEF QueueOK
  <2>2. ASSUME t \in Queued(f)
        PROVE  t \in Queued(e) /\ t # Head(e.queue)
    <3>1. PICK i \in DOMAIN f.queue : t = f.queue[i]
      BY <2>2 DEF Queued
    <3>2. i \in 1..(n - 1)
      BY <1>6
    <3>3. t = e.queue[i + 1] /\ i + 1 \in DOMAIN e.queue /\ e.queue[i + 1] # e.queue[1]
      BY <1>7, <2>1, <3>1, <3>2
    <3> QED
      BY <1>2, <3>3 DEF Queued
  <2>3. ASSUME t \in Queued(e), t # Head(e.queue)
        PROVE  t \in Queued(f)
    <3>1. PICK i \in DOMAIN e.queue : t = e.queue[i]
      BY <2>3 DEF Queued
    <3>2. i # 1
      BY <1>2, <2>3, <3>1
    <3>3. i - 1 \in 1..(n - 1) /\ (i - 1) + 1 = i
      BY <1>8, <3>2
    <3>4. f.queue[i - 1] = e.queue[i]
      BY <1>7, <3>3
    <3> QED
      BY <1>6, <3>1, <3>3, <3>4 DEF Queued
  <2> QED
    BY <2>2, <2>3
<1> QED
  BY <1>2, <1>4, <1>5, <1>6, <1>7, <1>8, <1>9, <1>10 DEF f, n, Queued

-----------------------------------------------------------------------------
(* What says the same of other states.                                        *)
LEMMA ListKept ==
  ASSUME NEW e, NEW f, ListOK(e), f.objs = e.objs, f.list = e.list
  PROVE  ListOK(f)
  BY DEF ListOK, Listed

LEMMA RepeatKept ==
  ASSUME NEW e, NEW f, RepeatOK(e), SameRepeated(e, f),
         \A t : t.what = "repeat" => (t \in Queued(f) <=> t \in Queued(e))
  PROVE  RepeatOK(f)
<1> DEFINE Q == Queued(e)
           W == Queued(f)
<1>1. \A t : t.what = "repeat" => (t \in W <=> t \in Q)
  OBVIOUS
<1> HIDE DEF Q, W
<1>2. f.repeated = e.repeated /\ f.repeats = e.repeats
  BY DEF SameRepeated
<1> QED
  BY <1>1, <1>2 DEF RepeatOK, Q, W

LEMMA UseKept ==
  ASSUME NEW e, NEW f, UseOK(e), SameUse(e, f), \A t : t \in Queued(e) /\ t.what = "verify" => t \in Queued(f)
  PROVE  UseOK(f)
  BY DEF UseOK, SameUse

LEMMA AtOnceKept ==
  ASSUME NEW e, NEW f, AtOnce(e), SameTold(e, f), \A t \in Queued(f) : t \in Queued(e) \/ t.what \notin Telling
  PROVE  AtOnce(f)
<1>1. /\ f.objs = e.objs /\ f.list = e.list /\ f.dispatch = e.dispatch /\ f.n = e.n /\ f.owed = e.owed
  BY DEF SameTold
<1>2. \A t \in Queued(f) : t.what \notin Telling
  BY DEF AtOnce
<1>3. \A h \in Handlers : Reached(f, h) <=> Reached(e, h)
  BY <1>1 DEF Reached
<1> QED
  BY <1>1, <1>2, <1>3 DEF AtOnce

(* The positions of the tasks for a listener are finitely many.               *)
LEMMA PositionsAre ==
  ASSUME NEW e \in EventsState, NEW h
  PROVE  /\ PositionsFor(e, h) \in SUBSET Nat /\ IsFiniteSet(PositionsFor(e, h))
         /\ PositionsFor(e, h) \subseteq DOMAIN e.queue
         /\ \A i \in PositionsFor(e, h) : WhatIsTold(e)[i] \in ToTell /\ WhatIsTold(e)[i] = <<e.queue[i].what, e.queue[i].n>>
         /\ Undelivered(e, h) = Pick(WhatIsTold(e), PositionsFor(e, h))
<1>1. e.queue \in Seq(EventTask) /\ Len(e.queue) \in Nat /\ DOMAIN e.queue = 1..Len(e.queue)
  BY DEF EventsState
<1>2. PositionsFor(e, h) \in SUBSET (DOMAIN e.queue)
  BY DEF PositionsFor
<1>3. IsFiniteSet(1..Len(e.queue))
  BY <1>1, CountTo
<1>4. IsFiniteSet(PositionsFor(e, h))
  BY <1>1, <1>2, <1>3, FS_Subset
<1>5. PositionsFor(e, h) \in SUBSET Nat
  BY <1>1, <1>2
<1>6. ASSUME NEW i \in PositionsFor(e, h)
      PROVE  WhatIsTold(e)[i] \in ToTell /\ WhatIsTold(e)[i] = <<e.queue[i].what, e.queue[i].n>>
  <2>1. i \in DOMAIN e.queue /\ e.queue[i] \in EventTask /\ e.queue[i].what \in Telling
    BY <1>1, <1>2 DEF PositionsFor, IsFor, Telling
  <2> QED
    BY <2>1 DEF WhatIsTold, ToTell, EventTask
<1> QED
  BY <1>2, <1>4, <1>5, <1>6 DEF Undelivered, PositionsFor

(* Tasks that are added, of which at most one is for a listener.              *)
LEMMA UndeliveredSame ==
  ASSUME NEW e \in EventsState, NEW ts \in Seq(EventTask), NEW d \in Nat, NEW h, \A k \in DOMAIN ts : ~IsFor(e, h, ts[k])
  PROVE  Undelivered(addTimedTasks(e, ts, d), h) = Undelivered(e, h)
<1> DEFINE f == addTimedTasks(e, ts, d)
           P == PositionsFor(e, h)
<1>1. f \in EventsState /\ f.objs = e.objs
  BY AddedLast DEF SameTold
<1>2. ASSUME NEW i \in DOMAIN e.queue
      PROVE  i \in DOMAIN f.queue /\ f.queue[i] = e.queue[i]
  BY AddedAt
<1>3. ASSUME NEW k \in DOMAIN ts
      PROVE  ~IsFor(f, h, NewTask(e, ts[k], d, k))
  <2>1. ts[k] \in EventTask
    OBVIOUS
  <2>2. NewTask(e, ts[k], d, k).what = ts[k].what /\ NewTask(e, ts[k], d, k).l = ts[k].l
    BY <2>1 DEF NewTask, EventTask
  <2> HIDE DEF f
  <2> QED
    BY <1>1, <2>2 DEF IsFor, Forced
<1>4. \A i \in DOMAIN f.queue : i \in DOMAIN e.queue \/ \E k \in DOMAIN ts : f.queue[i] = NewTask(e, ts[k], d, k)
  BY AddedTasks
<1> HIDE DEF f
<1>5. PositionsFor(f, h) = P
  <2>1. ASSUME NEW i \in PositionsFor(f, h)
        PROVE  i \in P
    <3>1. i \in DOMAIN f.queue /\ IsFor(f, h, f.queue[i])
      BY DEF PositionsFor
    <3>2. i \in DOMAIN e.queue
      BY <1>3, <1>4, <3>1
    <3> QED
      BY <1>1, <1>2, <3>1, <3>2 DEF PositionsFor, IsFor
  <2>2. ASSUME NEW i \in P
        PROVE  i \in PositionsFor(f, h)
    BY <1>1, <1>2 DEF PositionsFor, IsFor
  <2> QED
    BY <2>1, <2>2
<1>6. \A i \in P : WhatIsTold(f)[i] = WhatIsTold(e)[i]
  BY <1>2 DEF WhatIsTold, PositionsFor
<1>7. Pick(WhatIsTold(f), P) = Pick(WhatIsTold(e), P)
  <2>1. P \in SUBSET Nat /\ IsFiniteSet(P)
    BY PositionsAre
  <2> QED
    BY <1>6, <2>1, PickSame
<1> QED
  BY <1>1, <1>5, <1>7, PositionsAre DEF f

LEMMA UndeliveredMore ==
  ASSUME NEW e \in EventsState, NEW ts \in Seq(EventTask), NEW d \in Nat, NEW h, NEW k \in DOMAIN ts, IsFor(e, h, ts[k]),
         \A j \in DOMAIN ts : IsFor(e, h, ts[j]) => j = k
  PROVE  Undelivered(addTimedTasks(e, ts, d), h) = Append(Undelivered(e, h), <<ts[k].what, ts[k].n>>)
<1> DEFINE f == addTimedTasks(e, ts, d)
           P == PositionsFor(e, h)
           q == Len(e.queue)
           last == q + k
<1>1. f \in EventsState /\ f.objs = e.objs
  BY AddedLast DEF SameTold
<1>2. ASSUME NEW i \in DOMAIN e.queue
      PROVE  i \in DOMAIN f.queue /\ f.queue[i] = e.queue[i]
  BY AddedAt
<1>3. ASSUME NEW j \in DOMAIN ts
      PROVE  IsFor(f, h, NewTask(e, ts[j], d, j)) <=> IsFor(e, h, ts[j])
  <2>1. ts[j] \in EventTask
    OBVIOUS
  <2>2. NewTask(e, ts[j], d, j).what = ts[j].what /\ NewTask(e, ts[j], d, j).l = ts[j].l
    BY <2>1 DEF NewTask, EventTask
  <2> HIDE DEF f
  <2> QED
    BY <1>1, <2>2 DEF IsFor, Forced
<1>4. \A i \in DOMAIN f.queue :
        \/ i \in DOMAIN e.queue
        \/ \E j \in DOMAIN ts : i = q + j /\ f.queue[i] = NewTask(e, ts[j], d, j)
  BY AddedTasks
<1>5. f.queue[last] = NewTask(e, ts[k], d, k)
  BY AddedAt
<1>6. ts[k] \in EventTask
  OBVIOUS
<1>7. last \in DOMAIN f.queue /\ last \in Nat /\ \A i \in DOMAIN e.queue : i < last
  BY AddedAt
<1> HIDE DEF f, q
<1>8. PositionsFor(f, h) = P \cup {last}
  <2>1. ASSUME NEW i \in PositionsFor(f, h)
        PROVE  i \in P \cup {last}
    <3>1. i \in DOMAIN f.queue /\ IsFor(f, h, f.queue[i])
      BY DEF PositionsFor
    <3>2. CASE i \in DOMAIN e.queue
      BY <1>1, <1>2, <3>1, <3>2 DEF PositionsFor, IsFor
    <3>3. CASE i \notin DOMAIN e.queue
      <4>1. PICK j \in DOMAIN ts : i = q + j /\ f.queue[i] = NewTask(e, ts[j], d, j)
        BY <1>4, <3>1, <3>3
      <4>2. j = k
        BY <1>3, <3>1, <4>1
      <4> QED
        BY <4>1, <4>2
    <3> QED
      BY <3>2, <3>3
  <2>2. ASSUME NEW i \in P
        PROVE  i \in PositionsFor(f, h)
    BY <1>1, <1>2 DEF PositionsFor, IsFor
  <2>3. last \in PositionsFor(f, h)
    BY <1>3, <1>5, <1>7 DEF PositionsFor
  <2> QED
    BY <2>1, <2>2, <2>3
<1>9. \A i \in P : WhatIsTold(f)[i] = WhatIsTold(e)[i]
  BY <1>2 DEF WhatIsTold, PositionsFor
<1>10. WhatIsTold(f)[last] = <<ts[k].what, ts[k].n>>
  <2>1. NewTask(e, ts[k], d, k).what = ts[k].what /\ NewTask(e, ts[k], d, k).n = ts[k].n
    BY <1>6 DEF NewTask, EventTask
  <2> QED
    BY <1>5, <1>7, <2>1 DEF WhatIsTold
<1>11. P \in SUBSET Nat /\ IsFiniteSet(P) /\ \A i \in P : i < last
  BY <1>7, PositionsAre
<1> HIDE DEF P, last
<1>12. Pick(WhatIsTold(f), P) = Pick(WhatIsTold(e), P)
  BY <1>9, <1>11, PickSame
<1>13. Pick(WhatIsTold(f), P \cup {last}) = Append(Pick(WhatIsTold(f), P), WhatIsTold(f)[last])
  BY <1>7, <1>11, PickMore
<1>14. Undelivered(e, h) = Pick(WhatIsTold(e), P) /\ Undelivered(f, h) = Pick(WhatIsTold(f), PositionsFor(f, h))
  BY <1>1, PositionsAre DEF P
<1> QED
  BY <1>8, <1>10, <1>12, <1>13, <1>14 DEF f

(* What is told stays in sequence when tasks are added for now, or for later  *)
(* and to tell nothing.                                                       *)
LEMMA AddedInSequence ==
  ASSUME NEW e, QueueOK(e), InSequence(e), NEW ts \in Seq(EventTask), NEW d \in Nat,
         \A k \in DOMAIN ts : ts[k].what \in Telling => ts[k].l \in DOMAIN e.objs /\ d = 0
  PROVE  InSequence(addTimedTasks(e, ts, d))
<1> DEFINE f == addTimedTasks(e, ts, d)
<1>1. e \in EventsState /\ e.queue \in Seq(EventTask) /\ e.now \in Nat /\ e.nextId \in Nat
  BY DEF QueueOK, EventsState
<1>2. f \in EventsState /\ f.objs = e.objs /\ f.now = e.now /\ QueueOK(f)
  <2>0. e \in EventsState /\ ts \in Seq(EventTask) /\ d \in Nat
    BY <1>1
  <2>1. f \in EventsState /\ SameTold(e, f) /\ f.now = e.now
    BY ONLY <2>0, AddedLast
  <2>2. QueueOK(f)
    BY AddedQueueOK
  <2> QED
    BY <2>1, <2>2 DEF SameTold
<1>3. Queued(f) = Queued(e) \cup {NewTask(e, ts[k], d, k) : k \in DOMAIN ts}
  BY <1>1, AddedQueued
<1>4. \A i \in DOMAIN f.queue :
        \/ i \in DOMAIN e.queue /\ f.queue[i] = e.queue[i]
        \/ \E k \in DOMAIN ts : i = Len(e.queue) + k /\ f.queue[i] = NewTask(e, ts[k], d, k)
  BY <1>1, AddedTasks
<1>5. \A k \in DOMAIN ts : Len(e.queue) + k \in Nat /\ \A i \in DOMAIN e.queue : i < Len(e.queue) + k
  BY <1>1, AddedAt
<1>6. ASSUME NEW k \in DOMAIN ts
      PROVE  /\ NewTask(e, ts[k], d, k).what = ts[k].what /\ NewTask(e, ts[k], d, k).l = ts[k].l
             /\ NewTask(e, ts[k], d, k).time = e.now + d /\ NewTask(e, ts[k], d, k).id = e.nextId + k - 1 /\ k \in Nat \ {0}
  <2>1. ts[k] \in EventTask /\ k \in Nat \ {0}
    OBVIOUS
  <2> QED
    BY <2>1 DEF NewTask, EventTask
<1>7. Len(e.queue) \in Nat /\ \A i \in DOMAIN e.queue : i \in Nat
  BY <1>1
<1> HIDE DEF f
<1>8. ASSUME NEW t \in Queued(f), t.what \in Telling
      PROVE  t.l \in DOMAIN f.objs /\ t.time <= f.now
  <2>1. CASE t \in Queued(e)
    BY <1>2, <1>8, <2>1 DEF InSequence
  <2>2. CASE \E k \in DOMAIN ts : t = NewTask(e, ts[k], d, k)
    <3>1. PICK k \in DOMAIN ts : t = NewTask(e, ts[k], d, k)
      BY <2>2
    <3>2. t.what = ts[k].what /\ t.l = ts[k].l /\ t.time = e.now + d
      BY <1>6, <3>1
    <3> QED
      BY <1>1, <1>2, <1>8, <3>2
  <2> QED
    BY <1>3, <2>1, <2>2
<1>9. ASSUME NEW i \in DOMAIN f.queue, NEW j \in DOMAIN f.queue, f.queue[i].what \in Telling, f.queue[j].what \in Telling, i < j
      PROVE  sortFun(f.queue[i], f.queue[j])
  <2>1. CASE i \in DOMAIN e.queue /\ f.queue[i] = e.queue[i]
    <3>0. e.queue[i] \in EventTask /\ e.queue[i] \in Queued(e)
      BY <1>1, <2>1 DEF Queued
    <3>1. /\ e.queue[i].time <= e.now /\ e.queue[i].id < e.nextId
          /\ e.queue[i].id \in Nat /\ e.queue[i].time \in Nat
      BY <1>9, <2>1, <3>0 DEF InSequence, QueueOK, EventTask
    <3>2. CASE j \in DOMAIN e.queue /\ f.queue[j] = e.queue[j]
      BY <1>9, <2>1, <3>2 DEF InSequence
    <3>3. CASE \E k \in DOMAIN ts : j = Len(e.queue) + k /\ f.queue[j] = NewTask(e, ts[k], d, k)
      <4>1. PICK k \in DOMAIN ts : f.queue[j] = NewTask(e, ts[k], d, k)
        BY <3>3
      <4>2. f.queue[j].time = e.now + d /\ f.queue[j].id = e.nextId + k - 1 /\ k \in Nat \ {0}
        BY <1>6, <4>1
      <4>3. e.now + d >= e.now /\ e.nextId + k - 1 >= e.nextId /\ e.now + d \in Nat /\ e.nextId + k - 1 \in Nat
        BY <1>1, <4>2
      <4> QED
        <5>1. f.queue[i].time <= f.queue[j].time /\ f.queue[i].id < f.queue[j].id
          <6>1. f.queue[i].time = e.queue[i].time /\ f.queue[i].id = e.queue[i].id
            BY <2>1
          <6>2. e.queue[i].time <= e.now + d
            BY <1>1, <3>1, <4>3
          <6>3. e.queue[i].id < e.nextId + k - 1
            BY <1>1, <3>1, <4>3
          <6> QED
            BY <4>2, <6>1, <6>2, <6>3
        <5>2. f.queue[i].time \in Nat /\ f.queue[j].time \in Nat
          BY <2>1, <3>1, <4>2, <4>3
        <5> QED
          BY <5>1, <5>2 DEF sortFun
    <3> QED
      BY <1>4, <3>2, <3>3
  <2>2. CASE \E k \in DOMAIN ts : i = Len(e.queue) + k /\ f.queue[i] = NewTask(e, ts[k], d, k)
    <3>1. PICK k \in DOMAIN ts : i = Len(e.queue) + k /\ f.queue[i] = NewTask(e, ts[k], d, k)
      BY <2>2
    <3>2. CASE j \in DOMAIN e.queue
      <4>1. j < i /\ i \in Nat /\ j \in Nat
        BY <1>5, <1>7, <3>1, <3>2
      <4> QED
        BY <1>9, <4>1
    <3>3. CASE \E m \in DOMAIN ts : j = Len(e.queue) + m /\ f.queue[j] = NewTask(e, ts[m], d, m)
      <4>1. PICK m \in DOMAIN ts : j = Len(e.queue) + m /\ f.queue[j] = NewTask(e, ts[m], d, m)
        BY <3>3
      <4>2. k \in Nat \ {0} /\ m \in Nat \ {0}
        BY <1>6
      <4>3. k < m
        BY <1>7, <1>9, <3>1, <4>1, <4>2
      <4>4. e.nextId + k - 1 < e.nextId + m - 1
        BY <1>1, <4>2, <4>3
      <4>5. /\ f.queue[i].time = e.now + d /\ f.queue[i].id = e.nextId + k - 1
            /\ f.queue[j].time = e.now + d /\ f.queue[j].id = e.nextId + m - 1
        BY <1>6, <3>1, <4>1
      <4> QED
        BY <4>4, <4>5 DEF sortFun
    <3> QED
      BY <1>4, <3>2, <3>3
  <2> QED
    BY <1>4, <2>1, <2>2
<1> QED
  BY <1>8, <1>9 DEF InSequence, f

(* A turn changes the order of other tasks only.                              *)
LEMMA TurnTells ==
  ASSUME NEW e, QueueOK(e), ByTasks(e), NEW now \in Nat, now >= e.now
  PROVE  ByTasks(TurnOf(e, now))
<1> DEFINE f == TurnOf(e, now)
           D == DOMAIN e.queue
<1>1. f \in EventsState /\ DOMAIN f.queue = D /\ f.now = now /\ SameTold(e, f)
  BY TurnMoves
<1>2. PICK g \in Bijection(D, D) :
        /\ \A i \in D : f.queue[g[i]] = e.queue[i]
        /\ \A i, j \in D : sortFun(e.queue[i], e.queue[j]) <=> g[i] < g[j]
  BY TurnMoves
<1>3. g \in [D -> D] /\ (\A r \in D : \E i \in D : g[i] = r) /\ \A i, j \in D : g[i] = g[j] => i = j
  BY DEF Bijection, Injection, Surjection, IsInjective
<1>4. Queued(f) = Queued(e) /\ QueueOK(f)
  BY TurnQueueOK
<1>5. e \in EventsState /\ e.queue \in Seq(EventTask) /\ e.now \in Nat /\ DOMAIN e.queue \subseteq Nat
  BY DEF QueueOK, EventsState
<1> HIDE DEF f
<1>6. ASSUME NEW t \in Queued(f), t.what \in Telling
      PROVE  t.l \in DOMAIN f.objs /\ t.time <= f.now
  <2>1. t \in EventTask /\ t.l \in DOMAIN e.objs /\ t.time <= e.now
    <3>1. t \in Queued(e)
      BY <1>4
    <3>2. t \in EventTask
      BY <1>5, <3>1 DEF Queued
    <3> QED
      BY <1>6, <3>1, <3>2 DEF ByTasks, InSequence
  <2>2. t.time \in Nat
    BY <2>1 DEF EventTask
  <2> QED
    BY <1>1, <1>5, <2>1, <2>2 DEF SameTold
<1>7. ASSUME NEW i \in D, NEW j \in D, {e.queue[i].what, e.queue[j].what} \subseteq Telling, i < j
      PROVE  sortFun(e.queue[i], e.queue[j]) /\ g[i] < g[j]
  BY <1>2, <1>7 DEF ByTasks, InSequence
<1>8. ASSUME NEW r \in D, NEW s \in D, {f.queue[r].what, f.queue[s].what} \subseteq Telling, r < s
      PROVE  sortFun(f.queue[r], f.queue[s])
  <2>1. PICK i \in D : g[i] = r
    BY <1>3
  <2>2. PICK j \in D : g[j] = s
    BY <1>3
  <2> QED
    BY <1>2, <1>8, <2>1, <2>2
<1>9. ASSUME NEW h \in Handlers
      PROVE  Undelivered(f, h) = f.owed[h]
  <2> DEFINE P == PositionsFor(e, h)
             Q == PositionsFor(f, h)
             m == [i \in P |-> g[i]]
  <2>1. /\ P \in SUBSET Nat /\ IsFiniteSet(P) /\ P \subseteq D /\ Q \in SUBSET Nat /\ Q \subseteq D
        /\ Undelivered(e, h) = Pick(WhatIsTold(e), P) /\ Undelivered(f, h) = Pick(WhatIsTold(f), Q)
    BY <1>1, <1>5, PositionsAre
  <2>2. \A i \in D : i \in P <=> g[i] \in Q
    BY <1>1, <1>2, <1>3 DEF PositionsFor, IsFor, SameTold
  <2>3. \A i, j \in P : i < j => m[i] < m[j]
    <3> SUFFICES ASSUME NEW i \in P, NEW j \in P, i < j
                 PROVE  g[i] < g[j]
      OBVIOUS
    <3>1. i \in D /\ j \in D /\ {e.queue[i].what, e.queue[j].what} \subseteq Telling
      BY DEF PositionsFor, IsFor, Telling
    <3> QED
      BY <1>7, <3>1
  <2>4. \A i \in P : WhatIsTold(f)[m[i]] = WhatIsTold(e)[i]
    BY <1>1, <1>2, <1>3, <2>1 DEF WhatIsTold
  <2> HIDE DEF P, Q
  <2>5. m \in Bijection(P, Q)
    <3>1. m \in [P -> Q]
      BY <2>1, <2>2
    <3>2. \A i, j \in P : m[i] = m[j] => i = j
      BY <1>3, <2>1
    <3>3. \A r \in Q : \E i \in P : m[i] = r
      BY <1>3, <2>1, <2>2
    <3> QED
      BY <3>1, <3>2, <3>3 DEF Bijection, Injection, Surjection, IsInjective
  <2> HIDE DEF m
  <2>6. Pick(WhatIsTold(f), Q) = Pick(WhatIsTold(e), P)
    BY <2>1, <2>3, <2>4, <2>5, PickAlong
  <2> QED
    BY <1>1, <2>1, <2>6 DEF ByTasks, SameTold
<1> QED
  BY <1>1, <1>6, <1>8, <1>9 DEF ByTasks, InSequence, SameTold, f

(* The first task is the first for its listener.                              *)
LEMMA TakenTells ==
  ASSUME NEW e, QueueOK(e), InSequence(e), e.queue # <<>>
  PROVE  LET f == TakenFrom(e)
             t == Head(e.queue)
         IN /\ InSequence(f)
            /\ \A h : IF IsFor(e, h, t)
                      THEN /\ Undelivered(e, h) # <<>> /\ Head(Undelivered(e, h)) = <<t.what, t.n>>
                           /\ Undelivered(f, h) = Tail(Undelivered(e, h))
                      ELSE Undelivered(f, h) = Undelivered(e, h)
<1> DEFINE f == TakenFrom(e)
           n == Len(e.queue)
           first == Head(e.queue)
<1>1. /\ f \in EventsState /\ f.now = e.now /\ SameTold(e, f)
      /\ n \in Nat \ {0} /\ DOMAIN e.queue = 1..n /\ DOMAIN f.queue = 1..(n - 1)
      /\ \A i \in 1..(n - 1) : f.queue[i] = e.queue[i + 1]
      /\ first = e.queue[1]
      /\ \A t : t \in Queued(f) <=> t \in Queued(e) /\ t # first
  BY TakesFirst
<1>2. e \in EventsState
  BY DEF QueueOK
<1> HIDE DEF f, n, first
<1>3. \A i \in 1..(n - 1) : i + 1 \in 1..n /\ i \in Nat /\ (i + 1) - 1 = i
  BY <1>1
<1>4. \A i \in 1..n : i # 1 => i - 1 \in 1..(n - 1) /\ (i - 1) + 1 = i
  BY <1>1
<1>5. InSequence(f)
  <2>1. ASSUME NEW i \in DOMAIN f.queue, NEW j \in DOMAIN f.queue, {f.queue[i].what, f.queue[j].what} \subseteq Telling, i < j
        PROVE  sortFun(f.queue[i], f.queue[j])
    <3>1. /\ i + 1 \in DOMAIN e.queue /\ j + 1 \in DOMAIN e.queue
          /\ f.queue[i] = e.queue[i + 1] /\ f.queue[j] = e.queue[j + 1] /\ i \in Nat /\ j \in Nat
      BY <1>1, <1>3
    <3>2. i + 1 < j + 1
      BY <2>1, <3>1
    <3> QED
      BY <2>1, <3>1, <3>2 DEF InSequence
  <2> QED
    BY <1>1, <2>1 DEF InSequence, SameTold
<1>6. ASSUME NEW h
      PROVE  LET P == PositionsFor(e, h)
             IN Undelivered(f, h) = Pick(WhatIsTold(e), P \ {1})
  <2> DEFINE P == PositionsFor(e, h) \ {1}
             Q == PositionsFor(f, h)
             m == [i \in P |-> i - 1]
  <2>1. /\ PositionsFor(e, h) \in SUBSET Nat /\ IsFiniteSet(PositionsFor(e, h)) /\ PositionsFor(e, h) \subseteq 1..n
        /\ Q \in SUBSET Nat /\ Q \subseteq 1..(n - 1) /\ Undelivered(f, h) = Pick(WhatIsTold(f), Q)
    BY <1>1, <1>2, PositionsAre
  <2>2. P \in SUBSET Nat /\ IsFiniteSet(P) /\ P \subseteq 1..n /\ 1 \notin P
    BY <2>1, FS_Subset
  <2>3. \A i \in P : i - 1 \in Q
    <3> SUFFICES ASSUME NEW i \in P
                 PROVE  i - 1 \in Q
      OBVIOUS
    <3>1. i \in 1..n /\ i # 1 /\ IsFor(e, h, e.queue[i])
      BY <2>2 DEF PositionsFor
    <3>2. i - 1 \in DOMAIN f.queue /\ f.queue[i - 1] = e.queue[i]
      BY <1>1, <1>4, <3>1
    <3> QED
      BY <1>1, <3>1, <3>2 DEF PositionsFor, IsFor, SameTold
  <2>4. \A r \in Q : r + 1 \in P
    <3> SUFFICES ASSUME NEW r \in Q
                 PROVE  r + 1 \in P
      OBVIOUS
    <3>1. r \in 1..(n - 1) /\ IsFor(f, h, f.queue[r])
      BY <2>1 DEF PositionsFor
    <3>2. r + 1 \in DOMAIN e.queue /\ f.queue[r] = e.queue[r + 1] /\ r + 1 # 1
      BY <1>1, <1>3, <3>1
    <3> QED
      BY <1>1, <3>1, <3>2 DEF PositionsFor, IsFor, SameTold
  <2>5. \A i \in P : WhatIsTold(f)[m[i]] = WhatIsTold(e)[i]
    <3> SUFFICES ASSUME NEW i \in P
                 PROVE  WhatIsTold(f)[i - 1] = WhatIsTold(e)[i]
      OBVIOUS
    <3>1. i \in DOMAIN e.queue /\ i - 1 \in DOMAIN f.queue /\ f.queue[i - 1] = e.queue[i]
      BY <1>1, <1>4, <2>2
    <3> QED
      BY <3>1 DEF WhatIsTold
  <2> HIDE DEF P, Q
  <2>6. m \in Bijection(P, Q)
    <3>1. m \in [P -> Q]
      BY <2>3
    <3>2. \A i, j \in P : m[i] = m[j] => i = j
      BY <2>2
    <3>3. ASSUME NEW r \in Q
          PROVE  \E i \in P : m[i] = r
      <4>1. r + 1 \in P /\ r \in Nat
        BY <2>1, <2>4
      <4>2. m[r + 1] = r
        BY <4>1
      <4> QED
        BY <4>1, <4>2
    <3> QED
      BY <3>1, <3>2, <3>3 DEF Bijection, Injection, Surjection, IsInjective
  <2>7. \A i, j \in P : i < j => m[i] < m[j]
    BY <2>2
  <2> HIDE DEF m
  <2>8. Pick(WhatIsTold(f), Q) = Pick(WhatIsTold(e), P)
    BY <2>1, <2>2, <2>5, <2>6, <2>7, PickAlong
  <2> QED
    BY <2>1, <2>8 DEF P
<1>7. ASSUME NEW h, IsFor(e, h, first)
      PROVE  /\ Undelivered(e, h) # <<>> /\ Head(Undelivered(e, h)) = <<first.what, first.n>>
             /\ Undelivered(f, h) = Tail(Undelivered(e, h))
  <2> DEFINE P == PositionsFor(e, h)
             T == ToTell
  <2>1. /\ P \in SUBSET Nat /\ IsFiniteSet(P) /\ P \subseteq 1..n
        /\ \A i \in P : WhatIsTold(e)[i] \in T /\ WhatIsTold(e)[i] = <<e.queue[i].what, e.queue[i].n>>
        /\ Undelivered(e, h) = Pick(WhatIsTold(e), P)
    BY <1>1, <1>2, PositionsAre
  <2>2. 1 \in P
    BY <1>1, <1>7 DEF PositionsFor
  <2>3. \A i \in P : 1 <= i
    BY <1>1, <2>1
  <2>4. Undelivered(f, h) = Pick(WhatIsTold(e), P \ {1})
    BY <1>6
  <2> HIDE DEF P, T
  <2>5. Nth(P, 1) \in P /\ \A i \in P : Nth(P, 1) <= i
    BY <2>1, <2>2, NthFirst
  <2>6. Nth(P, 1) = 1
    <3>1. Nth(P, 1) \in Nat /\ 1 <= Nth(P, 1) /\ Nth(P, 1) <= 1
      BY <2>1, <2>2, <2>3, <2>5
    <3> QED
      BY <3>1
  <2>7. /\ Pick(WhatIsTold(e), P \ {Nth(P, 1)}) = Tail(Pick(WhatIsTold(e), P))
        /\ Pick(WhatIsTold(e), P) # <<>>
        /\ Head(Pick(WhatIsTold(e), P)) = WhatIsTold(e)[Nth(P, 1)]
    BY <2>1, <2>2, PickRest
  <2> QED
    BY <1>1, <2>1, <2>2, <2>4, <2>6, <2>7
<1>8. ASSUME NEW h, ~IsFor(e, h, first)
      PROVE  Undelivered(f, h) = Undelivered(e, h)
  <2>1. 1 \notin PositionsFor(e, h)
    BY <1>1, <1>8 DEF PositionsFor
  <2>2. PositionsFor(e, h) \ {1} = PositionsFor(e, h)
    BY <2>1
  <2>3. Undelivered(e, h) = Pick(WhatIsTold(e), PositionsFor(e, h))
    BY <1>2, PositionsAre
  <2> QED
    BY <1>6, <2>2, <2>3
<1> QED
  BY <1>5, <1>7, <1>8 DEF f, first

-----------------------------------------------------------------------------
SameQueue(e, f) ==
    f.queue = e.queue /\ f.now = e.now /\ f.nextId = e.nextId /\ f.newStuff = e.newStuff /\ f.looping = e.looping

LEMMA QueueKept ==
  ASSUME NEW e, QueueOK(e), NEW f \in EventsState, SameQueue(e, f)
  PROVE  QueueOK(f) /\ Queued(f) = Queued(e)
  BY DEF QueueOK, Queued, SameQueue

LEMMA UndeliveredKept ==
  ASSUME NEW e, NEW f, f.queue = e.queue, NEW h, \A t \in Queued(e) : IsFor(f, h, t) <=> IsFor(e, h, t)
  PROVE  Undelivered(f, h) = Undelivered(e, h)
<1>1. WhatIsTold(f) = WhatIsTold(e)
  BY DEF WhatIsTold
<1>2. {i \in DOMAIN f.queue : IsFor(f, h, f.queue[i])} = {i \in DOMAIN e.queue : IsFor(e, h, e.queue[i])}
  BY DEF Queued
<1> QED
  BY <1>1, <1>2 DEF Undelivered

(* Tasks that are added, and repeat nothing.                                  *)
LEMMA AddedOK ==
  ASSUME NEW e, QueueOK(e), ListOK(e), RepeatOK(e), UseOK(e), NEW ts \in Seq(EventTask), NEW d \in Nat,
         \A k \in DOMAIN ts : ts[k].what # "repeat"
  PROVE  LET f == addTimedTasks(e, ts, d) IN QueueOK(f) /\ ListOK(f) /\ RepeatOK(f) /\ UseOK(f)
<1> DEFINE f == addTimedTasks(e, ts, d)
<1>1. e \in EventsState
  BY DEF QueueOK
<1>2. QueueOK(f)
  BY AddedQueueOK
<1>3. SameTold(e, f) /\ SameRepeated(e, f) /\ SameUse(e, f)
  BY ONLY <1>1, ts \in Seq(EventTask), d \in Nat, AddedLast
<1>4. Queued(f) = Queued(e) \cup {NewTask(e, ts[k], d, k) : k \in DOMAIN ts}
  BY <1>1, AddedQueued
<1>5. ASSUME NEW k \in DOMAIN ts
      PROVE  NewTask(e, ts[k], d, k).what # "repeat"
  <2>1. ts[k] \in EventTask
    OBVIOUS
  <2>2. NewTask(e, ts[k], d, k).what = ts[k].what
    BY <2>1 DEF NewTask, EventTask
  <2> QED
    BY <2>2
<1> HIDE DEF f
<1>6. ListOK(f)
  BY <1>3, ListKept DEF SameTold
<1>7. \A t : t.what = "repeat" => (t \in Queued(f) <=> t \in Queued(e))
  BY <1>4, <1>5
<1>8. \A t : t \in Queued(e) /\ t.what = "verify" => t \in Queued(f)
  BY <1>4
<1> QED
  BY <1>2, <1>3, <1>6, <1>7, <1>8, RepeatKept, UseKept DEF f

(* Those that tell nothing leave what is told.                                *)
LEMMA AddedTells ==
  ASSUME NEW e, QueueOK(e), TellOK(e), NEW ts \in Seq(EventTask), NEW d \in Nat,
         \A k \in DOMAIN ts : ts[k].what \notin Telling
  PROVE  TellOK(addTimedTasks(e, ts, d))
<1> DEFINE f == addTimedTasks(e, ts, d)
<1>1. e \in EventsState
  BY DEF QueueOK
<1>2. SameTold(e, f)
  BY ONLY <1>1, ts \in Seq(EventTask), d \in Nat, AddedLast
<1>3. Queued(f) = Queued(e) \cup {NewTask(e, ts[k], d, k) : k \in DOMAIN ts}
  BY <1>1, AddedQueued
<1>4. ASSUME NEW k \in DOMAIN ts
      PROVE  NewTask(e, ts[k], d, k).what \notin Telling
  <2>1. ts[k] \in EventTask
    OBVIOUS
  <2>2. NewTask(e, ts[k], d, k).what = ts[k].what
    BY <2>1 DEF NewTask, EventTask
  <2> QED
    BY <2>2
<1>5. CASE e.synch
  <2> HIDE DEF f
  <2>1. \A t \in Queued(f) : t \in Queued(e) \/ t.what \notin Telling
    BY <1>3, <1>4
  <2> QED
    BY <1>2, <1>5, <2>1, AtOnceKept DEF TellOK, SameTold, f
<1>6. CASE ~e.synch
  <2>1. ByTasks(e)
    BY <1>6 DEF TellOK
  <2>2. InSequence(f)
    BY <2>1, AddedInSequence DEF ByTasks
  <2>3. ASSUME NEW h \in Handlers
        PROVE  Undelivered(f, h) = f.owed[h]
    <3>1. \A k \in DOMAIN ts : ~IsFor(e, h, ts[k])
      BY DEF IsFor, Telling
    <3>2. Undelivered(f, h) = Undelivered(e, h)
      BY <1>1, <3>1, UndeliveredSame
    <3> HIDE DEF f
    <3> QED
      BY <1>2, <2>1, <3>2 DEF ByTasks, SameTold
  <2> HIDE DEF f
  <2> QED
    BY <1>2, <1>6, <2>1, <2>2, <2>3 DEF TellOK, ByTasks, SameTold, f
<1> QED
  BY <1>5, <1>6

-----------------------------------------------------------------------------
PackIs == \A what \in Telling \cup {"verify", "repeat"}, l \in Nat, n \in Nat :
             /\ Pack(what, l, n) \in EventTask /\ Pack(what, l, n).what = what /\ Pack(what, l, n).l = l /\ Pack(what, l, n).n = n
             /\ <<Pack(what, l, n)>> \in Seq(EventTask) /\ DOMAIN <<Pack(what, l, n)>> = {1}
LEMMA Packed == PackIs
<1> SUFFICES ASSUME NEW what \in Telling \cup {"verify", "repeat"}, NEW l \in Nat, NEW n \in Nat
             PROVE  /\ Pack(what, l, n) \in EventTask /\ Pack(what, l, n).what = what /\ Pack(what, l, n).l = l /\ Pack(what, l, n).n = n
                    /\ <<Pack(what, l, n)>> \in Seq(EventTask) /\ DOMAIN <<Pack(what, l, n)>> = {1}
  BY DEF PackIs
<1>1. Pack(what, l, n) \in EventTask
  BY DEF Pack, EventTask
<1> QED
  BY <1>1 DEF Pack

(* touch, dismiss: who uses the object.                                       *)
LEMMA TouchOK ==
  ASSUME NEW e, EventsOK(e), NEW u \in Users, u \notin e.users
  PROVE  EventsOK([e EXCEPT !.users = @ \cup {u}, !.touchPhase = @ + 1, !.clean = FALSE,
                            !.inUse = (IF @ < 0 THEN 0 ELSE @) + 1])
<1> DEFINE users == e.users \cup {u}
           inUse == (IF e.inUse < 0 THEN 0 ELSE e.inUse) + 1
           phase == e.touchPhase + 1
           f == [e EXCEPT !.users = users, !.touchPhase = phase, !.clean = FALSE, !.inUse = inUse]
<1>1. e \in EventsState /\ e.inUse \in Int /\ e.touchPhase \in Nat /\ e.users \in SUBSET Users
  BY DEF EventsOK, QueueOK, EventsState
<1>2. inUse \in Int /\ phase \in Nat /\ users \in SUBSET Users
  BY <1>1
<1>3. IsFiniteSet(users) /\ inUse = Cardinality(users)
  <2>1. IsFiniteSet(e.users) /\ e.inUse = Cardinality(e.users)
    BY DEF EventsOK, UseOK
  <2>2. Cardinality(e.users) \in Nat
    BY <2>1, FS_CardinalityType
  <2>3. IsFiniteSet(users) /\ Cardinality(users) = Cardinality(e.users) + 1
    BY <2>1, FS_AddElement
  <2> HIDE DEF users
  <2> QED
    BY <2>1, <2>2, <2>3
<1>6. users # {}
  OBVIOUS
<1> HIDE DEF users, inUse, phase
<1>4. f \in EventsState
  BY <1>1, <1>2 DEF EventsState
<1>5. SameQueue(e, f) /\ SameTold(e, f) /\ SameRepeated(e, f) /\ f.users = users /\ f.inUse = inUse /\ f.clean = FALSE
  BY <1>1 DEF EventsState, SameQueue, SameTold, SameRepeated
<1> HIDE DEF f
<1>7. QueueOK(f) /\ Queued(f) = Queued(e) /\ ListOK(f)
  BY <1>4, <1>5, QueueKept, ListKept DEF EventsOK, SameTold
<1>8. RepeatOK(f)
  BY <1>5, <1>7, RepeatKept DEF EventsOK
<1>9. TellOK(f)
  <2>1. CASE e.synch
    BY <1>5, <1>7, <2>1, AtOnceKept DEF EventsOK, TellOK, SameTold
  <2>2. CASE ~e.synch
    <3>1. \A h : Undelivered(f, h) = Undelivered(e, h)
      <4>1. \A h, t : IsFor(f, h, t) <=> IsFor(e, h, t)
        BY <1>5 DEF IsFor, SameTold
      <4> QED
        BY <1>5, <4>1, UndeliveredKept DEF SameQueue
    <3> QED
      BY <1>5, <1>7, <2>2, <3>1 DEF EventsOK, TellOK, ByTasks, InSequence, SameTold, SameQueue
  <2> QED
    BY <2>1, <2>2
<1>10. UseOK(f)
  BY <1>3, <1>5, <1>6 DEF UseOK
<1> QED
  BY <1>7, <1>8, <1>9, <1>10 DEF EventsOK, f, users, inUse, phase

LEMMA TellKept ==
  ASSUME NEW e, NEW f, TellOK(e), SameTold(e, f), f.queue = e.queue, f.now = e.now
  PROVE  TellOK(f)
<1>0. f.objs = e.objs /\ f.synch = e.synch /\ f.dispatch = e.dispatch /\ f.owed = e.owed
  BY DEF SameTold
<1>1. CASE e.synch
  <2>1. Queued(f) = Queued(e)
    BY DEF Queued
  <2> QED
    BY <1>0, <1>1, <2>1, AtOnceKept DEF TellOK
<1>2. CASE ~e.synch
  <2>1. \A h, t : IsFor(f, h, t) <=> IsFor(e, h, t)
    BY <1>0 DEF IsFor
  <2>2. \A h : Undelivered(f, h) = Undelivered(e, h)
    BY <2>1, UndeliveredKept
  <2>3. ByTasks(e)
    BY <1>2 DEF TellOK
  <2>4. InSequence(f)
    BY <1>0, <2>3 DEF ByTasks, InSequence, Queued
  <2> QED
    BY <1>0, <1>2, <2>2, <2>3, <2>4 DEF TellOK, ByTasks
<1> QED
  BY <1>1, <1>2

LEMMA PackedIs ==
  ASSUME NEW what \in Telling \cup {"verify", "repeat"}, NEW l \in Nat, NEW n \in Nat
  PROVE  /\ Pack(what, l, n) \in EventTask /\ Pack(what, l, n).what = what /\ Pack(what, l, n).l = l /\ Pack(what, l, n).n = n
         /\ <<Pack(what, l, n)>> \in Seq(EventTask) /\ DOMAIN <<Pack(what, l, n)>> = {1}
  BY Packed DEF PackIs

LEMMA DismissOK ==
  ASSUME NEW e, EventsOK(e), NEW u \in e.users, EventsAssumption
  PROVE  LET f == [e EXCEPT !.users = @ \ {u}, !.inUse = @ - 1]
         IN EventsOK(IF f.inUse <= 0 THEN addTimedTask(f, Pack("verify", 0, f.touchPhase), TouchTimeout) ELSE f)
<1> DEFINE users == e.users \ {u}
           inUse == e.inUse - 1
           f == [e EXCEPT !.users = users, !.inUse = inUse]
<1>1. e \in EventsState /\ e.inUse \in Int /\ e.touchPhase \in Nat /\ e.users \in SUBSET Users
  BY DEF EventsOK, QueueOK, EventsState
<1>2. inUse \in Int /\ users \in SUBSET Users
  BY <1>1
<1>3. /\ IsFiniteSet(users) /\ inUse = Cardinality(users) /\ (inUse <= 0 => users = {})
      /\ ~e.clean
  <2>1. IsFiniteSet(e.users) /\ e.inUse = Cardinality(e.users)
    BY DEF EventsOK, UseOK
  <2>2. IsFiniteSet(users) /\ Cardinality(users) = Cardinality(e.users) - 1
    BY <2>1, FS_RemoveElement
  <2>3. Cardinality(users) \in Nat /\ (Cardinality(users) = 0 => users = {})
    BY <2>2, FS_CardinalityType, FS_EmptySet
  <2>4. e.users # {}
    OBVIOUS
  <2>5. inUse = Cardinality(users)
    BY <2>1, <2>2
  <2>6. ~e.clean
    BY <2>4 DEF EventsOK, UseOK
  <2> HIDE DEF users, inUse
  <2>7. inUse <= 0 => Cardinality(users) = 0
    BY <2>3, <2>5
  <2> QED
    BY <2>2, <2>3, <2>5, <2>6, <2>7
<1> HIDE DEF users, inUse
<1>4. f \in EventsState
  BY <1>1, <1>2 DEF EventsState
<1>5. /\ SameQueue(e, f) /\ SameTold(e, f) /\ SameRepeated(e, f)
      /\ f.users = users /\ f.inUse = inUse /\ f.clean = e.clean /\ f.touchPhase = e.touchPhase
  BY <1>1 DEF EventsState, SameQueue, SameTold, SameRepeated
<1>6. f.inUse = inUse /\ f.touchPhase \in Nat
  BY <1>1, <1>5
<1> HIDE DEF f
<1>7. QueueOK(f) /\ Queued(f) = Queued(e) /\ ListOK(f)
  BY <1>4, <1>5, QueueKept, ListKept DEF EventsOK, SameTold
<1>8. RepeatOK(f)
  BY <1>5, <1>7, RepeatKept DEF EventsOK
<1>9. TellOK(f)
  BY <1>5, TellKept DEF EventsOK, SameQueue
<1>10. CASE ~(inUse <= 0)
  <2>1. users # {}
    <3>1. Cardinality({}) = 0
      BY FS_EmptySet
    <3> QED
      BY <1>3, <1>10, <3>1
  <2>2. UseOK(f)
    BY <1>3, <1>5, <2>1 DEF UseOK
  <2>3. EventsOK(f)
    BY <1>7, <1>8, <1>9, <2>2 DEF EventsOK
  <2> QED
    BY <1>6, <1>10, <2>3 DEF f, users, inUse
<1>11. CASE inUse <= 0
  <2> DEFINE t == Pack("verify", 0, f.touchPhase)
             ts == <<t>>
             g == addTimedTasks(f, ts, TouchTimeout)
  <2>1. t \in EventTask /\ t.what = "verify" /\ t.n = f.touchPhase /\ ts \in Seq(EventTask) /\ DOMAIN ts = {1} /\ ts[1] = t
    BY ONLY <1>6, PackedIs DEF t, ts
  <2>2. TouchTimeout \in Nat
    BY DEF EventsAssumption
  <2> HIDE DEF t
  <2>3. QueueOK(g)
    BY <1>7, <2>1, <2>2, AddedQueueOK
  <2>4. SameTold(f, g) /\ SameRepeated(f, g) /\ SameUse(f, g)
    BY ONLY <1>4, <2>1, <2>2, AddedLast
  <2>5. Queued(g) = Queued(f) \cup {NewTask(f, ts[k], TouchTimeout, k) : k \in DOMAIN ts}
    BY <1>4, <2>1, <2>2, AddedQueued
  <2> DEFINE v == NewTask(f, t, TouchTimeout, 1)
  <2>6. v.what = "verify" /\ v.n = f.touchPhase
    BY <2>1, NewTaskIs
  <2> HIDE DEF v
  <2>7. Queued(g) = Queued(f) \cup {v}
    BY <2>1, <2>5 DEF v
  <2>8. TellOK(g)
    BY <1>7, <1>9, <2>1, <2>2, AddedTells DEF Telling
  <2> HIDE DEF g, ts
  <2>9. ListOK(g)
    BY <1>7, <2>4, ListKept DEF SameTold
  <2>10. RepeatOK(g)
    BY <1>8, <2>4, <2>6, <2>7, RepeatKept
  <2>11. UseOK(g)
    BY <1>3, <1>5, <1>11, <2>4, <2>6, <2>7 DEF UseOK, SameUse
  <2>12. EventsOK(g)
    BY <2>3, <2>8, <2>9, <2>10, <2>11 DEF EventsOK
  <2>13. addTimedTask(f, Pack("verify", 0, f.touchPhase), TouchTimeout) = g
    BY DEF addTimedTask, g, ts, t
  <2> QED
    BY <1>6, <1>11, <2>12, <2>13 DEF f, users, inUse
<1> QED
  BY <1>10, <1>11
-----------------------------------------------------------------------------
(* One more task that tells a listener the last thing it is owed.             *)
LEMMA OneMoreTold ==
  ASSUME NEW e, QueueOK(e), ListOK(e), RepeatOK(e), UseOK(e), ~e.synch, e.dispatch = NoDispatch, InSequence(e),
         NEW what \in {"start", "end"}, NEW l \in DOMAIN e.objs, NEW n \in Nat,
         \A h \in Handlers : e.owed[h] = IF h = e.objs[l].handler THEN Append(Undelivered(e, h), <<what, n>>)
                                         ELSE Undelivered(e, h)
  PROVE  EventsOK(addTimedTask(e, Pack(what, l, n), 0))
<1> DEFINE t == Pack(what, l, n)
           ts == <<t>>
           g == addTimedTasks(e, ts, 0)
<1>1. e \in EventsState /\ l \in Nat /\ what \in Telling \cup {"verify", "repeat"}
  BY DEF QueueOK, EventsState, Telling
<1>2. t \in EventTask /\ t.what = what /\ t.l = l /\ t.n = n /\ ts \in Seq(EventTask) /\ DOMAIN ts = {1} /\ ts[1] = t
  BY ONLY <1>1, n \in Nat, PackedIs DEF t, ts
<1> HIDE DEF t, ts
<1>3. QueueOK(g) /\ ListOK(g) /\ RepeatOK(g) /\ UseOK(g)
  BY <1>2, AddedOK
<1>4. SameTold(e, g)
  BY ONLY <1>1, <1>2, AddedLast
<1>5. InSequence(g)
  BY <1>2, AddedInSequence
<1>6. \A h : IsFor(e, h, t) <=> h = e.objs[l].handler
  BY <1>2 DEF IsFor, Forced
<1>7. ASSUME NEW h \in Handlers
      PROVE  Undelivered(g, h) = e.owed[h]
  <2>1. CASE h = e.objs[l].handler
    <3>1. Undelivered(g, h) = Append(Undelivered(e, h), <<ts[1].what, ts[1].n>>)
      <4>1. 1 \in DOMAIN ts /\ IsFor(e, h, ts[1]) /\ \A j \in DOMAIN ts : IsFor(e, h, ts[j]) => j = 1
        BY <1>2, <1>6, <2>1
      <4>2. 0 \in Nat
        OBVIOUS
      <4> QED
        BY <1>1, <1>2, <4>1, <4>2, UndeliveredMore
    <3> QED
      BY <1>2, <2>1, <3>1
  <2>2. CASE h # e.objs[l].handler
    <3>1. \A k \in DOMAIN ts : ~IsFor(e, h, ts[k])
      BY <1>2, <1>6, <2>2
    <3>2. Undelivered(g, h) = Undelivered(e, h)
      BY <1>1, <1>2, <3>1, UndeliveredSame
    <3> QED
      BY <2>2, <3>2
  <2> QED
    BY <2>1, <2>2
<1> HIDE DEF g
<1>8. EventsOK(g)
  BY <1>3, <1>4, <1>5, <1>7 DEF EventsOK, TellOK, ByTasks, SameTold
<1> QED
  BY <1>8 DEF g, ts, t, addTimedTask

(* addListener                                                                *)
Registering(e, h) ==
    LET o == Len(e.objs) + 1
    IN Owe([e EXCEPT !.objs = Append(@, [handler |-> h, listening |-> TRUE]), !.list = Append(@, o)], h, <<"start", o>>)

LEMMA RegisteringIs ==
  ASSUME NEW e \in EventsState, ListOK(e), NEW h \in Handlers, h \notin Registered(e)
  PROVE  LET f == Registering(e, h)
             o == Len(e.objs) + 1
         IN /\ f \in EventsState /\ SameQueue(e, f) /\ SameRepeated(e, f) /\ SameUse(e, f)
            /\ f.synch = e.synch /\ f.dispatch = e.dispatch /\ f.n = e.n
            /\ o \in Nat /\ DOMAIN e.objs \subseteq DOMAIN f.objs /\ o \in DOMAIN f.objs
            /\ (\A k \in DOMAIN e.objs : f.objs[k] = e.objs[k]) /\ f.objs[o] = [handler |-> h, listening |-> TRUE]
            /\ f.owed = [e.owed EXCEPT ![h] = Append(@, <<"start", o>>)]
            /\ Len(f.list) = Len(e.list) + 1 /\ Len(e.list) \in Nat /\ DOMAIN e.list = 1..Len(e.list)
            /\ DOMAIN f.list = 1..(Len(e.list) + 1)
            /\ (\A i \in 1..Len(e.list) : f.list[i] = e.list[i]) /\ f.list[Len(e.list) + 1] = o
            /\ ListOK(f)
<1> DEFINE f == Registering(e, h)
           o == Len(e.objs) + 1
           m == Len(e.list)
           reg == [handler |-> h, listening |-> TRUE]
           objs == Append(e.objs, reg)
           list == Append(e.list, o)
           owed == [e.owed EXCEPT ![h] = Append(@, <<"start", o>>)]
<1>1. /\ e.objs \in Seq(Registration) /\ e.list \in Seq(Nat) /\ e.owed \in [Handlers -> Seq(ToTell)]
      /\ Len(e.objs) \in Nat /\ m \in Nat /\ o \in Nat /\ DOMAIN e.list = 1..m /\ DOMAIN e.objs = 1..Len(e.objs)
  BY DEF EventsState
<1>2. reg \in Registration /\ <<"start", o>> \in ToTell
  BY <1>1 DEF Registration, ToTell, Telling
<1> HIDE DEF reg
<1>3. /\ objs \in Seq(Registration) /\ DOMAIN objs = 1..o
      /\ (\A k \in 1..Len(e.objs) : objs[k] = e.objs[k]) /\ objs[o] = reg
  BY <1>1, <1>2
<1> HIDE DEF o
<1>4. /\ list \in Seq(Nat) /\ Len(list) = m + 1 /\ DOMAIN list = 1..(m + 1)
      /\ (\A i \in 1..m : list[i] = e.list[i]) /\ list[m + 1] = o
  BY <1>1
<1>5. owed \in [Handlers -> Seq(ToTell)]
  <2>1. Append(e.owed[h], <<"start", o>>) \in Seq(ToTell)
    BY <1>1, <1>2
  <2> QED
    BY <1>1, <2>1
<1>6. f = [e EXCEPT !.objs = objs, !.list = list, !.owed = owed]
  BY DEF Registering, Owe, EventsState, objs, list, owed, reg, o
<1> HIDE DEF objs, list, owed, f
<1>7. f \in EventsState
  BY <1>3, <1>4, <1>5, <1>6 DEF EventsState
<1>8. /\ SameQueue(e, f) /\ SameRepeated(e, f) /\ SameUse(e, f)
      /\ f.synch = e.synch /\ f.dispatch = e.dispatch /\ f.n = e.n /\ f.objs = objs /\ f.list = list /\ f.owed = owed
  BY <1>6 DEF EventsState, SameQueue, SameRepeated, SameUse
<1>9. \A k \in DOMAIN e.objs : k \in DOMAIN objs /\ objs[k] = e.objs[k] /\ k # o
  BY <1>1, <1>3 DEF o
<1>10. o \in DOMAIN objs
  BY <1>1, <1>3 DEF o
<1>11. ListOK(f)
  <2>1. ASSUME NEW i \in DOMAIN f.list
        PROVE  /\ f.list[i] \in DOMAIN f.objs /\ f.objs[f.list[i]].listening
               /\ IF i \in 1..m THEN f.list[i] = e.list[i] /\ f.objs[f.list[i]] = e.objs[e.list[i]] /\ f.objs[f.list[i]].handler # h
                  ELSE i = m + 1 /\ f.objs[f.list[i]].handler = h
    <3>1. CASE i \in 1..m
      <4>1. f.list[i] = e.list[i] /\ e.list[i] \in DOMAIN e.objs /\ e.objs[e.list[i]].listening
        BY <1>1, <1>4, <1>8, <3>1 DEF ListOK
      <4>2. e.objs[e.list[i]].handler # h
        BY <1>1, <3>1 DEF Registered
      <4> QED
        BY <1>8, <1>9, <3>1, <4>1, <4>2
    <3>2. CASE i \notin 1..m
      <4>1. i = m + 1
        BY <1>1, <1>4, <1>8, <3>2
      <4> QED
        BY <1>3, <1>4, <1>8, <1>10, <3>2, <4>1 DEF reg
    <3> QED
      BY <3>1, <3>2
  <2>2. ASSUME NEW i \in DOMAIN f.list, NEW j \in DOMAIN f.list, f.objs[f.list[i]].handler = f.objs[f.list[j]].handler
        PROVE  i = j
    <3>1. i \in 1..m <=> j \in 1..m
      BY <2>1, <2>2
    <3>2. CASE i \in 1..m
      BY <1>1, <2>1, <2>2, <3>1, <3>2 DEF ListOK
    <3> QED
      BY <2>1, <3>1, <3>2
  <2>3. ASSUME NEW k \in DOMAIN f.objs, f.objs[k].listening
        PROVE  k \in Listed(f)
    <3>1. CASE k = o
      <4>1. m + 1 \in DOMAIN f.list
        BY <1>1, <1>4, <1>8
      <4> QED
        BY <1>4, <1>8, <3>1, <4>1 DEF Listed
    <3>2. CASE k # o
      <4>1. k \in DOMAIN e.objs /\ e.objs[k].listening
        <5>1. k \in DOMAIN e.objs
          BY <1>1, <1>3, <1>8, <3>2 DEF o
        <5> QED
          BY <1>8, <1>9, <2>3, <5>1
      <4>2. PICK i \in DOMAIN e.list : k = e.list[i]
        BY <4>1 DEF ListOK, Listed
      <4>3. i \in DOMAIN f.list /\ f.list[i] = k
        BY <1>1, <1>4, <1>8, <4>2
      <4> QED
        BY <4>3 DEF Listed
    <3> QED
      BY <3>1, <3>2
  <2> QED
    BY <2>1, <2>2, <2>3 DEF ListOK
<1> QED
  BY <1>1, <1>3, <1>4, <1>7, <1>8, <1>9, <1>10, <1>11 DEF f, o, reg, owed, m
-----------------------------------------------------------------------------
(* What is owed is all that changes.                                          *)
Owing(e, w) == [e EXCEPT !.owed = w]
LEMMA OwingIs ==
  ASSUME NEW e \in EventsState, NEW w \in [Handlers -> Seq(ToTell)]
  PROVE  /\ Owing(e, w) \in EventsState /\ Owing(e, w).owed = w
         /\ SameQueue(e, Owing(e, w)) /\ SameRepeated(e, Owing(e, w)) /\ SameUse(e, Owing(e, w))
         /\ Owing(e, w).objs = e.objs /\ Owing(e, w).list = e.list /\ Owing(e, w).synch = e.synch
         /\ Owing(e, w).dispatch = e.dispatch /\ Owing(e, w).n = e.n
<1>1. Owing(e, w) \in EventsState
  BY DEF Owing, EventsState
<1> QED
  BY <1>1 DEF Owing, EventsState, SameQueue, SameRepeated, SameUse

LEMMA ToldIs ==
  ASSUME NEW e \in EventsState, NEW h \in Handlers, NEW item \in ToTell
  PROVE  /\ Owe(e, h, item) = Owing(e, [e.owed EXCEPT ![h] = Append(@, item)])
         /\ e.owed[h] # <<>> /\ Head(e.owed[h]) = item => Told(e, h, item) = Owing(e, [e.owed EXCEPT ![h] = Tail(@)])
         /\ [e.owed EXCEPT ![h] = Append(@, item)] \in [Handlers -> Seq(ToTell)]
         /\ e.owed[h] # <<>> => [e.owed EXCEPT ![h] = Tail(@)] \in [Handlers -> Seq(ToTell)]
<1>1. e.owed \in [Handlers -> Seq(ToTell)]
  BY DEF EventsState
<1>2. Append(e.owed[h], item) \in Seq(ToTell) /\ (e.owed[h] # <<>> => Tail(e.owed[h]) \in Seq(ToTell))
  BY <1>1
<1>3. /\ [e.owed EXCEPT ![h] = Append(@, item)] \in [Handlers -> Seq(ToTell)]
      /\ e.owed[h] # <<>> => [e.owed EXCEPT ![h] = Tail(@)] \in [Handlers -> Seq(ToTell)]
  BY <1>1, <1>2
<1>4. Owe(e, h, item) = Owing(e, [e.owed EXCEPT ![h] = Append(@, item)])
  BY DEF Owe, Owing, EventsState
<1>5. e.owed[h] # <<>> /\ Head(e.owed[h]) = item => Told(e, h, item) = Owing(e, [e.owed EXCEPT ![h] = Tail(@)])
  BY DEF Told, Owing, EventsState
<1> QED
  BY <1>3, <1>4, <1>5

(* A listener that is told at once what it is owed since now.                 *)
LEMMA ToldAtOnce ==
  ASSUME NEW e \in EventsState, e.synch, NEW l \in DOMAIN e.objs, NEW h \in Handlers, e.objs[l].handler = h,
         NEW what \in {"start", "event", "end"}, NEW n \in Nat, e.owed[h] = <<<<what, n>>>>
  PROVE  dispatchToOneListener(e, Pack(what, l, n)) = Owing(e, [e.owed EXCEPT ![h] = <<>>])
<1>1. l \in Nat /\ what \in Telling \cup {"verify", "repeat"} /\ <<what, n>> \in ToTell
  BY DEF EventsState, Telling, ToTell
<1> DEFINE t == Pack(what, l, n)
<1>2. t.what = what /\ t.l = l /\ t.n = n
  BY <1>1, PackedIs
<1> HIDE DEF t
<1>3. dispatchToOneListener(e, t) = Told(e, h, <<what, n>>)
  BY <1>2 DEF dispatchToOneListener
<1>4. e.owed[h] # <<>> /\ Head(e.owed[h]) = <<what, n>> /\ Tail(e.owed[h]) = <<>>
  <2>1. Len(<<<<what, n>>>>) = 1
    OBVIOUS
  <2> QED
    BY <2>1
<1>5. Told(e, h, <<what, n>>) = Owing(e, [e.owed EXCEPT ![h] = Tail(@)])
  BY <1>1, <1>4, ToldIs
<1> QED
  BY <1>3, <1>4, <1>5 DEF t

LEMMA ListenOK ==
  ASSUME NEW e, EventsOK(e), NEW h \in Handlers
  PROVE  EventsOK(Listen(e, h))
<1>1. CASE h \in Registered(e)
  BY <1>1 DEF Listen
<1>2. CASE h \notin Registered(e)
  <2> DEFINE f == Registering(e, h)
             o == Len(e.objs) + 1
             m == Len(e.list)
             told == dispatchToOneListener(f, Pack("start", o, o))
  <2>1. e \in EventsState /\ QueueOK(e) /\ ListOK(e) /\ RepeatOK(e) /\ UseOK(e) /\ TellOK(e)
    BY DEF EventsOK, QueueOK
  <2>2. e.owed \in [Handlers -> Seq(ToTell)] /\ e.n \in Nat
    BY <2>1 DEF EventsState
  <2>3. Listen(e, h) = IF e.dispatch = NoDispatch THEN told ELSE Owe(told, h, <<"event", e.n>>)
    BY <1>2 DEF Listen, Registering
  <2>4. /\ f \in EventsState /\ SameQueue(e, f) /\ SameRepeated(e, f) /\ SameUse(e, f)
        /\ f.synch = e.synch /\ f.dispatch = e.dispatch /\ f.n = e.n
        /\ o \in Nat /\ DOMAIN e.objs \subseteq DOMAIN f.objs /\ o \in DOMAIN f.objs
        /\ (\A k \in DOMAIN e.objs : f.objs[k] = e.objs[k]) /\ f.objs[o] = [handler |-> h, listening |-> TRUE]
        /\ f.owed = [e.owed EXCEPT ![h] = Append(@, <<"start", o>>)]
        /\ Len(f.list) = m + 1 /\ m \in Nat /\ DOMAIN e.list = 1..m
        /\ DOMAIN f.list = 1..(m + 1)
        /\ (\A i \in 1..m : f.list[i] = e.list[i]) /\ f.list[m + 1] = o
        /\ ListOK(f)
    BY ONLY <1>2, <2>1, h \in Handlers, RegisteringIs
  <2> HIDE DEF f, o, m
  <2>5. QueueOK(f) /\ Queued(f) = Queued(e)
    BY <2>1, <2>4, QueueKept
  <2>6. RepeatOK(f) /\ UseOK(f)
    BY <2>1, <2>4, <2>5, RepeatKept, UseKept
  <2>7. f.objs[o].handler = h
    BY <2>4
  <2>8. CASE ~e.synch
    <3>1. ByTasks(e) /\ e.dispatch = NoDispatch
      BY <2>1, <2>8 DEF TellOK, ByTasks
    <3>2. InSequence(f)
      BY <2>4, <2>5, <3>1 DEF ByTasks, InSequence, SameQueue
    <3>3. ASSUME NEW k \in Handlers
          PROVE  Undelivered(f, k) = e.owed[k]
      <4>1. \A t \in Queued(e) : IsFor(f, k, t) <=> IsFor(e, k, t)
        BY <2>4, <3>1 DEF ByTasks, InSequence, IsFor, Telling
      <4>2. Undelivered(f, k) = Undelivered(e, k)
        BY <2>4, <4>1, UndeliveredKept DEF SameQueue
      <4> QED
        BY <3>1, <4>2 DEF ByTasks
    <3>4. \A k \in Handlers : f.owed[k] = IF k = f.objs[o].handler THEN Append(Undelivered(f, k), <<"start", o>>)
                                          ELSE Undelivered(f, k)
      BY <2>2, <2>4, <2>7, <3>3
    <3>5. EventsOK(addTimedTask(f, Pack("start", o, o), 0))
      BY <2>4, <2>5, <2>6, <2>8, <3>1, <3>2, <3>4, OneMoreTold
    <3>6. Listen(e, h) = addTimedTask(f, Pack("start", o, o), 0)
      BY <2>3, <2>4, <2>8, <3>1 DEF dispatchToOneListener
    <3> QED
      BY <3>5, <3>6
  <2>9. CASE e.synch
    <3>1. AtOnce(e)
      BY <2>1, <2>9 DEF TellOK
    <3>2. ~Reached(e, h)
      BY <1>2 DEF Reached, Registered
    <3>3. e.owed[h] = <<>>
      BY <3>1, <3>2 DEF AtOnce
    <3>4. f.owed[h] = <<<<"start", o>>>>
      BY <2>2, <2>4, <3>3
    <3>5. told = Owing(f, [f.owed EXCEPT ![h] = <<>>])
      <4>1. f.synch
        BY <2>4, <2>9
      <4>2. dispatchToOneListener(f, Pack("start", o, o)) = Owing(f, [f.owed EXCEPT ![h] = <<>>])
        <5>1. f \in EventsState /\ o \in DOMAIN f.objs /\ o \in Nat
          BY <2>4
        <5> QED
          BY ONLY <2>7, <3>4, <4>1, <5>1, h \in Handlers, ToldAtOnce
      <4> QED
        BY <4>2
    <3>6. [f.owed EXCEPT ![h] = <<>>] = e.owed
      BY <2>2, <2>4, <3>3
    <3>7. told = Owing(f, e.owed)
      BY <3>5, <3>6
    <3> HIDE DEF told
    <3> DEFINE w == IF e.dispatch = NoDispatch THEN e.owed ELSE [e.owed EXCEPT ![h] = <<<<"event", e.n>>>>]
               g == Owing(f, w)
    <3>8. <<"event", e.n>> \in ToTell /\ w \in [Handlers -> Seq(ToTell)]
      <4>1. <<"event", e.n>> \in ToTell
        BY <2>2 DEF ToTell, Telling
      <4>2. <<<<"event", e.n>>>> \in Seq(ToTell)
        BY <4>1
      <4> QED
        BY <2>2, <4>1, <4>2
    <3>9. Listen(e, h) = g
      <4>1. told \in EventsState /\ told.owed = e.owed
        BY <2>2, <2>4, <3>7, OwingIs
      <4>2. Owe(told, h, <<"event", e.n>>) = Owing(told, [e.owed EXCEPT ![h] = Append(@, <<"event", e.n>>)])
        <5>1. Owe(told, h, <<"event", e.n>>) = Owing(told, [told.owed EXCEPT ![h] = Append(@, <<"event", e.n>>)])
          BY ONLY <3>8, <4>1, h \in Handlers, ToldIs
        <5> QED
          BY <4>1, <5>1
      <4>3. Append(e.owed[h], <<"event", e.n>>) = <<<<"event", e.n>>>>
        BY <3>3
      <4>4. \A x : Owing(told, x) = Owing(f, x)
        BY <2>4, <3>7 DEF Owing, EventsState
      <4> QED
        BY <2>3, <3>7, <4>2, <4>3, <4>4
    <3> HIDE DEF w
    <3>10. /\ g \in EventsState /\ SameQueue(f, g) /\ SameRepeated(f, g) /\ SameUse(f, g)
           /\ g.objs = f.objs /\ g.list = f.list /\ g.synch = f.synch /\ g.dispatch = f.dispatch /\ g.n = f.n /\ g.owed = w
      BY <2>4, <3>8, OwingIs
    <3> HIDE DEF g
    <3>11. QueueOK(g) /\ Queued(g) = Queued(f) /\ ListOK(g)
      BY <2>4, <2>5, <3>10, QueueKept, ListKept
    <3>12. RepeatOK(g) /\ UseOK(g)
      BY <2>6, <3>10, <3>11, RepeatKept, UseKept
    <3>13. ASSUME NEW k \in Handlers, e.dispatch # NoDispatch
           PROVE  Reached(g, k) <=> Reached(e, k) \/ k = h
      <4>1. e.dispatch.i \in 1..m + 1
        BY <3>1, <3>13 DEF AtOnce, m
      <4>2. ASSUME k = h
            PROVE  Reached(g, k)
        <5>1. m + 1 \in DOMAIN g.list /\ m + 1 >= g.dispatch.i /\ g.objs[g.list[m + 1]].handler = k
          BY <2>4, <2>7, <3>10, <4>1, <4>2
        <5> QED
          BY <5>1 DEF Reached
      <4>3. \A i \in DOMAIN e.list : i \in DOMAIN g.list /\ g.list[i] = e.list[i] /\ g.objs[g.list[i]] = e.objs[e.list[i]]
        BY <2>1, <2>4, <3>10 DEF ListOK
      <4>4. Reached(e, k) => Reached(g, k)
        BY <2>4, <3>10, <4>3 DEF Reached
      <4>5. ASSUME Reached(g, k), k # h
            PROVE  Reached(e, k)
        <5>1. PICK i \in DOMAIN g.list : i >= g.dispatch.i /\ g.objs[g.list[i]].handler = k
          BY <4>5 DEF Reached
        <5>2. i \in DOMAIN e.list
          BY <2>4, <2>7, <3>10, <4>5, <5>1
        <5> QED
          BY <2>4, <3>10, <4>3, <5>1, <5>2 DEF Reached
      <4> QED
        BY <4>2, <4>4, <4>5
    <3>14. AtOnce(g)
      <4>1. CASE e.dispatch = NoDispatch
        BY <2>4, <2>5, <3>1, <3>10, <3>11, <4>1 DEF AtOnce, w
      <4>2. CASE e.dispatch # NoDispatch
        <5>1. e.dispatch.n = e.n /\ e.dispatch.i \in 1..m + 1
          BY <3>1, <4>2 DEF AtOnce, m
        <5>2. g.dispatch.i \in 1..Len(g.list) + 1
          BY <2>4, <3>10, <5>1
        <5>3. \A k \in Handlers : g.owed[k] = IF Reached(g, k) THEN <<<<"event", g.n>>>> ELSE <<>>
          <6> SUFFICES ASSUME NEW k \in Handlers
                       PROVE  g.owed[k] = IF Reached(g, k) THEN <<<<"event", g.n>>>> ELSE <<>>
            OBVIOUS
          <6>1. g.n = e.n /\ g.owed[k] = IF k = h THEN <<<<"event", e.n>>>> ELSE e.owed[k]
            BY <2>2, <2>4, <3>10, <4>2 DEF w
          <6>2. Reached(g, k) <=> Reached(e, k) \/ k = h
            BY <3>13, <4>2
          <6>3. e.owed[k] = IF Reached(e, k) THEN <<<<"event", e.n>>>> ELSE <<>>
            BY <3>1, <4>2 DEF AtOnce
          <6> QED
            BY <6>1, <6>2, <6>3
        <5> QED
          BY <2>4, <2>5, <3>1, <3>10, <3>11, <4>2, <5>1, <5>2, <5>3 DEF AtOnce
      <4> QED
        BY <4>1, <4>2
    <3> QED
      BY <2>4, <2>9, <3>9, <3>10, <3>11, <3>12, <3>14 DEF EventsOK, TellOK
  <2> QED
    BY <2>8, <2>9
<1> QED
  BY <1>1, <1>2
-----------------------------------------------------------------------------
(* removeListener: events that are still queued for who leaves are not told.  *)
NotEvents(s) == Pick(s, {i \in DOMAIN s : s[i][1] # "event"})
Removing(e, h) ==
    LET o == e.list[find(e, h)]
    IN [e EXCEPT !.objs[o].listening = FALSE, !.list = Pick(@, DOMAIN @ \ {find(e, h)}),
                 !.owed[h] = Pick(@, {i \in DOMAIN @ : @[i][1] # "event"})]

LEMMA NotEventsIs ==
  ASSUME NEW s \in Seq(ToTell)
  PROVE  NotEvents(s) \in Seq(ToTell) /\ (s = <<>> => NotEvents(s) = <<>>)
<1> DEFINE P == {i \in DOMAIN s : s[i][1] # "event"}
<1>1. Len(s) \in Nat /\ DOMAIN s = 1..Len(s) /\ IsFiniteSet(1..Len(s)) /\ \A i \in DOMAIN s : s[i] \in ToTell
  BY CountTo
<1>2. P \in SUBSET Nat /\ IsFiniteSet(P) /\ \A i \in P : s[i] \in ToTell
  <2>1. P \subseteq 1..Len(s)
    BY <1>1
  <2>2. IsFiniteSet(P)
    BY <1>1, <2>1, FS_Subset
  <2> QED
    BY <1>1, <2>1, <2>2
<1>4. s = <<>> => P = {}
  OBVIOUS
<1> HIDE DEF P
<1>3. Pick(s, P) \in Seq(ToTell) /\ Len(Pick(s, P)) = Cardinality(P)
  BY <1>2, PickIs
<1>5. s = <<>> => Pick(s, P) = <<>>
  <2>1. Cardinality({}) = 0
    BY FS_EmptySet
  <2> SUFFICES ASSUME s = <<>>
               PROVE  Pick(s, P) = <<>>
    OBVIOUS
  <2>2. Len(Pick(s, P)) = 0
    BY <1>3, <1>4, <2>1
  <2> QED
    BY <1>3, <2>2
<1> QED
  BY <1>3, <1>5 DEF P, NotEvents

LEMMA RemovingIs ==
  ASSUME NEW e \in EventsState, ListOK(e), NEW h \in Handlers, h \in Registered(e)
  PROVE  LET f == Removing(e, h)
             o == e.list[find(e, h)]
         IN /\ f \in EventsState /\ SameQueue(e, f) /\ SameRepeated(e, f) /\ SameUse(e, f)
            /\ f.synch = e.synch /\ f.dispatch = e.dispatch /\ f.n = e.n
            /\ f.owed = [e.owed EXCEPT ![h] = NotEvents(e.owed[h])]
            /\ o \in DOMAIN e.objs /\ o \in Nat /\ DOMAIN f.objs = DOMAIN e.objs
            /\ e.objs[o].handler = h /\ f.objs[o].handler = h /\ ~f.objs[o].listening
            /\ \A k \in DOMAIN e.objs : k # o =>
                  f.objs[k] = e.objs[k] /\ ~(f.objs[k].handler = h /\ f.objs[k].listening)
            /\ ListOK(f)
<1> DEFINE f == Removing(e, h)
           p == find(e, h)
           o == e.list[p]
           P == DOMAIN e.list \ {p}
           objs == [e.objs EXCEPT ![o].listening = FALSE]
           list == Pick(e.list, P)
           owed == [e.owed EXCEPT ![h] = NotEvents(e.owed[h])]
<1>1. /\ e.objs \in Seq(Registration) /\ e.list \in Seq(Nat) /\ e.owed \in [Handlers -> Seq(ToTell)]
      /\ DOMAIN e.list = 1..Len(e.list) /\ Len(e.list) \in Nat /\ DOMAIN e.objs = 1..Len(e.objs) /\ Len(e.objs) \in Nat
  BY DEF EventsState
<1>2. p \in DOMAIN e.list /\ e.objs[o].handler = h
  BY DEF find, Registered
<1>3. o \in DOMAIN e.objs /\ o \in Nat
  BY <1>1, <1>2 DEF ListOK
<1>4. P \in SUBSET Nat /\ IsFiniteSet(P) /\ \A i \in P : e.list[i] \in Nat
  <2>1. IsFiniteSet(DOMAIN e.list)
    BY <1>1, CountTo
  <2>2. IsFiniteSet(P)
    BY <2>1, FS_Subset
  <2> QED
    BY <1>1, <2>2
<1>6. \A i \in DOMAIN e.list : i \in P <=> i # p
  OBVIOUS
<1>7. P \subseteq DOMAIN e.list /\ \A i \in P : i \in DOMAIN e.list /\ i # p
  OBVIOUS
<1> HIDE DEF P, p
<1>5. list \in Seq(Nat) /\ Len(list) = Cardinality(P) /\ \A r \in 1..Cardinality(P) : list[r] = e.list[Nth(P, r)]
  BY <1>4, PickIs
<1>8. /\ Cardinality(P) \in Nat
      /\ \A r \in 1..Cardinality(P) : Nth(P, r) \in P /\ PlaceIn(P, Nth(P, r)) = r
      /\ \A i \in P : PlaceIn(P, i) \in 1..Cardinality(P) /\ Nth(P, PlaceIn(P, i)) = i
  BY <1>4, NthIs
<1>9. DOMAIN list = 1..Cardinality(P)
  BY <1>5
<1> HIDE DEF list
<1> DEFINE reg == [e.objs[o] EXCEPT !.listening = FALSE]
<1>10. reg \in Registration /\ reg.handler = h /\ reg.listening = FALSE
  <2>1. e.objs[o] \in Registration
    BY <1>1, <1>3
  <2> QED
    BY <1>2, <2>1 DEF Registration
<1>11. objs = [e.objs EXCEPT ![o] = reg]
  BY <1>1, <1>3
<1> HIDE DEF objs, reg, o
<1>12. /\ objs \in Seq(Registration) /\ DOMAIN objs = DOMAIN e.objs /\ objs[o] = reg
       /\ \A k \in DOMAIN e.objs : k # o => objs[k] = e.objs[k]
  BY <1>1, <1>3, <1>10, <1>11
<1>13. owed \in [Handlers -> Seq(ToTell)]
  <2>1. NotEvents(e.owed[h]) \in Seq(ToTell)
    BY <1>1, NotEventsIs
  <2> QED
    BY <1>1, <2>1
<1>14. f = [e EXCEPT !.objs = objs, !.list = list, !.owed = owed]
  BY DEF Removing, EventsState, objs, list, owed, o, p, P, NotEvents
<1> HIDE DEF owed, f
<1>15. f \in EventsState
  BY <1>5, <1>12, <1>13, <1>14 DEF EventsState
<1>16. /\ SameQueue(e, f) /\ SameRepeated(e, f) /\ SameUse(e, f)
       /\ f.synch = e.synch /\ f.dispatch = e.dispatch /\ f.n = e.n /\ f.objs = objs /\ f.list = list /\ f.owed = owed
  BY <1>14 DEF EventsState, SameQueue, SameRepeated, SameUse
<1>17. \A i \in DOMAIN e.list : i # p => e.list[i] # o /\ e.objs[e.list[i]].handler # h
  BY <1>2 DEF ListOK, o
<1>18. ASSUME NEW k \in DOMAIN e.objs, k # o
       PROVE  f.objs[k] = e.objs[k] /\ ~(f.objs[k].handler = h /\ f.objs[k].listening)
  <2>1. f.objs[k] = e.objs[k]
    BY <1>12, <1>16, <1>18
  <2>2. ASSUME e.objs[k].handler = h, e.objs[k].listening
        PROVE  FALSE
    <3>1. PICK i \in DOMAIN e.list : k = e.list[i]
      BY <2>2 DEF ListOK, Listed
    <3>2. i = p
      BY <1>17, <2>2, <3>1
    <3> QED
      BY <1>18, <3>1, <3>2 DEF o
  <2> QED
    BY <2>1, <2>2
<1>19. ListOK(f)
  <2>1. ASSUME NEW r \in DOMAIN f.list
        PROVE  /\ Nth(P, r) \in DOMAIN e.list /\ Nth(P, r) \in P /\ PlaceIn(P, Nth(P, r)) = r /\ r \in 1..Cardinality(P)
               /\ f.list[r] = e.list[Nth(P, r)] /\ f.list[r] \in DOMAIN f.objs /\ f.objs[f.list[r]] = e.objs[f.list[r]]
    <3>1. r \in 1..Cardinality(P)
      BY <1>9, <1>16
    <3>2. Nth(P, r) \in P /\ Nth(P, r) \in DOMAIN e.list /\ Nth(P, r) # p
      BY <1>7, <1>8, <3>1
    <3>3. f.list[r] = e.list[Nth(P, r)]
      BY <1>5, <1>16, <3>1
    <3>4. f.list[r] \in DOMAIN e.objs /\ f.list[r] # o
      BY <1>17, <3>2, <3>3 DEF ListOK
    <3> QED
      BY <1>8, <1>12, <1>16, <3>1, <3>2, <3>3, <3>4
  <2>2. ASSUME NEW r \in DOMAIN f.list
        PROVE  f.list[r] \in DOMAIN f.objs /\ f.objs[f.list[r]].listening
    BY <2>1 DEF ListOK
  <2>3. ASSUME NEW r \in DOMAIN f.list, NEW s \in DOMAIN f.list, f.objs[f.list[r]].handler = f.objs[f.list[s]].handler
        PROVE  r = s
    <3>1. /\ Nth(P, r) \in DOMAIN e.list /\ Nth(P, s) \in DOMAIN e.list
          /\ e.objs[e.list[Nth(P, r)]].handler = e.objs[e.list[Nth(P, s)]].handler
      BY <2>1, <2>3
    <3>2. Nth(P, r) = Nth(P, s)
      BY <3>1 DEF ListOK
    <3> QED
      BY <2>1, <3>2
  <2>4. ASSUME NEW k \in DOMAIN f.objs, f.objs[k].listening
        PROVE  k \in Listed(f)
    <3>1. k \in DOMAIN e.objs /\ k # o /\ e.objs[k].listening
      BY <1>10, <1>12, <1>16, <2>4
    <3>2. PICK i \in DOMAIN e.list : k = e.list[i]
      BY <3>1 DEF ListOK, Listed
    <3>3. i \in P
      BY <1>6, <3>1, <3>2 DEF o
    <3>4. PlaceIn(P, i) \in DOMAIN f.list /\ f.list[PlaceIn(P, i)] = k
      BY <1>5, <1>8, <1>9, <1>16, <3>2, <3>3
    <3> QED
      BY <3>4 DEF Listed
  <2> QED
    BY <2>2, <2>3, <2>4 DEF ListOK
<1>20. e.objs[o].handler = h /\ f.objs[o].handler = h /\ ~f.objs[o].listening
  BY <1>2, <1>10, <1>12, <1>16 DEF o
<1> QED
  BY <1>3, <1>12, <1>15, <1>16, <1>18, <1>19, <1>20 DEF f, o, p, owed

(* What is left for who is removed: the start, not the events.                *)
LEMMA LeftForRemoved ==
  ASSUME NEW e, QueueOK(e), ListOK(e), ByTasks(e), NEW h \in Handlers, h \in Registered(e)
  PROVE  /\ InSequence(Removing(e, h))
         /\ \A k \in Handlers : Undelivered(Removing(e, h), k) = Removing(e, h).owed[k]
<1> DEFINE f == Removing(e, h)
           o == e.list[find(e, h)]
<1>1. e \in EventsState /\ e.owed \in [Handlers -> Seq(ToTell)]
  BY DEF QueueOK, EventsState
<1>2. /\ f \in EventsState /\ SameQueue(e, f)
      /\ f.owed = [e.owed EXCEPT ![h] = NotEvents(e.owed[h])]
      /\ o \in DOMAIN e.objs /\ o \in Nat /\ DOMAIN f.objs = DOMAIN e.objs
      /\ e.objs[o].handler = h /\ f.objs[o].handler = h /\ ~f.objs[o].listening
      /\ \A k \in DOMAIN e.objs : k # o => f.objs[k] = e.objs[k] /\ ~(f.objs[k].handler = h /\ f.objs[k].listening)
  BY ONLY <1>1, ListOK(e), h \in Handlers, h \in Registered(e), RemovingIs
<1> HIDE DEF f, o
<1>3. /\ f.queue = e.queue /\ f.now = e.now
      /\ \A t \in Queued(e) : t.what \in Telling => t.l \in DOMAIN e.objs /\ f.objs[t.l].handler = e.objs[t.l].handler
  BY <1>2 DEF SameQueue, ByTasks, InSequence
<1>4. InSequence(f)
  BY <1>2, <1>3 DEF ByTasks, InSequence, Queued
<1>5. ASSUME NEW k \in Handlers, k # h
      PROVE  Undelivered(f, k) = f.owed[k]
  <2>1. \A t \in Queued(e) : IsFor(f, k, t) <=> IsFor(e, k, t)
    BY <1>2, <1>3, <1>5 DEF IsFor, Telling
  <2>2. Undelivered(f, k) = Undelivered(e, k)
    BY <1>3, <2>1, UndeliveredKept
  <2> QED
    BY <1>1, <1>2, <1>5, <2>2 DEF ByTasks
<1>6. Undelivered(f, h) = f.owed[h]
  <2> DEFINE P == PositionsFor(e, h)
             Q == {i \in P : Forced(e.queue[i])}
             s == WhatIsTold(e)
             w == e.owed[h]
             R == {r \in 1..Cardinality(P) : Nth(P, r) \in Q}
  <2>1. /\ P \in SUBSET Nat /\ IsFiniteSet(P) /\ P \subseteq DOMAIN e.queue
        /\ \A i \in P : s[i] \in ToTell /\ s[i] = <<e.queue[i].what, e.queue[i].n>>
        /\ w = Pick(s, P)
    BY <1>1, PositionsAre DEF ByTasks
  <2>2. PositionsFor(f, h) = Q
    <3>1. \A i \in DOMAIN e.queue : IsFor(f, h, e.queue[i]) <=> IsFor(e, h, e.queue[i]) /\ Forced(e.queue[i])
      <4> SUFFICES ASSUME NEW t \in Queued(e)
                   PROVE  IsFor(f, h, t) <=> IsFor(e, h, t) /\ Forced(t)
        BY DEF Queued
      <4>1. CASE t.what \notin Telling
        BY <4>1 DEF IsFor, Telling
      <4>2. CASE t.what \in Telling /\ t.l = o
        BY <1>2, <4>2 DEF IsFor, Telling
      <4>3. CASE t.what \in Telling /\ t.l # o
        <5>1. t.l \in DOMAIN e.objs /\ f.objs[t.l] = e.objs[t.l] /\ ~(f.objs[t.l].handler = h /\ f.objs[t.l].listening)
          BY <1>2, <1>3, <4>3
        <5> QED
          BY <4>3, <5>1 DEF IsFor, Telling
      <4> QED
        BY <4>1, <4>2, <4>3
    <3> QED
      BY <1>3, <3>1 DEF PositionsFor
  <2>3. Undelivered(f, h) = Pick(s, Q)
    <3>1. Undelivered(f, h) = Pick(WhatIsTold(f), PositionsFor(f, h))
      BY <1>2, PositionsAre
    <3>2. WhatIsTold(f) = s
      BY <1>3 DEF WhatIsTold
    <3> QED
      BY <2>2, <3>1, <3>2
  <2>4. Q \in SUBSET P
    OBVIOUS
  <2>9. \A i \in P : e.queue[i].what \in {"start", "event", "end"}
    BY DEF PositionsFor, IsFor
  <2>10. \A i \in P : i \in Q <=> e.queue[i].what # "event"
    BY <2>9 DEF Forced
  <2> HIDE DEF P, Q, s, w
  <2>5. Pick(w, R) = Pick(s, Q)
    BY <2>1, <2>4, PickAgain
  <2>6. w \in Seq(ToTell) /\ Len(w) = Cardinality(P) /\ \A r \in 1..Cardinality(P) : w[r] = s[Nth(P, r)]
    BY <2>1, PickIs
  <2>7. \A r \in 1..Cardinality(P) : Nth(P, r) \in P
    BY <2>1, NthIs
  <2>8. {r \in DOMAIN w : w[r][1] # "event"} = R
    <3>1. DOMAIN w = 1..Cardinality(P)
      BY <2>6
    <3>2. ASSUME NEW r \in 1..Cardinality(P)
          PROVE  w[r][1] = e.queue[Nth(P, r)].what
      <4>1. w[r] = s[Nth(P, r)] /\ Nth(P, r) \in P
        BY ONLY <2>6, <2>7
      <4>2. s[Nth(P, r)] = <<e.queue[Nth(P, r)].what, e.queue[Nth(P, r)].n>>
        BY ONLY <2>1, <4>1
      <4> QED
        BY ONLY <4>1, <4>2
    <3> QED
      BY <2>7, <2>10, <3>1, <3>2
  <2> QED
    BY <1>1, <1>2, <2>3, <2>5, <2>8 DEF NotEvents, w
<1> QED
  BY <1>4, <1>5, <1>6 DEF f

LEMMA UnlistenOK ==
  ASSUME NEW e, EventsOK(e), e.dispatch = NoDispatch, NEW h \in Handlers
  PROVE  EventsOK(Unlisten(e, h))
<1>1. CASE h \notin Registered(e)
  BY <1>1 DEF Unlisten
<1>2. CASE h \in Registered(e)
  <2> DEFINE f == Removing(e, h)
             o == e.list[find(e, h)]
             g == Owe(f, h, <<"end", o>>)
  <2>1. e \in EventsState /\ QueueOK(e) /\ ListOK(e) /\ RepeatOK(e) /\ UseOK(e) /\ TellOK(e)
    BY DEF EventsOK, QueueOK
  <2>2. /\ f \in EventsState /\ SameQueue(e, f) /\ SameRepeated(e, f) /\ SameUse(e, f)
        /\ f.synch = e.synch /\ f.dispatch = e.dispatch /\ f.n = e.n
        /\ f.owed = [e.owed EXCEPT ![h] = NotEvents(e.owed[h])]
        /\ o \in DOMAIN e.objs /\ o \in Nat /\ DOMAIN f.objs = DOMAIN e.objs
        /\ f.objs[o].handler = h
        /\ ListOK(f)
    BY ONLY <1>2, <2>1, h \in Handlers, RemovingIs
  <2>3. Unlisten(e, h) = dispatchToOneListener(g, Pack("end", o, o))
    BY <1>2 DEF Unlisten, Removing
  <2>4. e.owed \in [Handlers -> Seq(ToTell)]
    BY <2>1 DEF EventsState
  <2> HIDE DEF f, o
  <2> DEFINE w == [f.owed EXCEPT ![h] = Append(@, <<"end", o>>)]
  <2>5. g = Owing(f, w) /\ w \in [Handlers -> Seq(ToTell)]
    <3>1. <<"end", o>> \in ToTell
      BY <2>2 DEF ToTell, Telling
    <3> QED
      BY <2>2, <3>1, ToldIs
  <2>6. f.owed \in [Handlers -> Seq(ToTell)]
    BY <2>2 DEF EventsState
  <2> HIDE DEF g
  <2>7. \A k \in Handlers : w[k] = IF k = h THEN Append(f.owed[k], <<"end", o>>) ELSE f.owed[k]
    BY <2>6
  <2> HIDE DEF w
  <2>8. /\ g \in EventsState /\ SameQueue(f, g) /\ SameRepeated(f, g) /\ SameUse(f, g)
        /\ g.objs = f.objs /\ g.list = f.list /\ g.synch = f.synch /\ g.dispatch = f.dispatch /\ g.n = f.n /\ g.owed = w
    BY <2>2, <2>5, OwingIs
  <2>9. QueueOK(g) /\ Queued(g) = Queued(e) /\ ListOK(g)
    <3>1. SameQueue(e, g)
      BY <2>2, <2>8 DEF SameQueue
    <3> QED
      BY <2>1, <2>2, <2>8, <3>1, QueueKept, ListKept
  <2>10. RepeatOK(g) /\ UseOK(g)
    <3>1. SameRepeated(e, g) /\ SameUse(e, g)
      BY <2>2, <2>8 DEF SameRepeated, SameUse
    <3> QED
      BY <2>1, <2>9, <3>1, RepeatKept, UseKept
  <2>11. CASE ~e.synch
    <3>1. ByTasks(e)
      BY <2>1, <2>11 DEF TellOK
    <3>2. InSequence(f) /\ \A k \in Handlers : Undelivered(f, k) = f.owed[k]
      BY <1>2, <2>1, <3>1, LeftForRemoved DEF f
    <3>3. InSequence(g)
      BY <2>8, <3>2 DEF InSequence, SameQueue, Queued
    <3>4. ASSUME NEW k
          PROVE  Undelivered(g, k) = Undelivered(f, k)
      <4>1. \A t : IsFor(g, k, t) <=> IsFor(f, k, t)
        BY <2>8 DEF IsFor
      <4> QED
        BY <2>8, <4>1, UndeliveredKept DEF SameQueue
    <3>5. \A k \in Handlers : g.owed[k] = IF k = g.objs[o].handler THEN Append(Undelivered(g, k), <<"end", o>>)
                                          ELSE Undelivered(g, k)
      BY <2>2, <2>7, <2>8, <3>2, <3>4
    <3>6. o \in DOMAIN g.objs /\ ~g.synch /\ g.dispatch = NoDispatch
      BY <2>2, <2>8, <2>11
    <3>7. EventsOK(addTimedTask(g, Pack("end", o, o), 0))
      BY <2>2, <2>9, <2>10, <3>3, <3>5, <3>6, OneMoreTold
    <3> QED
      BY <2>3, <3>6, <3>7 DEF dispatchToOneListener
  <2>12. CASE e.synch
    <3>1. AtOnce(e)
      BY <2>1, <2>12 DEF TellOK
    <3>2. \A k \in Handlers : e.owed[k] = <<>>
      BY <3>1 DEF AtOnce
    <3>3. \A k \in Handlers : f.owed[k] = <<>>
      <4>1. NotEvents(e.owed[h]) = <<>>
        BY <2>4, <3>2, NotEventsIs
      <4> QED
        BY <2>2, <2>4, <3>2, <4>1
    <3>4. g.owed[h] = <<<<"end", o>>>>
      <4>1. Append(<<>>, <<"end", o>>) = <<<<"end", o>>>>
        OBVIOUS
      <4> QED
        BY <2>7, <2>8, <3>3, <4>1
    <3> DEFINE v == [g.owed EXCEPT ![h] = <<>>]
               x == dispatchToOneListener(g, Pack("end", o, o))
    <3>5. x = Owing(g, v)
      <4>1. g.synch /\ o \in DOMAIN g.objs /\ g.objs[o].handler = h
        BY <2>2, <2>8, <2>12
      <4> QED
        BY ONLY <2>2, <2>8, <3>4, <4>1, h \in Handlers, ToldAtOnce DEF v, x
    <3>6. v \in [Handlers -> Seq(ToTell)] /\ \A k \in Handlers : v[k] = <<>>
      <4>1. g.owed \in [Handlers -> Seq(ToTell)] /\ \A k \in Handlers : k # h => g.owed[k] = <<>>
        BY <2>5, <2>7, <2>8, <3>3
      <4>2. <<>> \in Seq(ToTell)
        OBVIOUS
      <4> QED
        BY <4>1, <4>2
    <3> HIDE DEF v, x
    <3>7. /\ x \in EventsState /\ SameQueue(g, x) /\ SameRepeated(g, x) /\ SameUse(g, x)
          /\ x.objs = g.objs /\ x.list = g.list /\ x.synch = g.synch /\ x.dispatch = g.dispatch /\ x.n = g.n /\ x.owed = v
      BY <2>8, <3>5, <3>6, OwingIs
    <3>8. QueueOK(x) /\ Queued(x) = Queued(g) /\ ListOK(x)
      BY <2>9, <3>7, QueueKept, ListKept
    <3>9. RepeatOK(x) /\ UseOK(x)
      BY <2>10, <3>7, <3>8, RepeatKept, UseKept
    <3>10. AtOnce(x)
      BY <2>2, <2>8, <2>9, <3>1, <3>6, <3>7, <3>8 DEF AtOnce
    <3> QED
      BY <2>2, <2>3, <2>8, <2>12, <3>7, <3>8, <3>9, <3>10 DEF EventsOK, TellOK, x
  <2> QED
    BY <2>11, <2>12
<1> QED
  BY <1>1, <1>2

-----------------------------------------------------------------------------
(* dispatchEvent                                                              *)
Dispatching(e) == OweAll([e EXCEPT !.n = e.n + 1], e.n + 1)
Dispatched(e) ==
    IF e.synch THEN [Dispatching(e) EXCEPT !.dispatch = [n |-> e.n + 1, i |-> 1]]
    ELSE addTimedTasks(Dispatching(e), [i \in DOMAIN Dispatching(e).list |-> Pack("event", Dispatching(e).list[i], e.n + 1)], 0)

LEMMA DispatchingIs ==
  ASSUME NEW e \in EventsState
  PROVE  LET f == Dispatching(e)
         IN /\ f \in EventsState /\ SameQueue(e, f) /\ SameRepeated(e, f) /\ SameUse(e, f)
            /\ f.objs = e.objs /\ f.list = e.list /\ f.synch = e.synch /\ f.dispatch = e.dispatch /\ f.n = e.n + 1
            /\ f.n \in Nat /\ f.owed \in [Handlers -> Seq(ToTell)]
            /\ \A h \in Handlers : f.owed[h] = IF h \in Registered(e) THEN Append(e.owed[h], <<"event", e.n + 1>>) ELSE e.owed[h]
<1> DEFINE n == e.n + 1
           e1 == [e EXCEPT !.n = n]
           w == [h \in Handlers |-> IF h \in Registered(e1) THEN Append(e1.owed[h], <<"event", n>>) ELSE e1.owed[h]]
<1>1. e.n \in Nat /\ n \in Nat /\ e.owed \in [Handlers -> Seq(ToTell)] /\ <<"event", n>> \in ToTell
  BY DEF EventsState, ToTell, Telling
<1> HIDE DEF n
<1>2. e1 \in EventsState
  BY <1>1 DEF EventsState
<1>3. /\ SameQueue(e, e1) /\ SameRepeated(e, e1) /\ SameUse(e, e1) /\ e1.owed = e.owed
      /\ e1.objs = e.objs /\ e1.list = e.list /\ e1.synch = e.synch /\ e1.dispatch = e.dispatch /\ e1.n = n
  BY DEF EventsState, SameQueue, SameRepeated, SameUse
<1>4. Registered(e1) = Registered(e)
  BY <1>3 DEF Registered
<1>5. Dispatching(e) = Owing(e1, w)
  BY DEF Dispatching, OweAll, Owing, n
<1> HIDE DEF e1
<1>6. /\ \A h \in Handlers : w[h] = IF h \in Registered(e) THEN Append(e.owed[h], <<"event", n>>) ELSE e.owed[h]
      /\ w \in [Handlers -> Seq(ToTell)]
  <2>1. ASSUME NEW h \in Handlers
        PROVE  /\ e.owed[h] \in Seq(ToTell) /\ Append(e.owed[h], <<"event", n>>) \in Seq(ToTell)
               /\ w[h] = IF h \in Registered(e) THEN Append(e.owed[h], <<"event", n>>) ELSE e.owed[h]
    BY <1>1, <1>3, <1>4
  <2> QED
    BY <1>3, <1>4, <2>1
<1> HIDE DEF w
<1>7. LET f == Owing(e1, w)
      IN /\ f \in EventsState /\ SameQueue(e1, f) /\ SameRepeated(e1, f) /\ SameUse(e1, f)
         /\ f.objs = e1.objs /\ f.list = e1.list /\ f.synch = e1.synch /\ f.dispatch = e1.dispatch /\ f.n = e1.n /\ f.owed = w
  BY <1>2, <1>6, OwingIs
<1> QED
  BY <1>1, <1>3, <1>5, <1>6, <1>7 DEF SameQueue, SameRepeated, SameUse, n

LEMMA DispatchOK ==
  ASSUME NEW e, EventsOK(e), e.dispatch = NoDispatch
  PROVE  EventsOK(Dispatched(e))
<1> DEFINE f == Dispatching(e)
           n == e.n + 1
<1>1. e \in EventsState /\ QueueOK(e) /\ ListOK(e) /\ RepeatOK(e) /\ UseOK(e) /\ TellOK(e)
  BY DEF EventsOK, QueueOK
<1>2. /\ f \in EventsState /\ SameQueue(e, f) /\ SameRepeated(e, f) /\ SameUse(e, f)
      /\ f.objs = e.objs /\ f.list = e.list /\ f.synch = e.synch /\ f.dispatch = e.dispatch /\ f.n = n
      /\ n \in Nat /\ f.owed \in [Handlers -> Seq(ToTell)]
      /\ \A h \in Handlers : f.owed[h] = IF h \in Registered(e) THEN Append(e.owed[h], <<"event", n>>) ELSE e.owed[h]
  BY <1>1, DispatchingIs
<1>3. f.list \in Seq(Nat) /\ Len(f.list) \in Nat /\ DOMAIN f.list = 1..Len(f.list)
  BY <1>2 DEF EventsState
<1> HIDE DEF f, n
<1>4. QueueOK(f) /\ Queued(f) = Queued(e) /\ ListOK(f)
  BY <1>1, <1>2, QueueKept, ListKept
<1>5. RepeatOK(f) /\ UseOK(f)
  BY <1>1, <1>2, <1>4, RepeatKept, UseKept
<1>6. CASE e.synch
  <2> DEFINE d == [n |-> n, i |-> 1]
             g == [f EXCEPT !.dispatch = d]
  <2>1. Dispatched(e) = g
    BY <1>6 DEF Dispatched, f, n
  <2>2. d \in [n : Nat, i : Nat] /\ d.n = n /\ d.i = 1 /\ d # NoDispatch
    BY <1>2 DEF NoDispatch
  <2> HIDE DEF d
  <2>3. g \in EventsState
    BY <1>2, <2>2 DEF EventsState
  <2>4. /\ SameQueue(f, g) /\ SameRepeated(f, g) /\ SameUse(f, g)
        /\ g.objs = f.objs /\ g.list = f.list /\ g.synch = f.synch /\ g.dispatch = d /\ g.n = f.n /\ g.owed = f.owed
    BY <1>2 DEF EventsState, SameQueue, SameRepeated, SameUse
  <2> HIDE DEF g
  <2>5. QueueOK(g) /\ Queued(g) = Queued(f) /\ ListOK(g)
    BY <1>4, <2>3, <2>4, QueueKept, ListKept
  <2>6. RepeatOK(g) /\ UseOK(g)
    BY <1>5, <2>4, <2>5, RepeatKept, UseKept
  <2>7. AtOnce(e)
    BY <1>1, <1>6 DEF TellOK
  <2>8. ASSUME NEW h \in Handlers
        PROVE  g.owed[h] = IF Reached(g, h) THEN <<<<"event", g.n>>>> ELSE <<>>
    <3>1. e.owed[h] = <<>>
      BY <2>7 DEF AtOnce
    <3>2. Reached(g, h) <=> h \in Registered(e)
      <4>1. \A i \in DOMAIN f.list : i >= g.dispatch.i
        BY <1>3, <2>2, <2>4
      <4> QED
        BY <1>2, <2>4, <4>1 DEF Reached, Registered
    <3>3. Append(<<>>, <<"event", n>>) = <<<<"event", n>>>>
      OBVIOUS
    <3> QED
      BY <1>2, <2>4, <3>1, <3>2, <3>3
  <2>9. g.dispatch.i \in 1..Len(g.list) + 1 /\ g.dispatch.n = g.n /\ g.dispatch # NoDispatch
    BY <1>2, <1>3, <2>2, <2>4
  <2>10. AtOnce(g)
    BY <1>4, <2>5, <2>7, <2>8, <2>9 DEF AtOnce
  <2> QED
    BY <1>2, <1>6, <2>1, <2>4, <2>5, <2>6, <2>10 DEF EventsOK, TellOK
<1>7. CASE ~e.synch
  <2> DEFINE ts == [i \in DOMAIN f.list |-> Pack("event", f.list[i], n)]
             g == addTimedTasks(f, ts, 0)
  <2>1. Dispatched(e) = g
    BY <1>7 DEF Dispatched, f, n
  <2>2. ts \in Seq(EventTask) /\ DOMAIN ts = DOMAIN f.list
        /\ \A i \in DOMAIN f.list : ts[i].what = "event" /\ ts[i].l = f.list[i] /\ ts[i].n = n
    <3>1. "event" \in Telling \cup {"verify", "repeat"}
      BY DEF Telling
    <3>2. ASSUME NEW i \in DOMAIN f.list
          PROVE  LET t == Pack("event", f.list[i], n) IN t \in EventTask /\ t.what = "event" /\ t.l = f.list[i] /\ t.n = n
      <4>1. f.list[i] \in Nat
        BY <1>3
      <4> QED
        BY <1>2, <3>1, <4>1, PackedIs
    <3>3. ts \in [1..Len(f.list) -> EventTask]
      BY <1>3, <3>2
    <3>4. ts \in Seq(EventTask)
      BY <1>3, <3>3
    <3> QED
      BY <3>2, <3>4
  <2> HIDE DEF ts
  <2>3. 0 \in Nat /\ \A k \in DOMAIN ts : ts[k].what # "repeat"
    BY <2>2
  <2>4. QueueOK(g) /\ ListOK(g) /\ RepeatOK(g) /\ UseOK(g)
    BY <1>4, <1>5, <2>2, <2>3, AddedOK
  <2>5. SameTold(f, g)
    BY ONLY <1>2, <2>2, <2>3, AddedLast
  <2>6. ByTasks(e)
    BY <1>1, <1>7 DEF TellOK
  <2>7. InSequence(f)
    BY <1>2, <1>4, <2>6 DEF ByTasks, InSequence, SameQueue
  <2>8. InSequence(g)
    <3>1. \A k \in DOMAIN ts : ts[k].l \in DOMAIN f.objs
      BY <1>4, <2>2 DEF ListOK
    <3> QED
      BY <1>4, <2>2, <2>3, <2>7, <3>1, AddedInSequence
  <2>9. ASSUME NEW h \in Handlers
        PROVE  Undelivered(g, h) = f.owed[h]
    <3>1. Undelivered(f, h) = e.owed[h]
      <4>1. \A t : IsFor(f, h, t) <=> IsFor(e, h, t)
        BY <1>2 DEF IsFor
      <4>2. Undelivered(f, h) = Undelivered(e, h)
        BY <1>2, <4>1, UndeliveredKept DEF SameQueue
      <4> QED
        BY <2>6, <4>2 DEF ByTasks
    <3>2. \A k \in DOMAIN ts : IsFor(f, h, ts[k]) <=> f.objs[f.list[k]].handler = h
      BY <1>4, <2>2 DEF IsFor, ListOK, Forced
    <3>3. CASE h \in Registered(e)
      <4>1. PICK k \in DOMAIN f.list : f.objs[f.list[k]].handler = h
        BY <1>2, <3>3 DEF Registered
      <4>2. k \in DOMAIN ts /\ IsFor(f, h, ts[k]) /\ \A j \in DOMAIN ts : IsFor(f, h, ts[j]) => j = k
        BY <1>4, <2>2, <3>2, <4>1 DEF ListOK
      <4>3. Undelivered(g, h) = Append(Undelivered(f, h), <<ts[k].what, ts[k].n>>)
        BY <1>2, <2>2, <2>3, <4>2, UndeliveredMore
      <4> QED
        BY <1>2, <2>2, <3>1, <3>3, <4>2, <4>3
    <3>4. CASE h \notin Registered(e)
      <4>1. \A k \in DOMAIN ts : ~IsFor(f, h, ts[k])
        BY <1>2, <2>2, <3>2, <3>4 DEF Registered
      <4>2. Undelivered(g, h) = Undelivered(f, h)
        BY <1>2, <2>2, <2>3, <4>1, UndeliveredSame
      <4> QED
        BY <1>2, <3>1, <3>4, <4>2
    <3> QED
      BY <3>3, <3>4
  <2> HIDE DEF g
  <2> QED
    BY <1>2, <1>7, <2>1, <2>4, <2>5, <2>6, <2>8, <2>9 DEF EventsOK, TellOK, ByTasks, SameTold
<1> QED
  BY <1>6, <1>7

(* The next listener of an event that is told at once.                        *)
NextTold(e) ==
    IF e.dispatch.i > Len(e.list) THEN [e EXCEPT !.dispatch = NoDispatch]
    ELSE dispatchToOneListener([e EXCEPT !.dispatch.i = @ + 1], Pack("event", e.list[e.dispatch.i], e.dispatch.n))

LEMMA NextListenerOK ==
  ASSUME NEW e, EventsOK(e), e.dispatch # NoDispatch
  PROVE  EventsOK(NextTold(e))
<1>1. e \in EventsState /\ QueueOK(e) /\ ListOK(e) /\ RepeatOK(e) /\ UseOK(e) /\ TellOK(e)
  BY DEF EventsOK, QueueOK
<1>2. e.synch /\ AtOnce(e)
  BY <1>1 DEF TellOK, ByTasks
<1> DEFINE d == e.dispatch
<1>3. /\ d \in [n : Nat, i : Nat] /\ e.list \in Seq(Nat) /\ Len(e.list) \in Nat /\ DOMAIN e.list = 1..Len(e.list)
      /\ e.owed \in [Handlers -> Seq(ToTell)]
  BY <1>1 DEF EventsState
<1>4. /\ d.n = e.n /\ d.i \in 1..Len(e.list) + 1 /\ d.i \in Nat /\ d.n \in Nat
      /\ \A h \in Handlers : e.owed[h] = IF Reached(e, h) THEN <<<<"event", e.n>>>> ELSE <<>>
  BY <1>2, <1>3 DEF AtOnce
<1>5. CASE d.i > Len(e.list)
  <2> DEFINE g == [e EXCEPT !.dispatch = NoDispatch]
  <2>1. NextTold(e) = g
    BY <1>5 DEF NextTold
  <2>2. g \in EventsState
    BY <1>1 DEF EventsState, NoDispatch
  <2>3. /\ SameQueue(e, g) /\ SameRepeated(e, g) /\ SameUse(e, g)
        /\ g.objs = e.objs /\ g.list = e.list /\ g.synch = e.synch /\ g.dispatch = NoDispatch /\ g.owed = e.owed
    BY <1>1 DEF EventsState, SameQueue, SameRepeated, SameUse
  <2> HIDE DEF g
  <2>4. QueueOK(g) /\ Queued(g) = Queued(e) /\ ListOK(g)
    BY <1>1, <2>2, <2>3, QueueKept, ListKept
  <2>5. RepeatOK(g) /\ UseOK(g)
    BY <1>1, <2>3, <2>4, RepeatKept, UseKept
  <2>6. \A h \in Handlers : ~Reached(e, h)
    BY <1>3, <1>4, <1>5 DEF Reached
  <2>7. AtOnce(g)
    BY <1>2, <1>4, <2>3, <2>4, <2>6 DEF AtOnce
  <2> QED
    BY <1>2, <2>1, <2>3, <2>4, <2>5, <2>7 DEF EventsOK, TellOK
<1>6. CASE ~(d.i > Len(e.list))
  <2> DEFINE d1 == [d EXCEPT !.i = @ + 1]
             f == [e EXCEPT !.dispatch = d1]
             l == e.list[d.i]
             h == e.objs[l].handler
  <2>1. d.i \in DOMAIN e.list /\ d1 \in [n : Nat, i : Nat] /\ d1.i = d.i + 1 /\ d1.n = d.n /\ d1 # NoDispatch /\ d1.i \in 1..Len(e.list) + 1
    BY <1>3, <1>4, <1>6 DEF NoDispatch
  <2>2. l \in DOMAIN e.objs /\ h \in Handlers
    <3>1. l \in DOMAIN e.objs
      BY <1>1, <2>1 DEF ListOK
    <3>2. e.objs[l] \in Registration
      BY <1>1, <3>1 DEF EventsState
    <3> QED
      BY <3>1, <3>2 DEF Registration
  <2>3. NextTold(e) = dispatchToOneListener(f, Pack("event", l, d.n))
    BY <1>1, <1>6 DEF NextTold, EventsState
  <2> HIDE DEF d1, l, h
  <2>4. f \in EventsState
    BY <1>1, <2>1 DEF EventsState
  <2>5. /\ SameQueue(e, f) /\ SameRepeated(e, f) /\ SameUse(e, f) /\ f.n = e.n
        /\ f.objs = e.objs /\ f.list = e.list /\ f.synch = e.synch /\ f.dispatch = d1 /\ f.owed = e.owed
    BY <1>1 DEF EventsState, SameQueue, SameRepeated, SameUse
  <2> HIDE DEF f
  <2>6. e.owed[h] = <<<<"event", d.n>>>>
    <3>1. Reached(e, h)
      <4>1. d.i >= d.i /\ e.objs[e.list[d.i]].handler = h
        BY <1>4 DEF h, l
      <4> QED
        BY <2>1, <4>1 DEF Reached
    <3> QED
      BY <1>4, <2>2, <3>1
  <2> DEFINE v == [f.owed EXCEPT ![h] = <<>>]
             x == dispatchToOneListener(f, Pack("event", l, d.n))
  <2>7. x = Owing(f, v)
    <3>1. f.synch /\ l \in DOMAIN f.objs /\ f.objs[l].handler = h /\ f.owed[h] = <<<<"event", d.n>>>>
      BY <1>2, <2>2, <2>5, <2>6 DEF h
    <3>2. "event" \in {"start", "event", "end"}
      OBVIOUS
    <3> QED
      BY ONLY <1>4, <2>2, <2>4, <3>1, <3>2, ToldAtOnce DEF v, x
  <2>8. v \in [Handlers -> Seq(ToTell)] /\ \A k \in Handlers : v[k] = IF k = h THEN <<>> ELSE e.owed[k]
    <3>1. <<>> \in Seq(ToTell)
      OBVIOUS
    <3> QED
      BY <1>3, <2>5, <3>1
  <2> HIDE DEF v, x
  <2>9. /\ x \in EventsState /\ SameQueue(f, x) /\ SameRepeated(f, x) /\ SameUse(f, x)
        /\ x.objs = f.objs /\ x.list = f.list /\ x.synch = f.synch /\ x.dispatch = f.dispatch /\ x.n = f.n /\ x.owed = v
    BY <2>4, <2>7, <2>8, OwingIs
  <2>10. QueueOK(f) /\ Queued(f) = Queued(e) /\ ListOK(f)
    BY <1>1, <2>4, <2>5, QueueKept, ListKept
  <2>11. QueueOK(x) /\ Queued(x) = Queued(f) /\ ListOK(x)
    BY <2>9, <2>10, QueueKept, ListKept
  <2>12. RepeatOK(f) /\ UseOK(f)
    BY <1>1, <2>5, <2>10, RepeatKept, UseKept
  <2>13. RepeatOK(x) /\ UseOK(x)
    BY <2>9, <2>11, <2>12, RepeatKept, UseKept
  <2>14. ASSUME NEW k \in Handlers
         PROVE  x.owed[k] = IF Reached(x, k) THEN <<<<"event", x.n>>>> ELSE <<>>
    <3>1. Reached(x, k) <=> \E i \in DOMAIN e.list : i >= d.i + 1 /\ e.objs[e.list[i]].handler = k
      BY <2>1, <2>5, <2>9 DEF Reached
    <3>2. \A i \in DOMAIN e.list : i >= d.i <=> i >= d.i + 1 \/ i = d.i
      BY <1>3, <1>4
    <3>3. CASE k = h
      <4>1. \A i \in DOMAIN e.list : i >= d.i + 1 => i # d.i
        BY <1>3, <1>4
      <4>2. ~Reached(x, k)
        BY <1>1, <2>1, <3>1, <3>3, <4>1 DEF ListOK, h, l
      <4> QED
        BY <2>8, <2>9, <3>3, <4>2
    <3>4. CASE k # h
      <4>1. Reached(x, k) <=> Reached(e, k)
        BY <2>1, <3>1, <3>2, <3>4 DEF Reached, h, l
      <4> QED
        BY <1>4, <2>5, <2>8, <2>9, <3>4, <4>1
    <3> QED
      BY <3>3, <3>4
  <2>15. AtOnce(x)
    BY <1>2, <1>4, <2>1, <2>5, <2>9, <2>10, <2>11, <2>14 DEF AtOnce
  <2> QED
    BY <1>2, <2>3, <2>5, <2>9, <2>11, <2>13, <2>15 DEF EventsOK, TellOK, x
<1> QED
  BY <1>5, <1>6

-----------------------------------------------------------------------------
(* addRepetitiveTask, stopRepetitiveTask                                      *)
LEMMA AddRepetitiveOK ==
  ASSUME NEW e, EventsOK(e), EventsAssumption
  PROVE  EventsOK(addTimedTask([e EXCEPT !.repeats = Append(@, "live")], Pack("repeat", 0, Len(e.repeats) + 1), Step))
<1> DEFINE repeats == Append(e.repeats, "live")
           r == Len(e.repeats) + 1
           f == [e EXCEPT !.repeats = repeats]
           t == Pack("repeat", 0, r)
           ts == <<t>>
           g == addTimedTasks(f, ts, Step)
           v == NewTask(f, t, Step, 1)
<1>1. e \in EventsState /\ QueueOK(e) /\ ListOK(e) /\ RepeatOK(e) /\ UseOK(e) /\ TellOK(e) /\ Step \in Nat
  BY DEF EventsOK, QueueOK, EventsAssumption
<1>2. /\ e.repeats \in Seq({"live", "stopped"}) /\ r \in Nat /\ DOMAIN e.repeats = 1..Len(e.repeats)
      /\ r \notin DOMAIN e.repeats
  BY <1>1 DEF EventsState
<1>3. /\ repeats \in Seq({"live", "stopped"}) /\ DOMAIN repeats = DOMAIN e.repeats \cup {r} /\ repeats[r] = "live"
      /\ \A k \in DOMAIN e.repeats : repeats[k] = e.repeats[k]
  BY <1>2
<1> HIDE DEF repeats, r
<1>4. t \in EventTask /\ t.what = "repeat" /\ t.n = r /\ ts \in Seq(EventTask) /\ DOMAIN ts = {1} /\ ts[1] = t
  <2>1. "repeat" \in Telling \cup {"verify", "repeat"} /\ 0 \in Nat /\ r \in Nat
    BY <1>2
  <2>2. t \in EventTask /\ t.what = "repeat" /\ t.n = r
    BY ONLY <2>1, PackedIs DEF t
  <2> HIDE DEF t
  <2> QED
    BY <2>2
<1> HIDE DEF t
<1>5. v.what = "repeat" /\ v.n = r
  BY <1>4, NewTaskIs
<1>6. f \in EventsState
  BY <1>1, <1>3 DEF EventsState
<1>7. SameQueue(e, f) /\ SameTold(e, f) /\ SameUse(e, f) /\ f.repeated = e.repeated /\ f.repeats = repeats
  BY <1>1 DEF EventsState, SameQueue, SameTold, SameUse
<1> HIDE DEF f, v
<1>8. QueueOK(f) /\ Queued(f) = Queued(e) /\ ListOK(f) /\ TellOK(f) /\ UseOK(f)
  <2>1. QueueOK(f) /\ Queued(f) = Queued(e)
    BY <1>1, <1>6, <1>7, QueueKept
  <2> QED
    BY <1>1, <1>7, <2>1, ListKept, TellKept, UseKept DEF SameTold, SameQueue
<1>9. QueueOK(g)
  BY <1>1, <1>4, <1>8, AddedQueueOK
<1>10. Queued(g) = Queued(e) \cup {v}
  <2>1. Queued(g) = Queued(f) \cup {NewTask(f, ts[k], Step, k) : k \in DOMAIN ts}
    BY <1>1, <1>4, <1>6, AddedQueued
  <2> QED
    BY <1>4, <1>8, <2>1 DEF v
<1>11. TellOK(g)
  BY <1>1, <1>4, <1>8, AddedTells DEF Telling
<1>12. SameTold(f, g) /\ SameRepeated(f, g) /\ SameUse(f, g)
  BY ONLY <1>1, <1>4, <1>6, AddedLast
<1>13. g.repeated = e.repeated /\ g.repeats = repeats
  BY <1>7, <1>12 DEF SameRepeated
<1> HIDE DEF g
<1>14. ListOK(g) /\ UseOK(g)
  BY <1>5, <1>8, <1>10, <1>12, ListKept, UseKept DEF SameTold
<1>15. RepeatOK(g)
  <2>1. \A u \in Queued(e) : u.what = "repeat" => u.n \in DOMAIN e.repeats
    BY <1>1 DEF RepeatOK
  <2>2. \A u \in Queued(g) : u.what = "repeat" => u.n \in DOMAIN g.repeats
    BY <1>3, <1>5, <1>10, <1>13, <2>1
  <2>3. \A i \in DOMAIN g.repeated : g.repeated[i].what = "repeat" /\ g.repeated[i].n \in DOMAIN g.repeats /\ g.repeated[i].n # r
    BY <1>1, <1>2, <1>3, <1>13 DEF RepeatOK
  <2>4. \A x, u \in Queued(g) : x.what = "repeat" /\ u.what = "repeat" /\ x.n = u.n => x = u
    BY <1>1, <1>2, <1>5, <1>10, <2>1 DEF RepeatOK
  <2>5. \A i, j \in DOMAIN g.repeated : g.repeated[i].n = g.repeated[j].n => i = j
    BY <1>1, <1>13 DEF RepeatOK
  <2>6. \A x \in Queued(g), j \in DOMAIN g.repeated : x.what = "repeat" => x.n # g.repeated[j].n
    BY <1>1, <1>5, <1>10, <1>13, <2>3 DEF RepeatOK
  <2>7. ASSUME NEW k \in DOMAIN g.repeats, g.repeats[k] = "live"
        PROVE  (\E x \in Queued(g) : x.what = "repeat" /\ x.n = k) \/ \E i \in DOMAIN g.repeated : g.repeated[i].n = k
    <3>1. CASE k = r
      BY <1>5, <1>10, <3>1
    <3>2. CASE k # r
      <4>1. k \in DOMAIN e.repeats /\ e.repeats[k] = "live"
        BY <1>3, <1>13, <2>7, <3>2
      <4> QED
        BY <1>1, <1>10, <1>13, <4>1 DEF RepeatOK
    <3> QED
      BY <3>1, <3>2
  <2> QED
    BY <2>2, <2>3, <2>4, <2>5, <2>6, <2>7 DEF RepeatOK
<1> QED
  BY <1>9, <1>11, <1>14, <1>15 DEF EventsOK, addTimedTask, g, ts, t, f, repeats, r

LEMMA StopRepetitiveOK ==
  ASSUME NEW e, EventsOK(e), NEW r \in DOMAIN e.repeats
  PROVE  EventsOK([e EXCEPT !.repeats[r] = "stopped"])
<1> DEFINE repeats == [e.repeats EXCEPT ![r] = "stopped"]
           f == [e EXCEPT !.repeats[r] = "stopped"]
<1>1. e \in EventsState /\ QueueOK(e) /\ ListOK(e) /\ RepeatOK(e) /\ UseOK(e) /\ TellOK(e)
  BY DEF EventsOK, QueueOK
<1>2. e.repeats \in Seq({"live", "stopped"})
  BY <1>1 DEF EventsState
<1>3. /\ repeats \in Seq({"live", "stopped"}) /\ DOMAIN repeats = DOMAIN e.repeats
      /\ \A k \in DOMAIN e.repeats : repeats[k] = "live" => e.repeats[k] = "live"
  BY <1>2
<1>4. f = [e EXCEPT !.repeats = repeats]
  BY <1>1 DEF EventsState
<1> HIDE DEF repeats, f
<1>5. f \in EventsState
  BY <1>1, <1>3, <1>4 DEF EventsState
<1>6. SameQueue(e, f) /\ SameTold(e, f) /\ SameUse(e, f) /\ f.repeated = e.repeated /\ f.repeats = repeats
  BY <1>1, <1>4 DEF EventsState, SameQueue, SameTold, SameUse
<1>7. QueueOK(f) /\ Queued(f) = Queued(e)
  BY <1>1, <1>5, <1>6, QueueKept
<1>8. ListOK(f) /\ TellOK(f) /\ UseOK(f)
  BY <1>1, <1>6, <1>7, ListKept, TellKept, UseKept DEF SameTold, SameQueue
<1>9. RepeatOK(f)
  BY <1>1, <1>3, <1>6, <1>7 DEF RepeatOK
<1> QED
  BY <1>7, <1>8, <1>9 DEF EventsOK, f

-----------------------------------------------------------------------------
(* execute: a turn begins.                                                    *)
LEMMA TurnOK ==
  ASSUME NEW e, EventsOK(e), NEW now \in Nat, now >= e.now
  PROVE  EventsOK(TurnOf(e, now))
<1> DEFINE f == TurnOf(e, now)
<1>1. QueueOK(e) /\ ListOK(e) /\ RepeatOK(e) /\ UseOK(e) /\ TellOK(e)
  BY DEF EventsOK
<1>2. SameTold(e, f) /\ SameRepeated(e, f) /\ SameUse(e, f)
  BY ONLY <1>1, now \in Nat, TurnMoves
<1>3. QueueOK(f) /\ Queued(f) = Queued(e)
  BY <1>1, TurnQueueOK
<1>4. CASE ~e.synch
  <2>1. ByTasks(f)
    BY <1>1, <1>4, TurnTells DEF TellOK
  <2> HIDE DEF f
  <2>2. ListOK(f) /\ RepeatOK(f) /\ UseOK(f) /\ ~f.synch
    BY <1>1, <1>2, <1>3, <1>4, ListKept, RepeatKept, UseKept DEF SameTold
  <2> QED
    BY <1>3, <2>1, <2>2 DEF EventsOK, TellOK, f
<1>5. CASE e.synch
  <2> HIDE DEF f
  <2>1. ListOK(f) /\ RepeatOK(f) /\ UseOK(f) /\ f.synch
    BY <1>1, <1>2, <1>3, <1>5, ListKept, RepeatKept, UseKept DEF SameTold
  <2>2. AtOnce(f)
    BY <1>1, <1>2, <1>3, <1>5, AtOnceKept DEF TellOK
  <2> QED
    BY <1>3, <2>1, <2>2 DEF EventsOK, TellOK, f
<1> QED
  BY <1>4, <1>5

-----------------------------------------------------------------------------
(* A task that leaves the queue: the parts that it does not concern.          *)
LEMMA TakenLeaves ==
  ASSUME NEW e, EventsOK(e), e.queue # <<>>
  PROVE  LET f == TakenFrom(e)
             t == Head(e.queue)
         IN /\ QueueOK(f) /\ ListOK(f)
            /\ t.what # "repeat" => RepeatOK(f)
            /\ t.what # "verify" => UseOK(f)
            /\ t.what \notin Telling => TellOK(f)
<1> DEFINE f == TakenFrom(e)
           t == Head(e.queue)
<1>1. e \in EventsState /\ QueueOK(e) /\ ListOK(e) /\ RepeatOK(e) /\ UseOK(e) /\ TellOK(e)
  BY DEF EventsOK, QueueOK
<1>2. /\ f \in EventsState
      /\ f.now = e.now /\ f.looping = e.looping /\ SameTold(e, f) /\ SameRepeated(e, f) /\ SameUse(e, f)
      /\ QueueOK(f) /\ \A u : u \in Queued(f) <=> u \in Queued(e) /\ u # t
  BY <1>1, TakesFirst
<1>3. t.what \notin Telling /\ ~e.synch => TellOK(f)
  <2> SUFFICES ASSUME t.what \notin Telling, ~e.synch
               PROVE  TellOK(f)
    OBVIOUS
  <2>1. ByTasks(e)
    BY <1>1 DEF TellOK
  <2>2. /\ InSequence(f)
        /\ \A h : IF IsFor(e, h, t)
                  THEN /\ Undelivered(e, h) # <<>> /\ Head(Undelivered(e, h)) = <<t.what, t.n>>
                       /\ Undelivered(f, h) = Tail(Undelivered(e, h))
                  ELSE Undelivered(f, h) = Undelivered(e, h)
    BY <1>1, <2>1, TakenTells DEF ByTasks
  <2>3. \A h : ~IsFor(e, h, t)
    BY DEF IsFor, Telling
  <2> HIDE DEF f, t
  <2> QED
    BY <1>2, <2>1, <2>2, <2>3 DEF TellOK, ByTasks, SameTold
<1> HIDE DEF f, t
<1>4. ListOK(f) /\ (t.what # "repeat" => RepeatOK(f)) /\ (t.what # "verify" => UseOK(f))
  BY <1>1, <1>2, ListKept, RepeatKept, UseKept DEF SameTold
<1>5. e.synch => TellOK(f)
  BY <1>1, <1>2, AtOnceKept DEF TellOK, SameTold
<1> QED
  BY <1>2, <1>3, <1>4, <1>5 DEF f, t

(* A task that tells.                                                         *)
LEMMA TellingOK ==
  ASSUME NEW e, EventsOK(e), e.queue # <<>>, Head(e.queue).what \in Telling
  PROVE  EventsOK(dispatchToOneListenerExecution(TakenFrom(e), Head(e.queue)))
<1> DEFINE f == TakenFrom(e)
           t == Head(e.queue)
<1>1. e \in EventsState /\ QueueOK(e) /\ ListOK(e) /\ RepeatOK(e) /\ UseOK(e) /\ TellOK(e)
  BY DEF EventsOK, QueueOK
<1>2. /\ f \in EventsState /\ t \in EventTask /\ t \in Queued(e)
      /\ SameTold(e, f) /\ SameRepeated(e, f) /\ SameUse(e, f)
  BY <1>1, TakesFirst
<1>3. QueueOK(f) /\ ListOK(f) /\ RepeatOK(f) /\ UseOK(f)
  BY TakenLeaves DEF Telling
<1>4. ~e.synch /\ ByTasks(e)
  BY <1>1, <1>2 DEF TellOK, AtOnce
<1>5. /\ InSequence(f)
      /\ \A h : IF IsFor(e, h, t)
                THEN /\ Undelivered(e, h) # <<>> /\ Head(Undelivered(e, h)) = <<t.what, t.n>>
                     /\ Undelivered(f, h) = Tail(Undelivered(e, h))
                ELSE Undelivered(f, h) = Undelivered(e, h)
  BY <1>1, <1>4, TakenTells DEF ByTasks
<1>6. t.what \in {"start", "event", "end"}
  BY DEF Telling
<1> HIDE DEF f, t
<1> DEFINE obj == f.objs[t.l]
           h == obj.handler
           item == <<t.what, t.n>>
<1>7. h \in Handlers /\ item \in ToTell /\ f.objs = e.objs /\ f.owed = e.owed /\ f.dispatch = NoDispatch /\ ~f.synch
  <2>1. f.objs = e.objs /\ f.owed = e.owed /\ f.dispatch = NoDispatch /\ ~f.synch /\ f.objs \in Seq(Registration)
    BY <1>2, <1>4 DEF SameTold, ByTasks, EventsState
  <2>2. t.l \in DOMAIN f.objs
    BY <1>2, <1>4, <1>6, <2>1 DEF ByTasks, InSequence, Telling
  <2>3. h \in Handlers
    <3>1. f.objs[t.l] \in Registration
      BY <2>1, <2>2
    <3> QED
      BY <3>1 DEF Registration
  <2>4. item \in ToTell
    BY <1>2, <1>6 DEF ToTell, Telling, EventTask
  <2> QED
    BY <2>1, <2>3, <2>4
<1>8. CASE Forced(t) \/ obj.listening
  <2> DEFINE w == [f.owed EXCEPT ![h] = Tail(@)]
             g == Owing(f, w)
  <2>1. \A k : IsFor(e, k, t) <=> k = h
    BY <1>6, <1>7, <1>8 DEF IsFor
  <2>2. f.owed[h] # <<>> /\ Head(f.owed[h]) = item
    BY <1>4, <1>5, <1>7, <2>1 DEF ByTasks
  <2>3. dispatchToOneListenerExecution(f, t) = Told(f, h, item)
    BY <1>8 DEF dispatchToOneListenerExecution
  <2> HIDE DEF obj, h, item
  <2>4. Told(f, h, item) = g /\ w \in [Handlers -> Seq(ToTell)]
    BY <1>2, <1>7, <2>2, ToldIs
  <2>5. \A k \in Handlers : w[k] = IF k = h THEN Tail(f.owed[k]) ELSE f.owed[k]
    BY <1>2 DEF EventsState
  <2> HIDE DEF w
  <2>6. /\ g \in EventsState /\ SameQueue(f, g) /\ SameRepeated(f, g) /\ SameUse(f, g)
        /\ g.objs = f.objs /\ g.list = f.list /\ g.synch = f.synch /\ g.dispatch = f.dispatch /\ g.n = f.n /\ g.owed = w
    BY <1>2, <2>4, OwingIs
  <2> HIDE DEF g
  <2>7. QueueOK(g) /\ Queued(g) = Queued(f) /\ ListOK(g)
    BY <1>3, <2>6, QueueKept, ListKept
  <2>8. RepeatOK(g) /\ UseOK(g)
    BY <1>3, <2>6, <2>7, RepeatKept, UseKept
  <2>9. InSequence(g)
    BY <1>5, <2>6, <2>7 DEF InSequence, SameQueue
  <2>10. ASSUME NEW k \in Handlers
         PROVE  Undelivered(g, k) = g.owed[k]
    <3>1. Undelivered(g, k) = Undelivered(f, k)
      <4>1. \A u : IsFor(g, k, u) <=> IsFor(f, k, u)
        BY <2>6 DEF IsFor
      <4> QED
        BY <2>6, <4>1, UndeliveredKept DEF SameQueue
    <3>2. Undelivered(e, k) = f.owed[k]
      BY <1>4, <1>7 DEF ByTasks
    <3>3. CASE k = h
      BY <1>5, <2>1, <2>5, <2>6, <3>1, <3>2, <3>3
    <3>4. CASE k # h
      BY <1>5, <2>1, <2>5, <2>6, <3>1, <3>2, <3>4
    <3> QED
      BY <3>3, <3>4
  <2>11. EventsOK(g)
    BY <1>7, <2>6, <2>7, <2>8, <2>9, <2>10 DEF EventsOK, TellOK, ByTasks
  <2> QED
    BY <2>3, <2>4, <2>11 DEF f, t
<1>9. CASE ~(Forced(t) \/ obj.listening)
  <2>1. dispatchToOneListenerExecution(f, t) = f
    BY <1>9 DEF dispatchToOneListenerExecution
  <2>2. \A k : ~IsFor(e, k, t)
    BY <1>7, <1>9 DEF IsFor
  <2>3. \A k \in Handlers : Undelivered(f, k) = f.owed[k]
    BY <1>4, <1>5, <1>7, <2>2 DEF ByTasks
  <2>4. EventsOK(f)
    BY <1>3, <1>5, <1>7, <2>3 DEF EventsOK, TellOK, ByTasks
  <2> QED
    BY <2>1, <2>4 DEF f, t
<1> QED
  BY <1>8, <1>9

(* The check of an object that is no longer used.                             *)
LEMMA VerifyOK ==
  ASSUME NEW e, EventsOK(e), e.queue # <<>>, Head(e.queue).what = "verify"
  PROVE  EventsOK(verifyTouches(TakenFrom(e), Head(e.queue)))
<1> DEFINE f == TakenFrom(e)
           t == Head(e.queue)
           g == [f EXCEPT !.clean = TRUE]
<1>1. e \in EventsState /\ QueueOK(e) /\ UseOK(e)
  BY DEF EventsOK, QueueOK
<1>2. /\ f \in EventsState /\ SameUse(e, f)
      /\ \A u : u \in Queued(f) <=> u \in Queued(e) /\ u # t
  BY <1>1, TakesFirst
<1>3. QueueOK(f) /\ ListOK(f) /\ RepeatOK(f) /\ TellOK(f)
  BY TakenLeaves DEF Telling
<1> HIDE DEF f, t
<1>4. IsFiniteSet(f.users) /\ f.inUse = Cardinality(f.users) /\ Cardinality(f.users) \in Nat
  BY <1>1, <1>2, FS_CardinalityType DEF UseOK, SameUse
<1>5. CASE t.n = f.touchPhase /\ f.inUse <= 0
  <2>1. f.users = {}
    <3>1. Cardinality(f.users) = 0
      BY <1>4, <1>5
    <3> QED
      BY <1>4, <3>1, FS_EmptySet
  <2>2. g \in EventsState
    BY <1>2 DEF EventsState
  <2>3. /\ SameQueue(f, g) /\ SameTold(f, g) /\ SameRepeated(f, g) /\ g.users = f.users /\ g.inUse = f.inUse /\ g.clean = TRUE
    BY <1>2 DEF EventsState, SameQueue, SameTold, SameRepeated
  <2> HIDE DEF g
  <2>4. QueueOK(g) /\ Queued(g) = Queued(f) /\ ListOK(g) /\ TellOK(g)
    BY <1>3, <2>2, <2>3, QueueKept, ListKept, TellKept DEF SameTold, SameQueue
  <2>5. RepeatOK(g)
    BY <1>3, <2>3, <2>4, RepeatKept
  <2>6. UseOK(g)
    BY <1>4, <2>1, <2>3 DEF UseOK
  <2>7. EventsOK(g)
    BY <2>4, <2>5, <2>6 DEF EventsOK
  <2> QED
    BY <1>5, <2>7 DEF verifyTouches, g, f, t
<1>6. CASE ~(t.n = f.touchPhase /\ f.inUse <= 0)
  <2>1. UseOK(f)
    <3>1. f.users = {} => f.inUse <= 0
      <4>1. Cardinality({}) = 0
        BY FS_EmptySet
      <4> QED
        BY <1>4, <4>1
    <3>2. f.users # {} => ~f.clean
      BY <1>1, <1>2 DEF UseOK, SameUse
    <3>3. ASSUME f.users = {}, ~f.clean
          PROVE  \E u \in Queued(f) : u.what = "verify" /\ u.n = f.touchPhase
      <4>1. PICK u \in Queued(e) : u.what = "verify" /\ u.n = f.touchPhase
        BY <1>1, <1>2, <3>3 DEF UseOK, SameUse
      <4>2. u # t
        BY <1>6, <3>1, <3>3, <4>1
      <4> QED
        BY <1>2, <4>1, <4>2
    <3> QED
      BY <1>4, <3>2, <3>3 DEF UseOK
  <2>2. EventsOK(f)
    BY <1>3, <2>1 DEF EventsOK
  <2> QED
    BY <1>6, <2>2 DEF verifyTouches, f, t
<1> QED
  BY <1>5, <1>6

(* A task that may be repeated waits for the end of the turn.                 *)
LEMMA RepeatingOK ==
  ASSUME NEW e, EventsOK(e), e.queue # <<>>, Head(e.queue).what = "repeat"
  PROVE  LET f == TakenFrom(e)
             t == Head(e.queue)
         IN EventsOK(IF IsLive(f, t) THEN [f EXCEPT !.repeated = Append(@, t)] ELSE f)
<1> DEFINE f == TakenFrom(e)
           t == Head(e.queue)
           repeated == Append(f.repeated, t)
           g == [f EXCEPT !.repeated = repeated]
           m == Len(f.repeated)
<1>1. e \in EventsState /\ QueueOK(e) /\ RepeatOK(e)
  BY DEF EventsOK, QueueOK
<1>2. /\ f \in EventsState /\ t \in EventTask /\ t \in Queued(e) /\ SameRepeated(e, f)
      /\ \A u : u \in Queued(f) <=> u \in Queued(e) /\ u # t
  BY <1>1, TakesFirst
<1>3. QueueOK(f) /\ ListOK(f) /\ UseOK(f) /\ TellOK(f)
  BY TakenLeaves DEF Telling
<1> HIDE DEF f
<1>4. f.repeated = e.repeated /\ f.repeats = e.repeats /\ f.repeated \in Seq(EventTask)
  BY <1>2 DEF SameRepeated, EventsState
<1>5. t.what = "repeat" /\ t.n \in DOMAIN e.repeats
  BY <1>1, <1>2 DEF RepeatOK
<1> HIDE DEF t
<1>6. m \in Nat /\ DOMAIN f.repeated = 1..m
  BY <1>4
<1>7. CASE IsLive(f, t)
  <2>1. /\ repeated \in Seq(EventTask) /\ DOMAIN repeated = 1..m + 1 /\ repeated[m + 1] = t /\ m + 1 \in DOMAIN repeated
        /\ \A i \in 1..m : repeated[i] = f.repeated[i] /\ i \in DOMAIN repeated
        /\ \A i \in 1..m + 1 : i \in 1..m \/ i = m + 1
    <3>1. repeated \in Seq(EventTask) /\ DOMAIN repeated = 1..m + 1 /\ repeated[m + 1] = t /\ \A i \in 1..m : repeated[i] = f.repeated[i]
      BY <1>2, <1>4, <1>6
    <3> QED
      BY <1>6, <3>1
  <2> HIDE DEF repeated, m
  <2>2. g \in EventsState
    BY <1>2, <2>1 DEF EventsState
  <2>3. SameQueue(f, g) /\ SameTold(f, g) /\ SameUse(f, g) /\ g.repeats = f.repeats /\ g.repeated = repeated
    BY <1>2 DEF EventsState, SameQueue, SameTold, SameUse
  <2> HIDE DEF g
  <2>4. QueueOK(g) /\ Queued(g) = Queued(f)
    BY <1>3, <2>2, <2>3, QueueKept
  <2>5. ListOK(g) /\ TellOK(g) /\ UseOK(g)
    BY <1>3, <2>3, <2>4, ListKept, TellKept, UseKept DEF SameTold, SameQueue
  <2>6. \A i \in DOMAIN e.repeated : e.repeated[i].what = "repeat" /\ e.repeated[i].n \in DOMAIN e.repeats /\ e.repeated[i].n # t.n
    BY <1>1, <1>2, <1>5 DEF RepeatOK
  <2>7. RepeatOK(g)
    <3>1. \A u \in Queued(g) : u.what = "repeat" => u.n \in DOMAIN g.repeats /\ u.n # t.n
      BY <1>1, <1>2, <1>4, <1>5, <2>3, <2>4 DEF RepeatOK
    <3>2. \A i \in DOMAIN g.repeated : IF i = m + 1 THEN g.repeated[i] = t ELSE i \in DOMAIN e.repeated /\ g.repeated[i] = e.repeated[i]
      BY <1>4, <1>6, <2>1, <2>3
    <3>3. \A i \in DOMAIN g.repeated : g.repeated[i].what = "repeat" /\ g.repeated[i].n \in DOMAIN g.repeats
      BY <1>4, <1>5, <2>3, <2>6, <3>2
    <3>4. \A x, u \in Queued(g) : x.what = "repeat" /\ u.what = "repeat" /\ x.n = u.n => x = u
      BY <1>1, <1>2, <2>4 DEF RepeatOK
    <3>5. \A i, j \in DOMAIN g.repeated : g.repeated[i].n = g.repeated[j].n => i = j
      BY <1>1, <2>6, <3>2 DEF RepeatOK
    <3>6. \A x \in Queued(g), j \in DOMAIN g.repeated : x.what = "repeat" => x.n # g.repeated[j].n
      BY <1>1, <1>2, <2>4, <3>1, <3>2 DEF RepeatOK
    <3>7. ASSUME NEW k \in DOMAIN g.repeats, g.repeats[k] = "live"
          PROVE  (\E x \in Queued(g) : x.what = "repeat" /\ x.n = k) \/ \E i \in DOMAIN g.repeated : g.repeated[i].n = k
      <4>1. CASE k = t.n
        BY <2>1, <2>3, <4>1
      <4>2. CASE k # t.n
        <5>1. (\E x \in Queued(e) : x.what = "repeat" /\ x.n = k) \/ \E i \in DOMAIN e.repeated : e.repeated[i].n = k
          BY <1>1, <1>4, <2>3, <3>7 DEF RepeatOK
        <5>2. CASE \E x \in Queued(e) : x.what = "repeat" /\ x.n = k
          BY <1>2, <2>4, <4>2, <5>2
        <5>3. CASE \E i \in DOMAIN e.repeated : e.repeated[i].n = k
          BY <1>4, <1>6, <2>1, <2>3, <5>3
        <5> QED
          BY <5>1, <5>2, <5>3
      <4> QED
        BY <4>1, <4>2
    <3> QED
      BY <3>1, <3>3, <3>4, <3>5, <3>6, <3>7 DEF RepeatOK
  <2> QED
    BY <1>7, <2>4, <2>5, <2>7 DEF EventsOK, f, t, g, repeated
<1>8. CASE ~IsLive(f, t)
  <2>1. f.repeats[t.n] # "live"
    BY <1>8 DEF IsLive
  <2>2. RepeatOK(f)
    BY <1>1, <1>2, <1>4, <2>1 DEF RepeatOK
  <2> QED
    BY <1>3, <1>8, <2>2 DEF EventsOK, f, t
<1> QED
  BY <1>7, <1>8

-----------------------------------------------------------------------------
(* The end of a turn.                                                         *)
AgainAt(e) == {i \in DOMAIN e.repeated : IsLive(e, e.repeated[i])}
TurnEnded(e) ==
    addTimedTasks([e EXCEPT !.looping = FALSE, !.repeated = <<>>, !.nextId = IF e.queue = <<>> THEN 0 ELSE @],
                  Pick(e.repeated, AgainAt(e)), Step)

LEMMA EndOfTurnOK ==
  ASSUME NEW e, EventsOK(e), EventsAssumption
  PROVE  EventsOK(TurnEnded(e))
<1> DEFINE upcoming == IF e.queue = <<>> THEN 0 ELSE e.nextId
           f == [e EXCEPT !.looping = FALSE, !.repeated = <<>>, !.nextId = IF e.queue = <<>> THEN 0 ELSE @]
           P == AgainAt(e)
           ts == Pick(e.repeated, P)
           g == addTimedTasks(f, ts, Step)
<1>1. e \in EventsState /\ QueueOK(e) /\ ListOK(e) /\ RepeatOK(e) /\ UseOK(e) /\ TellOK(e) /\ Step \in Nat
  BY DEF EventsOK, QueueOK, EventsAssumption
<1>2. /\ e.repeated \in Seq(EventTask) /\ DOMAIN e.repeated = 1..Len(e.repeated) /\ Len(e.repeated) \in Nat
      /\ e.nextId \in Nat /\ e.queue \in Seq(EventTask)
  BY <1>1 DEF EventsState
<1>3. P \in SUBSET Nat /\ IsFiniteSet(P) /\ P \subseteq DOMAIN e.repeated /\ \A i \in P : e.repeated[i] \in EventTask
  <2>1. P \subseteq DOMAIN e.repeated
    BY DEF AgainAt
  <2>2. IsFiniteSet(DOMAIN e.repeated)
    BY <1>2, CountTo
  <2>3. IsFiniteSet(P)
    BY <2>1, <2>2, FS_Subset
  <2> QED
    BY <1>2, <2>1, <2>3
<1>4. \A i \in P : e.repeated[i].what = "repeat" /\ e.repeated[i].n \in DOMAIN e.repeats
  BY <1>1, <1>3 DEF RepeatOK
<1>5. \A i \in DOMAIN e.repeated : e.repeats[e.repeated[i].n] = "live" => i \in P
  BY DEF AgainAt, IsLive
<1> HIDE DEF P
<1>6. ts \in Seq(EventTask) /\ Len(ts) = Cardinality(P) /\ \A k \in 1..Cardinality(P) : ts[k] = e.repeated[Nth(P, k)]
  BY <1>3, PickIs
<1>7. /\ Cardinality(P) \in Nat
      /\ \A k \in 1..Cardinality(P) : Nth(P, k) \in P /\ PlaceIn(P, Nth(P, k)) = k
      /\ \A i \in P : PlaceIn(P, i) \in 1..Cardinality(P) /\ Nth(P, PlaceIn(P, i)) = i
  BY <1>3, NthIs
<1>8. DOMAIN ts = 1..Cardinality(P)
  BY <1>6
<1> HIDE DEF ts
<1>9. upcoming \in Nat /\ f = [e EXCEPT !.looping = FALSE, !.repeated = <<>>, !.nextId = upcoming]
  BY <1>1, <1>2 DEF EventsState
<1>10. <<>> \in Seq(EventTask)
  OBVIOUS
<1> HIDE DEF f, upcoming
<1>11. f \in EventsState
  BY <1>1, <1>9, <1>10 DEF EventsState
<1>12. /\ f.queue = e.queue /\ f.now = e.now /\ f.nextId = upcoming /\ f.newStuff = e.newStuff /\ f.looping = FALSE
       /\ SameTold(e, f) /\ SameUse(e, f) /\ f.repeats = e.repeats /\ f.repeated = <<>>
  BY <1>1, <1>9 DEF EventsState, SameTold, SameUse
<1>13. QueueOK(f) /\ Queued(f) = Queued(e)
  <2>1. \A i \in DOMAIN e.queue : e.queue[i].id < upcoming
    BY <1>1, <1>2 DEF QueueOK, upcoming
  <2> QED
    BY <1>1, <1>11, <1>12, <2>1 DEF QueueOK, Queued
<1>14. ListOK(f) /\ TellOK(f) /\ UseOK(f)
  BY <1>1, <1>12, <1>13, ListKept, TellKept, UseKept DEF SameTold
<1>15. \A k \in DOMAIN ts : ts[k].what = "repeat" /\ ts[k].n \in DOMAIN e.repeats
  BY <1>4, <1>6, <1>7, <1>8
<1>16. QueueOK(g)
  BY <1>1, <1>6, <1>13, AddedQueueOK
<1>17. TellOK(g)
  BY <1>1, <1>6, <1>13, <1>14, <1>15, AddedTells DEF Telling
<1>18. SameTold(f, g) /\ SameRepeated(f, g) /\ SameUse(f, g)
  BY ONLY <1>1, <1>6, <1>11, AddedLast
<1>19. Queued(g) = Queued(f) \cup {NewTask(f, ts[k], Step, k) : k \in DOMAIN ts}
  BY <1>1, <1>6, <1>11, AddedQueued
<1> HIDE DEF g
<1>20. \A k \in DOMAIN ts : NewTask(f, ts[k], Step, k).what = "repeat" /\ NewTask(f, ts[k], Step, k).n = ts[k].n
  <2> SUFFICES ASSUME NEW k \in DOMAIN ts
               PROVE  NewTask(f, ts[k], Step, k).what = "repeat" /\ NewTask(f, ts[k], Step, k).n = ts[k].n
    OBVIOUS
  <2>1. ts[k] \in EventTask
    BY <1>6, <1>8
  <2>2. NewTask(f, ts[k], Step, k).what = ts[k].what /\ NewTask(f, ts[k], Step, k).n = ts[k].n
    BY ONLY <2>1 DEF NewTask, EventTask
  <2> QED
    BY <1>15, <2>2
<1>21. ListOK(g) /\ UseOK(g)
  <2>1. \A t : t \in Queued(f) /\ t.what = "verify" => t \in Queued(g)
    BY <1>19
  <2> QED
    BY <1>14, <1>18, <2>1, ListKept, UseKept DEF SameTold
<1>22. g.repeats = e.repeats /\ g.repeated = <<>>
  BY <1>12, <1>18 DEF SameRepeated
<1>23. ASSUME NEW j \in DOMAIN ts, NEW k \in DOMAIN ts, ts[j].n = ts[k].n
       PROVE  j = k
  <2>1. /\ Nth(P, j) \in DOMAIN e.repeated /\ Nth(P, k) \in DOMAIN e.repeated
        /\ e.repeated[Nth(P, j)].n = e.repeated[Nth(P, k)].n
    BY <1>3, <1>6, <1>7, <1>8, <1>23
  <2>2. Nth(P, j) = Nth(P, k)
    BY <1>1, <2>1 DEF RepeatOK
  <2> QED
    BY <1>7, <1>8, <2>2
<1>24. ASSUME NEW u \in Queued(e), u.what = "repeat", NEW k \in DOMAIN ts
       PROVE  u.n # ts[k].n
  <2>1. Nth(P, k) \in DOMAIN e.repeated /\ ts[k] = e.repeated[Nth(P, k)]
    BY <1>3, <1>6, <1>7, <1>8
  <2> QED
    BY <1>1, <1>24, <2>1 DEF RepeatOK
<1>25. RepeatOK(g)
  <2>1. ASSUME NEW u \in Queued(g)
        PROVE  u \in Queued(e) \/ \E k \in DOMAIN ts : u = NewTask(f, ts[k], Step, k)
    BY <1>13, <1>19
  <2>2. \A u \in Queued(g) : u.what = "repeat" => u.n \in DOMAIN g.repeats
    BY <1>1, <1>15, <1>20, <1>22, <2>1 DEF RepeatOK
  <2>3. ASSUME NEW x \in Queued(g), NEW u \in Queued(g), x.what = "repeat", u.what = "repeat", x.n = u.n
        PROVE  x = u
    <3>1. CASE x \in Queued(e) /\ u \in Queued(e)
      BY <1>1, <2>3, <3>1 DEF RepeatOK
    <3>2. CASE x \in Queued(e) /\ u \notin Queued(e)
      BY <1>20, <1>24, <2>1, <2>3, <3>2
    <3>3. CASE x \notin Queued(e) /\ u \in Queued(e)
      BY <1>20, <1>24, <2>1, <2>3, <3>3
    <3>4. CASE x \notin Queued(e) /\ u \notin Queued(e)
      <4>1. PICK j \in DOMAIN ts : x = NewTask(f, ts[j], Step, j)
        BY <2>1, <3>4
      <4>2. PICK k \in DOMAIN ts : u = NewTask(f, ts[k], Step, k)
        BY <2>1, <3>4
      <4>3. j = k
        BY <1>20, <1>23, <2>3, <4>1, <4>2
      <4> QED
        BY <4>1, <4>2, <4>3
    <3> QED
      BY <3>1, <3>2, <3>3, <3>4
  <2>4. DOMAIN g.repeated = {}
    BY <1>22
  <2>5. ASSUME NEW r \in DOMAIN g.repeats, g.repeats[r] = "live"
        PROVE  \E x \in Queued(g) : x.what = "repeat" /\ x.n = r
    <3>1. (\E x \in Queued(e) : x.what = "repeat" /\ x.n = r) \/ \E i \in DOMAIN e.repeated : e.repeated[i].n = r
      BY <1>1, <1>22, <2>5 DEF RepeatOK
    <3>2. CASE \E x \in Queued(e) : x.what = "repeat" /\ x.n = r
      BY <1>13, <1>19, <3>2
    <3>3. CASE \E i \in DOMAIN e.repeated : e.repeated[i].n = r
      <4>1. PICK i \in DOMAIN e.repeated : e.repeated[i].n = r
        BY <3>3
      <4>2. i \in P
        BY <1>5, <1>22, <2>5, <4>1
      <4>3. PlaceIn(P, i) \in DOMAIN ts /\ ts[PlaceIn(P, i)].n = r
        BY <1>6, <1>7, <1>8, <4>1, <4>2
      <4> QED
        BY <1>19, <1>20, <4>3
    <3> QED
      BY <3>1, <3>2, <3>3
  <2> QED
    BY <2>2, <2>3, <2>4, <2>5 DEF RepeatOK
<1> QED
  BY <1>16, <1>17, <1>21, <1>25 DEF EventsOK, TurnEnded, g, f, ts, P

-----------------------------------------------------------------------------
LEMMA InitialOK ==
  ASSUME NEW synch \in BOOLEAN
  PROVE  EventsOK(InitialEvents(synch))
<1> DEFINE e == InitialEvents(synch)
<1>1. e \in EventsState
  <2>1. [h \in Handlers |-> <<>>] \in [Handlers -> Seq(ToTell)]
    OBVIOUS
  <2>2. <<>> \in Seq(EventTask) /\ <<>> \in Seq(Registration) /\ <<>> \in Seq(Nat) /\ <<>> \in Seq({"live", "stopped"})
    OBVIOUS
  <2>3. {} \in SUBSET Users /\ 0 \in Int /\ NoDispatch \in [n : Nat, i : Nat]
    BY DEF NoDispatch
  <2> QED
    BY <2>1, <2>2, <2>3 DEF InitialEvents, EventsState
<1>2. /\ e.queue = <<>> /\ e.repeated = <<>> /\ e.objs = <<>> /\ e.list = <<>> /\ e.dispatch = NoDispatch
      /\ (\A h \in Handlers : e.owed[h] = <<>>) /\ e.users = {} /\ e.inUse = 0 /\ e.clean = TRUE /\ e.repeats = <<>>
      /\ e.synch = synch
  BY DEF InitialEvents
<1> HIDE DEF e
<1>3. DOMAIN <<>> = {}
  OBVIOUS
<1>4. QueueOK(e)
  BY <1>1, <1>2, <1>3 DEF QueueOK
<1>5. ListOK(e) /\ RepeatOK(e)
  BY <1>2, <1>3 DEF ListOK, RepeatOK, Queued
<1>6. UseOK(e)
  <2>1. IsFiniteSet({}) /\ Cardinality({}) = 0
    BY FS_EmptySet
  <2> QED
    BY <1>2, <2>1 DEF UseOK
<1>7. AtOnce(e)
  BY <1>2, <1>3 DEF AtOnce, Queued
<1>8. ByTasks(e)
  <2>1. InSequence(e)
    BY <1>2, <1>3 DEF InSequence, Queued
  <2>2. ASSUME NEW h \in Handlers
        PROVE  Undelivered(e, h) = e.owed[h]
    <3>1. PositionsFor(e, h) = {}
      BY <1>2, <1>3 DEF PositionsFor
    <3>2. Undelivered(e, h) = Pick(WhatIsTold(e), {})
      BY <1>1, <3>1, PositionsAre
    <3>3. IsFiniteSet({}) /\ Cardinality({}) = 0 /\ {} \in SUBSET Nat
      BY FS_EmptySet
    <3>4. Pick(WhatIsTold(e), {}) \in Seq(ToTell) /\ Len(Pick(WhatIsTold(e), {})) = 0
      BY <3>3, PickIs
    <3> QED
      BY <1>2, <3>2, <3>4
  <2> QED
    BY <1>2, <2>1, <2>2 DEF ByTasks
<1> QED
  BY <1>4, <1>5, <1>6, <1>7, <1>8 DEF EventsOK, TellOK, e

LEMMA EventsStepOK ==
  ASSUME EventsOK(events), EventsNext, EventsAssumption, "removal_while_dispatched" \in EventsAvoided
  PROVE  EventsOK(events')
<1> DEFINE e == events
<1>1. e \in EventsState
  BY DEF EventsOK, QueueOK
<1>2. CASE \E h \in Handlers : addListener(h)
  BY <1>2, ListenOK DEF addListener
<1>3. CASE \E h \in Handlers : removeListener(h)
  BY <1>3, UnlistenOK DEF removeListener
<1>4. CASE dispatchEvent
  <2>1. e.dispatch = NoDispatch /\ events' = Dispatched(e)
    <3>1. e.synch = Dispatching(e).synch
      BY <1>1, DispatchingIs
    <3> QED
      BY <1>4, <3>1 DEF dispatchEvent, Dispatched, Dispatching
  <2> QED
    BY <2>1, DispatchOK
<1>5. CASE NextListener
  <2>1. e.dispatch # NoDispatch /\ events' = NextTold(e)
    BY <1>5 DEF NextListener, NextTold
  <2> QED
    BY <2>1, NextListenerOK
<1>6. CASE \E u \in Users : touch(u)
  <2>1. PICK u \in Users : touch(u)
    BY <1>6
  <2> DEFINE f == [e EXCEPT !.users = @ \cup {u}, !.touchPhase = @ + 1, !.clean = FALSE,
                            !.inUse = (IF @ < 0 THEN 0 ELSE @) + 1]
  <2>2. u \notin e.users /\ events' = f
    BY <2>1 DEF touch
  <2>3. EventsOK(f)
    BY <2>2, TouchOK
  <2> HIDE DEF f
  <2> QED
    BY <2>2, <2>3
<1>7. CASE \E u \in Users : dismiss(u)
  BY <1>7, DismissOK DEF dismiss
<1>8. CASE addRepetitiveTask
  BY <1>8, AddRepetitiveOK DEF addRepetitiveTask
<1>9. CASE \E r \in DOMAIN events.repeats : stopRepetitiveTask(r)
  BY <1>9, StopRepetitiveOK DEF stopRepetitiveTask
<1>10. CASE \E now \in {events.now, events.now + 1} : now <= MaxNow /\ Turn(now)
  <2>1. PICK now \in {events.now, events.now + 1} : Turn(now)
    BY <1>10
  <2>2. now \in Nat /\ now >= e.now
    BY <1>1 DEF EventsState
  <2>3. events' = TurnOf(e, now)
    BY <2>1 DEF Turn, TurnOf
  <2> QED
    BY <2>2, <2>3, TurnOK
<1>11. CASE executeTask
  <2>1. e.queue # <<>>
    BY <1>11 DEF executeTask, IsDue
  <2>2. CASE Head(e.queue).what \in Telling /\ events' = dispatchToOneListenerExecution(TakenFrom(e), Head(e.queue))
    BY <2>1, <2>2, TellingOK
  <2>3. CASE Head(e.queue).what = "verify" /\ events' = verifyTouches(TakenFrom(e), Head(e.queue))
    BY <2>1, <2>3, VerifyOK
  <2>4. CASE /\ Head(e.queue).what = "repeat"
             /\ events' = IF IsLive(TakenFrom(e), Head(e.queue))
                          THEN [TakenFrom(e) EXCEPT !.repeated = Append(@, Head(e.queue))] ELSE TakenFrom(e)
    BY <2>1, <2>4, RepeatingOK
  <2> QED
    BY <1>11, <2>2, <2>3, <2>4 DEF executeTask, TakenFrom, Telling
<1>12. CASE EndOfTurn
  <2>1. events' = TurnEnded(e)
    BY <1>12 DEF EndOfTurn, TurnEnded, AgainAt
  <2> QED
    BY <2>1, EndOfTurnOK
<1>13. ASSUME NEW h \in Handlers, addListener(h) \/ removeListener(h)
       PROVE  EventsOK(events')
  BY <1>2, <1>3, <1>13
<1>14. ASSUME NEW u \in Users, touch(u) \/ dismiss(u)
       PROVE  EventsOK(events')
  BY <1>6, <1>7, <1>14
<1> QED
  BY <1>4, <1>5, <1>8, <1>13, <1>14, <1>9, <1>10, <1>11, <1>12 DEF EventsNext

LEMMA EventsHold ==
  ASSUME EventsOK(events)
  PROVE  EventsReachListeners /\ DismissedInTime /\ RepeatedOnce /\ RunsInOrder
<1> DEFINE e == events
<1>1. e \in EventsState /\ QueueOK(e) /\ RepeatOK(e) /\ UseOK(e) /\ TellOK(e)
  BY DEF EventsOK, QueueOK
<1>2. e.queue \in Seq(EventTask) /\ Len(e.queue) \in Nat /\ DOMAIN e.queue = 1..Len(e.queue)
  BY <1>1 DEF EventsState
<1>3. EventsReachListeners
  BY <1>1 DEF EventsReachListeners, TellOK, AtOnce, ByTasks
<1>4. DismissedInTime
  BY <1>1 DEF DismissedInTime, UseOK, Queued
<1>5. RepeatedOnce
  <2> SUFFICES ASSUME NEW r \in DOMAIN e.repeats
               PROVE  IF e.repeats[r] = "live" THEN Times(r) = 1 ELSE Times(r) <= 1
    BY DEF RepeatedOnce
  <2> DEFINE A == {i \in DOMAIN e.queue : e.queue[i].what = "repeat" /\ e.queue[i].n = r}
             B == {i \in DOMAIN e.repeated : e.repeated[i].what = "repeat" /\ e.repeated[i].n = r}
  <2>1. Times(r) = Cardinality(A) + Cardinality(B)
    BY DEF Times
  <2>2. \A i, j \in A : i = j
    BY <1>1 DEF RepeatOK, QueueOK, Queued
  <2>3. \A i, j \in B : i = j
    BY <1>1 DEF RepeatOK
  <2>4. A = {} \/ B = {}
    BY <1>1 DEF RepeatOK, Queued
  <2>5. e.repeats[r] = "live" => A # {} \/ B # {}
    <3> SUFFICES ASSUME e.repeats[r] = "live"
                 PROVE  A # {} \/ B # {}
      OBVIOUS
    <3>1. CASE \E t \in Queued(e) : t.what = "repeat" /\ t.n = r
      BY <3>1 DEF Queued
    <3>2. CASE \E i \in DOMAIN e.repeated : e.repeated[i].n = r
      BY <1>1, <3>2 DEF RepeatOK
    <3> QED
      BY <1>1, <3>1, <3>2 DEF RepeatOK
  <2> HIDE DEF A, B
  <2>6. \A S : (\A i, j \in S : i = j) => IF S = {} THEN Cardinality(S) = 0 ELSE Cardinality(S) = 1
    <3> SUFFICES ASSUME NEW S, \A i, j \in S : i = j
                 PROVE  IF S = {} THEN Cardinality(S) = 0 ELSE Cardinality(S) = 1
      OBVIOUS
    <3>1. CASE S = {}
      BY <3>1, FS_EmptySet
    <3>2. CASE S # {}
      <4>1. PICK x \in S : TRUE
        BY <3>2
      <4>2. S = {x}
        BY <4>1
      <4> QED
        BY <3>2, <4>2, FS_Singleton
    <3> QED
      BY <3>1, <3>2
  <2>7. IF A = {} THEN Cardinality(A) = 0 ELSE Cardinality(A) = 1
    BY <2>2, <2>6
  <2>8. IF B = {} THEN Cardinality(B) = 0 ELSE Cardinality(B) = 1
    BY <2>3, <2>6
  <2> QED
    BY <2>1, <2>4, <2>5, <2>7, <2>8
<1>6. RunsInOrder
  <2> SUFFICES ASSUME e.looping, IsDue, NEW i \in DOMAIN e.queue
               PROVE  ~sortFun(e.queue[i], Head(e.queue))
    BY DEF RunsInOrder
  <2>1. 1 \in DOMAIN e.queue /\ Head(e.queue) = e.queue[1] /\ e.queue[1].time <= e.now /\ (i = 1 \/ 1 < i)
    BY <1>2 DEF IsDue
  <2>2. e.queue[1] \in EventTask /\ e.queue[i] \in EventTask
    BY <1>2, <2>1
  <2>3. CASE i = 1
    BY <2>1, <2>2, <2>3, TasksAreOrdered
  <2>4. CASE 1 < i
    <3>1. sortFun(e.queue[1], e.queue[i])
      BY <1>1, <2>1, <2>4 DEF QueueOK
    <3> QED
      BY <2>1, <2>2, <3>1, TasksAreOrdered
  <2> QED
    BY <2>1, <2>3, <2>4
<1> QED
  BY <1>3, <1>4, <1>5, <1>6

-----------------------------------------------------------------------------
(* How many times an element is at some positions.                            *)
LEMMA CountIs ==
  ASSUME NEW s, NEW P, IsFiniteSet(P), NEW h
  PROVE  /\ CountOf(s, P, h) \in Nat
         /\ P = {} => CountOf(s, P, h) = 0
<1>1. IsFiniteSet({j \in P : s[j] = h})
  BY FS_Subset
<1>2. P = {} => {j \in P : s[j] = h} = {}
  OBVIOUS
<1> QED
  BY <1>1, <1>2, FS_CardinalityType, FS_EmptySet DEF CountOf

LEMMA CountLess ==
  ASSUME NEW s, NEW P, IsFiniteSet(P), NEW i \in P, NEW h
  PROVE  CountOf(s, P, h) = CountOf(s, P \ {i}, h) + IF s[i] = h THEN 1 ELSE 0
<1> DEFINE A == {j \in P : s[j] = h}
           B == {j \in P \ {i} : s[j] = h}
<1>1. IsFiniteSet(A)
  BY FS_Subset
<1>2. Cardinality(A) \in Nat
  BY <1>1, FS_CardinalityType
<1>3. CASE s[i] = h
  <2>1. B = A \ {i} /\ i \in A
    BY <1>3
  <2>2. Cardinality(B) = Cardinality(A) - 1
    BY <1>1, <2>1, FS_RemoveElement
  <2> QED
    BY <1>2, <1>3, <2>2 DEF CountOf
<1>4. CASE s[i] # h
  <2>1. B = A
    BY <1>4
  <2> QED
    BY <1>2, <1>4, <2>1 DEF CountOf
<1> QED
  BY <1>3, <1>4

LEMMA CountAlong ==
  ASSUME NEW P, IsFiniteSet(P), NEW Q, NEW g \in Bijection(P, Q), NEW s, NEW t, \A i \in P : t[g[i]] = s[i], NEW h
  PROVE  CountOf(t, Q, h) = CountOf(s, P, h)
<1> DEFINE A == {j \in P : s[j] = h}
           B == {j \in Q : t[j] = h}
           f == [i \in A |-> g[i]]
<1>1. /\ g \in [P -> Q] /\ (\A i, j \in P : g[i] = g[j] => i = j) /\ \A r \in Q : \E i \in P : g[i] = r
  BY DEF Bijection, Injection, Surjection, IsInjective
<1>2. f \in [A -> B]
  BY <1>1
<1>3. \A i, j \in A : f[i] = f[j] => i = j
  BY <1>1
<1>4. \A r \in B : \E i \in A : f[i] = r
  <2> SUFFICES ASSUME NEW r \in B
               PROVE  \E i \in A : f[i] = r
    OBVIOUS
  <2>1. PICK i \in P : g[i] = r
    BY <1>1
  <2>2. i \in A
    BY <2>1
  <2> QED
    BY <2>1, <2>2
<1>5. f \in Bijection(A, B)
  BY <1>2, <1>3, <1>4 DEF Bijection, Injection, Surjection, IsInjective
<1>6. IsFiniteSet(A)
  BY FS_Subset
<1>7. Cardinality(B) = Cardinality(A)
  BY <1>5, <1>6, FS_Bijection DEF ExistsBijection
<1> QED
  BY <1>7 DEF CountOf

LEMMA CountOfMore ==
  ASSUME NEW T, NEW s \in Seq(T), NEW x \in T, NEW h
  PROVE  CountOf(Append(s, x), DOMAIN Append(s, x), h) = CountOf(s, DOMAIN s, h) + IF x = h THEN 1 ELSE 0
<1> DEFINE n == Len(s)
           t == Append(s, x)
           P == 1..n + 1
<1>1. n \in Nat /\ DOMAIN s = 1..n /\ DOMAIN t = P /\ t[n + 1] = x /\ \A i \in 1..n : t[i] = s[i]
  OBVIOUS
<1>2. n + 1 \in P /\ P \ {n + 1} = 1..n /\ IsFiniteSet(P)
  <2>1. n + 1 \in Nat
    BY <1>1
  <2>2. IsFiniteSet(P)
    BY <2>1, CountTo
  <2> QED
    BY <1>1, <2>2
<1> HIDE DEF t, n, P
<1>3. CountOf(t, P, h) = CountOf(t, P \ {n + 1}, h) + IF t[n + 1] = h THEN 1 ELSE 0
  <2>1. IsFiniteSet(P) /\ n + 1 \in P
    BY <1>2
  <2> QED
    BY ONLY <2>1, CountLess
<1>4. CountOf(t, 1..n, h) = CountOf(s, 1..n, h)
  <2>1. {j \in 1..n : t[j] = h} = {j \in 1..n : s[j] = h}
    BY <1>1
  <2> QED
    BY <2>1 DEF CountOf
<1> QED
  BY <1>1, <1>2, <1>3, <1>4 DEF t

LEMMA CountOfPicked ==
  ASSUME NEW T, NEW s \in Seq(T), NEW i \in DOMAIN s, NEW h
  PROVE  LET t == Pick(s, DOMAIN s \ {i})
         IN /\ t \in Seq(T)
            /\ CountOf(s, DOMAIN s, h) = CountOf(t, DOMAIN t, h) + IF s[i] = h THEN 1 ELSE 0
<1> DEFINE P == DOMAIN s \ {i}
           t == Pick(s, P)
           n == Cardinality(P)
<1>1. Len(s) \in Nat /\ DOMAIN s = 1..Len(s) /\ IsFiniteSet(DOMAIN s) /\ \A j \in DOMAIN s : s[j] \in T
  BY CountTo
<1>2. P \in SUBSET Nat /\ IsFiniteSet(P) /\ \A j \in P : s[j] \in T
  BY <1>1, FS_Subset
<1>3. CountOf(s, DOMAIN s, h) = CountOf(s, P, h) + IF s[i] = h THEN 1 ELSE 0
  BY <1>1, CountLess
<1> HIDE DEF P
<1>4. t \in Seq(T) /\ Len(t) = n /\ \A r \in 1..n : t[r] = s[Nth(P, r)]
  BY <1>2, PickIs
<1>5. /\ n \in Nat
      /\ \A r \in 1..n : Nth(P, r) \in P /\ PlaceIn(P, Nth(P, r)) = r
      /\ \A j \in P : PlaceIn(P, j) \in 1..n /\ Nth(P, PlaceIn(P, j)) = j
  BY <1>2, NthIs
<1> HIDE DEF t, n
<1>6. DOMAIN t = 1..n
  BY <1>4
<1> DEFINE g == [j \in P |-> PlaceIn(P, j)]
<1>7. g \in Bijection(P, 1..n)
  <2>1. g \in [P -> 1..n]
    BY <1>5
  <2>2. \A j, k \in P : g[j] = g[k] => j = k
    <3> SUFFICES ASSUME NEW j \in P, NEW k \in P, PlaceIn(P, j) = PlaceIn(P, k)
                 PROVE  j = k
      OBVIOUS
    <3>1. Nth(P, PlaceIn(P, j)) = j /\ Nth(P, PlaceIn(P, k)) = k
      BY <1>5
    <3> QED
      BY <3>1
  <2>3. \A r \in 1..n : \E j \in P : g[j] = r
    BY <1>5
  <2> QED
    BY <2>1, <2>2, <2>3 DEF Bijection, Injection, Surjection, IsInjective
<1>8. \A j \in P : t[g[j]] = s[j]
  BY <1>4, <1>5
<1> HIDE DEF g
<1>9. CountOf(t, 1..n, h) = CountOf(s, P, h)
  <2>1. IsFiniteSet(P)
    BY <1>2
  <2> QED
    BY ONLY <2>1, <1>7, <1>8, CountAlong
<1> QED
  BY <1>3, <1>4, <1>6, <1>9 DEF t, P

LEMMA CountOfTail ==
  ASSUME NEW T, NEW s \in Seq(T), s # <<>>, NEW h
  PROVE  CountOf(s, DOMAIN s, h) = CountOf(Tail(s), DOMAIN Tail(s), h) + IF Head(s) = h THEN 1 ELSE 0
<1> DEFINE n == Len(s)
           P == DOMAIN s \ {1}
           t == Tail(s)
           g == [j \in P |-> j - 1]
<1>1. n \in Nat /\ n >= 1 /\ DOMAIN s = 1..n /\ DOMAIN t = 1..(n - 1) /\ Head(s) = s[1] /\ \A i \in 1..(n - 1) : t[i] = s[i + 1]
  OBVIOUS
<1>2. IsFiniteSet(DOMAIN s) /\ 1 \in DOMAIN s
  BY <1>1, CountTo
<1>3. IsFiniteSet(P)
  BY <1>2, FS_Subset
<1>4. CountOf(s, DOMAIN s, h) = CountOf(s, P, h) + IF s[1] = h THEN 1 ELSE 0
  BY <1>2, CountLess
<1> HIDE DEF t, n
<1>5. \A j \in P : j - 1 \in 1..(n - 1) /\ (j - 1) + 1 = j /\ j \in Int
  BY <1>1
<1>6. \A r \in 1..(n - 1) : r + 1 \in P /\ (r + 1) - 1 = r
  BY <1>1
<1> HIDE DEF P
<1>7. g \in Bijection(P, 1..(n - 1))
  <2>1. g \in [P -> 1..(n - 1)]
    BY <1>5
  <2>2. \A j, k \in P : g[j] = g[k] => j = k
    BY <1>5
  <2>3. \A r \in 1..(n - 1) : \E j \in P : g[j] = r
    BY <1>6
  <2> QED
    BY <2>1, <2>2, <2>3 DEF Bijection, Injection, Surjection, IsInjective
<1>8. \A j \in P : t[g[j]] = s[j]
  <2> SUFFICES ASSUME NEW j \in P
               PROVE  t[j - 1] = s[j]
    OBVIOUS
  <2>1. t[j - 1] = s[(j - 1) + 1]
    BY <1>1, <1>5
  <2> QED
    BY <1>5, <2>1
<1> HIDE DEF g
<1>9. CountOf(t, 1..(n - 1), h) = CountOf(s, P, h)
  BY <1>3, <1>7, <1>8, CountAlong
<1> QED
  BY <1>1, <1>4, <1>9 DEF t
-----------------------------------------------------------------------------
LifeState ==
    [list : Seq(PageHandlers), i : Nat, inProgress : BOOLEAN, done : BOOLEAN, later : Seq(PageHandlers),
     owed : [PageHandlers -> Int], added : Nat, fired : Nat]

(* The handlers of the list that the event, or what is left of it, will run,  *)
(* and those that run on their own.                                           *)
ToRun(k, e) == {j \in DOMAIN e.list : e.i <= j /\ (k = PreUnload => e.i > 0)}
LifeOK(k, e) ==
    /\ e \in LifeState
    /\ e.inProgress <=> e.i > 0
    /\ k = PreUnload => ~e.done
    /\ e.done => e.list = <<>> /\ e.i = 0
    /\ \A h \in PageHandlers : e.owed[h] = CountOf(e.list, ToRun(k, e), h) + CountOf(e.later, DOMAIN e.later, h)
PageOK(p) == p \in [PageEvents -> LifeState] /\ \A k \in PageEvents : LifeOK(k, p[k])

LEMMA LifeIs ==
  ASSUME NEW e \in LifeState, NEW k
  PROVE  /\ e.list \in Seq(PageHandlers) /\ e.later \in Seq(PageHandlers) /\ e.owed \in [PageHandlers -> Int]
         /\ e.i \in Nat /\ e.added \in Nat /\ e.fired \in Nat /\ e.inProgress \in BOOLEAN /\ e.done \in BOOLEAN
         /\ Len(e.list) \in Nat /\ DOMAIN e.list = 1..Len(e.list) /\ IsFiniteSet(DOMAIN e.list) /\ IsFiniteSet(DOMAIN e.later)
         /\ IsFiniteSet(ToRun(k, e)) /\ ToRun(k, e) \subseteq DOMAIN e.list
<1>1. /\ e.list \in Seq(PageHandlers) /\ e.later \in Seq(PageHandlers) /\ e.owed \in [PageHandlers -> Int]
      /\ e.i \in Nat /\ e.added \in Nat /\ e.fired \in Nat /\ e.inProgress \in BOOLEAN /\ e.done \in BOOLEAN
  BY DEF LifeState
<1>2. /\ Len(e.list) \in Nat /\ DOMAIN e.list = 1..Len(e.list) /\ Len(e.later) \in Nat /\ DOMAIN e.later = 1..Len(e.later)
  BY <1>1
<1>3. IsFiniteSet(DOMAIN e.list) /\ IsFiniteSet(DOMAIN e.later)
  BY <1>2, CountTo
<1>4. ToRun(k, e) \subseteq DOMAIN e.list
  BY DEF ToRun
<1>5. IsFiniteSet(ToRun(k, e))
  BY <1>3, <1>4, FS_Subset
<1> QED
  BY <1>1, <1>2, <1>3, <1>4, <1>5

(* addHandler                                                                 *)
Handled(k, e, h) ==
    LET pre == ~e.inProgress /\ ~e.done
        added == IF k = PreUnload \/ pre THEN [e EXCEPT !.list = Append(@, h)] ELSE e
        late == IF k = PreUnload THEN e.inProgress ELSE ~pre
    IN [added EXCEPT !.added = @ + 1, !.later = IF late THEN Append(@, h) ELSE @,
                     !.owed[h] = IF k = PreUnload /\ ~late THEN @ ELSE @ + 1]
LEMMA HandledOK ==
  ASSUME NEW k, NEW e, LifeOK(k, e), NEW h \in PageHandlers, k = PreUnload => ~(e.i > 0)
  PROVE  LifeOK(k, Handled(k, e, h))
<1> DEFINE f == Handled(k, e, h)
           pre == ~e.inProgress /\ ~e.done
           owed == [e.owed EXCEPT ![h] = @ + 1]
           list == Append(e.list, h)
           later == Append(e.later, h)
           added == e.added + 1
<1>1. e \in LifeState
  BY DEF LifeOK
<1>2. /\ e.list \in Seq(PageHandlers) /\ e.later \in Seq(PageHandlers) /\ e.owed \in [PageHandlers -> Int]
      /\ e.i \in Nat /\ e.added \in Nat /\ e.inProgress \in BOOLEAN /\ e.done \in BOOLEAN
      /\ Len(e.list) \in Nat /\ DOMAIN e.list = 1..Len(e.list) /\ IsFiniteSet(DOMAIN e.list) /\ IsFiniteSet(DOMAIN e.later)
      /\ IsFiniteSet(ToRun(k, e)) /\ ToRun(k, e) \subseteq DOMAIN e.list
  BY ONLY <1>1, LifeIs
<1>3. /\ owed \in [PageHandlers -> Int] /\ added \in Nat /\ list \in Seq(PageHandlers) /\ later \in Seq(PageHandlers)
      /\ \A x \in PageHandlers : owed[x] = e.owed[x] + IF h = x THEN 1 ELSE 0
      /\ DOMAIN list = 1..Len(e.list) + 1
  BY <1>2
<1>4. \A x : /\ CountOf(list, DOMAIN list, x) = CountOf(e.list, DOMAIN e.list, x) + IF h = x THEN 1 ELSE 0
             /\ CountOf(later, DOMAIN later, x) = CountOf(e.later, DOMAIN e.later, x) + IF h = x THEN 1 ELSE 0
             /\ CountOf(e.list, DOMAIN e.list, x) \in Nat /\ CountOf(e.later, DOMAIN e.later, x) \in Nat
             /\ CountOf(e.list, ToRun(k, e), x) \in Nat
  BY <1>2, CountOfMore, CountIs
<1> HIDE DEF owed, added, list, later
<1>5. CASE k = PreUnload
  <2> DEFINE g == [e EXCEPT !.list = list, !.added = added]
  <2>1. e.i = 0 /\ ~e.inProgress
    BY <1>2, <1>5 DEF LifeOK
  <2>2. f = g
    <3>1. e.owed = [e.owed EXCEPT ![h] = @]
      BY <1>2
    <3> QED
      BY <1>1, <1>5, <2>1, <3>1 DEF Handled, LifeState, list, added
  <2>3. g \in LifeState
    BY <1>1, <1>3 DEF LifeState
  <2>4. /\ g.list = list /\ g.i = e.i /\ g.inProgress = e.inProgress /\ g.done = e.done /\ g.later = e.later /\ g.owed = e.owed
    BY <1>1 DEF LifeState
  <2> HIDE DEF g
  <2>5. ToRun(k, g) = {} /\ ToRun(k, e) = {}
    BY <1>5, <2>1, <2>4 DEF ToRun
  <2>6. \A x : CountOf(g.list, {}, x) = 0 /\ CountOf(e.list, {}, x) = 0
    BY CountIs, FS_EmptySet
  <2>7. \A x \in PageHandlers : g.owed[x] = CountOf(g.list, ToRun(k, g), x) + CountOf(g.later, DOMAIN g.later, x)
    BY <2>4, <2>5, <2>6 DEF LifeOK
  <2>8. LifeOK(k, g)
    BY <1>5, <2>1, <2>3, <2>4, <2>7 DEF LifeOK
  <2> QED
    BY <2>2, <2>8
<1>6. CASE k # PreUnload /\ pre
  <2> DEFINE g == [e EXCEPT !.list = list, !.added = added, !.owed = owed]
  <2>1. e.i = 0 /\ ~e.done
    BY <1>2, <1>6 DEF LifeOK
  <2>2. f = g
    BY <1>1, <1>6 DEF Handled, LifeState, list, added, owed
  <2>3. g \in LifeState
    BY <1>1, <1>3 DEF LifeState
  <2>4. /\ g.list = list /\ g.i = e.i /\ g.inProgress = e.inProgress /\ g.done = e.done /\ g.later = e.later /\ g.owed = owed
    BY <1>1 DEF LifeState
  <2> HIDE DEF g, pre
  <2>5. ToRun(k, g) = DOMAIN list /\ ToRun(k, e) = DOMAIN e.list
    BY <1>2, <1>3, <1>6, <2>1, <2>4 DEF ToRun
  <2>6. ASSUME NEW x \in PageHandlers
        PROVE  g.owed[x] = CountOf(g.list, ToRun(k, g), x) + CountOf(g.later, DOMAIN g.later, x)
    <3>1. e.owed[x] = CountOf(e.list, DOMAIN e.list, x) + CountOf(e.later, DOMAIN e.later, x)
      BY <2>5 DEF LifeOK
    <3>2. g.owed[x] = e.owed[x] + IF h = x THEN 1 ELSE 0
      BY <1>3, <2>4
    <3>3. /\ CountOf(g.list, ToRun(k, g), x) = CountOf(e.list, DOMAIN e.list, x) + IF h = x THEN 1 ELSE 0
          /\ CountOf(e.list, DOMAIN e.list, x) \in Nat /\ CountOf(e.later, DOMAIN e.later, x) \in Nat
      BY <1>4, <2>4, <2>5
    <3>4. CountOf(g.later, DOMAIN g.later, x) = CountOf(e.later, DOMAIN e.later, x)
      BY <2>4
    <3> QED
      BY ONLY <3>1, <3>2, <3>3, <3>4
  <2>7. LifeOK(k, g)
    BY <1>6, <2>1, <2>3, <2>4, <2>6 DEF LifeOK
  <2> QED
    BY <2>2, <2>7
<1>7. CASE k # PreUnload /\ ~pre
  <2> DEFINE g == [e EXCEPT !.later = later, !.added = added, !.owed = owed]
  <2>1. f = g
    BY <1>1, <1>7 DEF Handled, LifeState, later, added, owed
  <2>2. g \in LifeState
    BY <1>1, <1>3 DEF LifeState
  <2>3. /\ g.list = e.list /\ g.i = e.i /\ g.inProgress = e.inProgress /\ g.done = e.done /\ g.later = later /\ g.owed = owed
    BY <1>1 DEF LifeState
  <2> HIDE DEF g, pre
  <2>4. ToRun(k, g) = ToRun(k, e)
    BY <2>3 DEF ToRun
  <2>5. ASSUME NEW x \in PageHandlers
        PROVE  g.owed[x] = CountOf(g.list, ToRun(k, g), x) + CountOf(g.later, DOMAIN g.later, x)
    <3>1. e.owed[x] = CountOf(e.list, ToRun(k, e), x) + CountOf(e.later, DOMAIN e.later, x)
      BY DEF LifeOK
    <3>2. g.owed[x] = e.owed[x] + IF h = x THEN 1 ELSE 0
      BY <1>3, <2>3
    <3>3. /\ CountOf(g.later, DOMAIN g.later, x) = CountOf(e.later, DOMAIN e.later, x) + IF h = x THEN 1 ELSE 0
          /\ CountOf(e.list, ToRun(k, e), x) \in Nat /\ CountOf(e.later, DOMAIN e.later, x) \in Nat
      BY <1>4, <2>3
    <3>4. CountOf(g.list, ToRun(k, g), x) = CountOf(e.list, ToRun(k, e), x)
      BY <2>3, <2>4
    <3> QED
      BY ONLY <3>1, <3>2, <3>3, <3>4
  <2>6. LifeOK(k, g)
    BY <1>7, <2>2, <2>3, <2>5 DEF LifeOK
  <2> QED
    BY <2>1, <2>6
<1> QED
  BY <1>5, <1>6, <1>7

(* removeHandler                                                              *)
Unhandled(k, e, h) ==
    [e EXCEPT !.list = Pick(@, DOMAIN @ \ {Nth({i \in DOMAIN e.list : e.list[i] = h}, 1)}),
              !.owed[h] = IF k = PreUnload \/ e.done THEN @ ELSE @ - 1]
LEMMA UnhandledOK ==
  ASSUME NEW k, NEW e, LifeOK(k, e), NEW h \in PageHandlers, ~(e.i > 0), {i \in DOMAIN e.list : e.list[i] = h} # {}
  PROVE  LifeOK(k, Unhandled(k, e, h))
<1> DEFINE places == {i \in DOMAIN e.list : e.list[i] = h}
           i == Nth(places, 1)
           list == Pick(e.list, DOMAIN e.list \ {i})
           owed == [e.owed EXCEPT ![h] = IF k = PreUnload THEN @ ELSE @ - 1]
           f == Unhandled(k, e, h)
           g == [e EXCEPT !.list = list, !.owed = owed]
<1>1. e \in LifeState
  BY DEF LifeOK
<1>2. /\ e.list \in Seq(PageHandlers) /\ e.later \in Seq(PageHandlers) /\ e.owed \in [PageHandlers -> Int]
      /\ e.i \in Nat /\ e.done \in BOOLEAN
      /\ Len(e.list) \in Nat /\ DOMAIN e.list = 1..Len(e.list) /\ IsFiniteSet(DOMAIN e.list) /\ IsFiniteSet(DOMAIN e.later)
  BY ONLY <1>1, LifeIs
<1>3. i \in DOMAIN e.list /\ e.list[i] = h
  <2>1. places \in SUBSET Nat /\ IsFiniteSet(places) /\ places # {}
    BY <1>2, FS_Subset
  <2>2. i \in places
    BY ONLY <2>1, NthFirst DEF i
  <2> QED
    BY <2>2
<1>4. ~e.done /\ e.i = 0
  <2>1. e.list # <<>>
    BY <1>2, <1>3
  <2> QED
    BY <1>2, <2>1 DEF LifeOK
<1> HIDE DEF i
<1>5. /\ list \in Seq(PageHandlers)
      /\ \A x : CountOf(e.list, DOMAIN e.list, x) = CountOf(list, DOMAIN list, x) + IF h = x THEN 1 ELSE 0
  <2>1. e.list \in Seq(PageHandlers) /\ i \in DOMAIN e.list
    BY <1>2, <1>3
  <2>2. ASSUME NEW x
        PROVE  /\ list \in Seq(PageHandlers)
               /\ CountOf(e.list, DOMAIN e.list, x) = CountOf(list, DOMAIN list, x) + IF e.list[i] = x THEN 1 ELSE 0
    <3>1. /\ Pick(e.list, DOMAIN e.list \ {i}) \in Seq(PageHandlers)
          /\ CountOf(e.list, DOMAIN e.list, x)
               = CountOf(Pick(e.list, DOMAIN e.list \ {i}), DOMAIN Pick(e.list, DOMAIN e.list \ {i}), x) + IF e.list[i] = x THEN 1 ELSE 0
      <4>1. ASSUME NEW s \in Seq(PageHandlers), NEW j \in DOMAIN s
            PROVE  /\ Pick(s, DOMAIN s \ {j}) \in Seq(PageHandlers)
                   /\ CountOf(s, DOMAIN s, x)
                        = CountOf(Pick(s, DOMAIN s \ {j}), DOMAIN Pick(s, DOMAIN s \ {j}), x) + IF s[j] = x THEN 1 ELSE 0
        BY ONLY <4>1, CountOfPicked
      <4> QED
        BY ONLY <2>1, <4>1
    <3> QED
      BY ONLY <3>1 DEF list
  <2> HIDE DEF list
  <2>3. list \in Seq(PageHandlers)
    BY <2>2
  <2>4. ASSUME NEW x
        PROVE  CountOf(e.list, DOMAIN e.list, x) = CountOf(list, DOMAIN list, x) + IF h = x THEN 1 ELSE 0
    BY ONLY <1>3, <2>2
  <2>5. \A x : CountOf(e.list, DOMAIN e.list, x) = CountOf(list, DOMAIN list, x) + IF h = x THEN 1 ELSE 0
    BY ONLY <2>4
  <2> QED
    BY ONLY <2>3, <2>5
<1>6. owed \in [PageHandlers -> Int]
      /\ \A x \in PageHandlers : owed[x] = IF k = PreUnload THEN e.owed[x] ELSE e.owed[x] - IF h = x THEN 1 ELSE 0
  BY <1>2
<1>7. f = g
  BY <1>1, <1>4 DEF Unhandled, LifeState, i
<1> HIDE DEF list, owed, f
<1>8. g \in LifeState
  BY <1>1, <1>5, <1>6 DEF LifeState
<1>9. g.list = list /\ g.i = e.i /\ g.inProgress = e.inProgress /\ g.done = e.done /\ g.later = e.later /\ g.owed = owed
  BY <1>1 DEF LifeState
<1> HIDE DEF g
<1>10. Len(list) \in Nat /\ DOMAIN list = 1..Len(list) /\ IsFiniteSet(DOMAIN list)
  BY <1>8, <1>9, LifeIs
<1>11. \A x : CountOf(e.list, DOMAIN e.list, x) \in Nat /\ CountOf(list, DOMAIN list, x) \in Nat /\ CountOf(e.later, DOMAIN e.later, x) \in Nat
  BY <1>2, <1>10, CountIs
<1>12. ASSUME NEW x \in PageHandlers
       PROVE  g.owed[x] = CountOf(g.list, ToRun(k, g), x) + CountOf(g.later, DOMAIN g.later, x)
  <2>1. CASE k = PreUnload
    <3>1. ToRun(k, e) = {} /\ ToRun(k, g) = {}
      BY <1>4, <1>9, <2>1 DEF ToRun
    <3>2. CountOf(e.list, {}, x) = 0 /\ CountOf(g.list, {}, x) = 0
      BY CountIs, FS_EmptySet
    <3> QED
      BY <1>6, <1>9, <2>1, <3>1, <3>2 DEF LifeOK
  <2>2. CASE k # PreUnload
    <3>1. ToRun(k, e) = DOMAIN e.list /\ ToRun(k, g) = DOMAIN list
      BY <1>2, <1>4, <1>9, <1>10, <2>2 DEF ToRun
    <3>2. e.owed[x] = CountOf(e.list, DOMAIN e.list, x) + CountOf(e.later, DOMAIN e.later, x)
      BY <3>1 DEF LifeOK
    <3>3. g.owed[x] = e.owed[x] - IF h = x THEN 1 ELSE 0
      BY <1>6, <1>9, <2>2
    <3>4. /\ CountOf(e.list, DOMAIN e.list, x) = CountOf(g.list, ToRun(k, g), x) + IF h = x THEN 1 ELSE 0
          /\ CountOf(g.list, ToRun(k, g), x) \in Nat /\ CountOf(e.later, DOMAIN e.later, x) \in Nat
      BY <1>5, <1>9, <1>11, <3>1
    <3>5. CountOf(g.later, DOMAIN g.later, x) = CountOf(e.later, DOMAIN e.later, x)
      BY <1>9
    <3> QED
      BY ONLY <3>2, <3>3, <3>4, <3>5
  <2> QED
    BY <2>1, <2>2
<1>13. LifeOK(k, g)
  BY <1>4, <1>8, <1>9, <1>12 DEF LifeOK
<1> QED
  BY <1>7, <1>13 DEF f

(* getEventClosure: the event is told.                                        *)
Fired(k, e) ==
    [e EXCEPT !.fired = @ + 1, !.inProgress = IF e.done THEN @ ELSE TRUE, !.i = IF e.done THEN 0 ELSE 1,
              !.owed = IF k # PreUnload THEN @ ELSE [h \in PageHandlers |-> @[h] + CountOf(e.list, DOMAIN e.list, h)]]
LEMMA FiredOK ==
  ASSUME NEW k, NEW e, LifeOK(k, e), ~(e.i > 0)
  PROVE  LifeOK(k, Fired(k, e))
<1> DEFINE progress == IF e.done THEN e.inProgress ELSE TRUE
           i == IF e.done THEN 0 ELSE 1
           owed == IF k # PreUnload THEN e.owed ELSE [h \in PageHandlers |-> e.owed[h] + CountOf(e.list, DOMAIN e.list, h)]
           fired == e.fired + 1
           g == [e EXCEPT !.fired = fired, !.inProgress = progress, !.i = i, !.owed = owed]
<1>1. e \in LifeState
  BY DEF LifeOK
<1>2. /\ e.list \in Seq(PageHandlers) /\ e.later \in Seq(PageHandlers) /\ e.owed \in [PageHandlers -> Int]
      /\ e.i \in Nat /\ e.fired \in Nat /\ e.inProgress \in BOOLEAN /\ e.done \in BOOLEAN
      /\ Len(e.list) \in Nat /\ DOMAIN e.list = 1..Len(e.list) /\ IsFiniteSet(DOMAIN e.list) /\ IsFiniteSet(DOMAIN e.later)
  BY ONLY <1>1, LifeIs
<1>3. e.i = 0 /\ ~e.inProgress
  BY <1>2 DEF LifeOK
<1>4. \A x : CountOf(e.list, DOMAIN e.list, x) \in Nat /\ CountOf(e.later, DOMAIN e.later, x) \in Nat /\ CountOf(e.list, {}, x) = 0
  BY <1>2, CountIs, FS_EmptySet
<1>5. owed \in [PageHandlers -> Int]
      /\ \A x \in PageHandlers : owed[x] = IF k # PreUnload THEN e.owed[x] ELSE e.owed[x] + CountOf(e.list, DOMAIN e.list, x)
  <2>1. \A x \in PageHandlers : e.owed[x] + CountOf(e.list, DOMAIN e.list, x) \in Int
    BY <1>2, <1>4
  <2> QED
    BY <1>2, <2>1
<1>6. Fired(k, e) = g
  BY <1>1 DEF Fired, LifeState
<1>7. /\ i \in Nat /\ progress \in BOOLEAN /\ fired \in Nat /\ (progress <=> i > 0) /\ ((i = 1 /\ ~e.done) \/ (i = 0 /\ e.done))
  <2>1. CASE e.done
    <3>1. progress = e.inProgress /\ i = 0 /\ ~(0 > 0)
      BY <2>1
    <3>2. fired \in Nat /\ progress \in BOOLEAN /\ ~progress
      <4>1. fired \in Nat
        BY <1>2
      <4> HIDE DEF fired, progress, i
      <4> QED
        BY <1>2, <1>3, <3>1, <4>1
    <3> HIDE DEF fired, progress, i
    <3> QED
      BY <2>1, <3>1, <3>2
  <2>2. CASE ~e.done
    <3>1. progress = TRUE /\ i = 1 /\ 1 > 0
      BY <2>2
    <3>2. fired \in Nat
      BY <1>2
    <3> HIDE DEF fired, progress, i
    <3> QED
      BY <2>2, <3>1, <3>2
  <2> QED
    BY ONLY <2>1, <2>2
<1> HIDE DEF owed, fired, progress, i
<1>8. g \in LifeState
  BY <1>1, <1>5, <1>7 DEF LifeState
<1>9. g.list = e.list /\ g.i = i /\ g.inProgress = progress /\ g.done = e.done /\ g.later = e.later /\ g.owed = owed
  BY <1>1 DEF LifeState
<1> HIDE DEF g
<1>10. ASSUME NEW x \in PageHandlers
       PROVE  g.owed[x] = CountOf(g.list, ToRun(k, g), x) + CountOf(g.later, DOMAIN g.later, x)
  <2>1. e.owed[x] = CountOf(e.list, ToRun(k, e), x) + CountOf(e.later, DOMAIN e.later, x)
    BY DEF LifeOK
  <2>2. CASE k = PreUnload
    <3>1. i = 1
      BY <1>7, <2>2 DEF LifeOK
    <3>2. ToRun(k, e) = {} /\ ToRun(k, g) = DOMAIN e.list
      BY <1>2, <1>3, <1>9, <2>2, <3>1 DEF ToRun
    <3>3. g.owed[x] = e.owed[x] + CountOf(e.list, DOMAIN e.list, x)
      BY <1>5, <1>9, <2>2
    <3>4. e.owed[x] = CountOf(e.later, DOMAIN e.later, x)
      BY <1>4, <2>1, <3>2
    <3>5. CountOf(e.list, DOMAIN e.list, x) \in Nat /\ CountOf(e.later, DOMAIN e.later, x) \in Nat
      BY <1>4
    <3> QED
      BY <1>9, <3>2, <3>3, <3>4, <3>5
  <2>3. CASE k # PreUnload
    <3>1. ToRun(k, e) = DOMAIN e.list /\ ToRun(k, g) = DOMAIN e.list
      BY <1>2, <1>3, <1>7, <1>9, <2>3 DEF ToRun
    <3> QED
      BY <1>5, <1>9, <2>1, <2>3, <3>1
  <2> QED
    BY <2>2, <2>3
<1>11. LifeOK(k, g)
  BY <1>7, <1>8, <1>9, <1>10 DEF LifeOK
<1> QED
  BY <1>6, <1>11

(* The next handler of the list, or the end of it.                            *)
Executed(k, e) ==
    IF e.i > Len(e.list)
    THEN [e EXCEPT !.i = 0, !.inProgress = FALSE, !.done = k # PreUnload, !.list = IF k = PreUnload THEN @ ELSE <<>>]
    ELSE Ran([e EXCEPT !.i = @ + 1], e.list[e.i])
LEMMA ExecutedOK ==
  ASSUME NEW k, NEW e, LifeOK(k, e), e.i > 0
  PROVE  LifeOK(k, Executed(k, e))
<1>1. e \in LifeState
  BY DEF LifeOK
<1>2. /\ e.list \in Seq(PageHandlers) /\ e.later \in Seq(PageHandlers) /\ e.owed \in [PageHandlers -> Int]
      /\ e.i \in Nat /\ e.inProgress \in BOOLEAN /\ e.done \in BOOLEAN
      /\ Len(e.list) \in Nat /\ DOMAIN e.list = 1..Len(e.list) /\ IsFiniteSet(DOMAIN e.list) /\ IsFiniteSet(DOMAIN e.later)
      /\ IsFiniteSet(ToRun(k, e)) /\ ToRun(k, e) \subseteq DOMAIN e.list
  BY ONLY <1>1, LifeIs
<1>3. e.inProgress /\ ~e.done
  BY <1>2 DEF LifeOK
<1>4. CASE e.i > Len(e.list)
  <2> DEFINE list == IF k = PreUnload THEN e.list ELSE <<>>
             done == k # PreUnload
             g == [e EXCEPT !.i = 0, !.inProgress = FALSE, !.done = done, !.list = list]
  <2>1. Executed(k, e) = g
    BY <1>4 DEF Executed
  <2>2. list \in Seq(PageHandlers) /\ done \in BOOLEAN /\ 0 \in Nat /\ FALSE \in BOOLEAN /\ (done <=> k # PreUnload)
        /\ IF k = PreUnload THEN list = e.list ELSE list = <<>>
    BY <1>2
  <2> HIDE DEF list, done
  <2>3. g \in LifeState
    BY <1>1, <2>2 DEF LifeState
  <2>4. g.list = list /\ g.i = 0 /\ g.inProgress = FALSE /\ g.done = done /\ g.later = e.later /\ g.owed = e.owed
    BY <1>1 DEF LifeState
  <2> HIDE DEF g
  <2>5. ToRun(k, e) = {}
    BY <1>2, <1>4 DEF ToRun
  <2>6. ToRun(k, g) = {}
    <3>1. CASE k = PreUnload
      BY <2>4, <3>1 DEF ToRun
    <3>2. CASE k # PreUnload
      <4>1. DOMAIN <<>> = {}
        OBVIOUS
      <4> QED
        BY <2>2, <2>4, <3>2, <4>1 DEF ToRun
    <3> QED
      BY <3>1, <3>2
  <2>7. \A x : CountOf(g.list, {}, x) = 0 /\ CountOf(e.list, {}, x) = 0
    BY CountIs, FS_EmptySet
  <2>8. \A x \in PageHandlers : g.owed[x] = CountOf(g.list, ToRun(k, g), x) + CountOf(g.later, DOMAIN g.later, x)
    BY <2>4, <2>5, <2>6, <2>7 DEF LifeOK
  <2>9. LifeOK(k, g)
    BY <2>2, <2>3, <2>4, <2>8 DEF LifeOK
  <2> QED
    BY <2>1, <2>9
<1>5. CASE ~(e.i > Len(e.list))
  <2> DEFINE h == e.list[e.i]
             i == e.i + 1
             owed == [e.owed EXCEPT ![h] = @ - 1]
             g == [e EXCEPT !.i = i, !.owed = owed]
  <2>1. e.i \in DOMAIN e.list /\ h \in PageHandlers /\ i \in Nat /\ i > 0
    BY <1>2, <1>5
  <2>2. Executed(k, e) = g
    BY <1>1, <1>5 DEF Executed, Ran, LifeState
  <2>3. owed \in [PageHandlers -> Int] /\ \A x \in PageHandlers : owed[x] = e.owed[x] - IF h = x THEN 1 ELSE 0
    <3>1. h \in PageHandlers
      BY <2>1
    <3> HIDE DEF h
    <3>2. \A x \in PageHandlers : e.owed[x] \in Int
      BY ONLY <1>2
    <3> QED
      BY ONLY <1>2, <3>1, <3>2 DEF owed
  <2>4. \A j \in DOMAIN e.list : i <= j <=> e.i <= j /\ j # e.i
    BY <1>2
  <2> HIDE DEF owed, i
  <2>5. g \in LifeState
    BY <1>1, <2>1, <2>3 DEF LifeState
  <2>6. g.list = e.list /\ g.i = i /\ g.inProgress = e.inProgress /\ g.done = e.done /\ g.later = e.later /\ g.owed = owed
    BY <1>1 DEF LifeState
  <2> HIDE DEF g
  <2>7. ToRun(k, g) = ToRun(k, e) \ {e.i} /\ e.i \in ToRun(k, e)
    <3>1. e.i <= e.i
      BY <1>2
    <3> QED
      BY <2>1, <2>4, <2>6, <3>1 DEF ToRun
  <2>8. ASSUME NEW x \in PageHandlers
        PROVE  g.owed[x] = CountOf(g.list, ToRun(k, g), x) + CountOf(g.later, DOMAIN g.later, x)
    <3>1. e.owed[x] = CountOf(e.list, ToRun(k, e), x) + CountOf(e.later, DOMAIN e.later, x)
      BY DEF LifeOK
    <3>2. CountOf(e.list, ToRun(k, e), x) = CountOf(g.list, ToRun(k, g), x) + IF h = x THEN 1 ELSE 0
      <4>1. IsFiniteSet(ToRun(k, e)) /\ e.i \in ToRun(k, e)
        BY ONLY <1>2, <2>7
      <4>2. CountOf(e.list, ToRun(k, e), x) = CountOf(e.list, ToRun(k, e) \ {e.i}, x) + IF e.list[e.i] = x THEN 1 ELSE 0
        BY ONLY <4>1, CountLess
      <4> QED
        BY ONLY <2>6, <2>7, <4>2 DEF h
    <3>3. IsFiniteSet(ToRun(k, g))
      BY <1>2, <2>7, FS_Subset
    <3>4. CountOf(g.list, ToRun(k, g), x) \in Nat /\ CountOf(e.later, DOMAIN e.later, x) \in Nat
      BY <1>2, <3>3, CountIs
    <3>5. g.owed[x] = e.owed[x] - IF h = x THEN 1 ELSE 0
      BY <2>3, <2>6
    <3>6. CountOf(g.later, DOMAIN g.later, x) = CountOf(e.later, DOMAIN e.later, x)
      BY <2>6
    <3> HIDE DEF h
    <3> QED
      BY ONLY <3>1, <3>2, <3>4, <3>5, <3>6
  <2>9. LifeOK(k, g)
    BY <1>3, <2>1, <2>5, <2>6, <2>8 DEF LifeOK
  <2> QED
    BY <2>2, <2>9
<1> QED
  BY <1>4, <1>5

(* A handler that runs on its own.                                            *)
RanLate(e) == Ran([e EXCEPT !.later = Tail(@)], Head(e.later))
LEMMA LateOK ==
  ASSUME NEW k, NEW e, LifeOK(k, e), e.later # <<>>
  PROVE  LifeOK(k, RanLate(e))
<1> DEFINE h == Head(e.later)
           later == Tail(e.later)
           owed == [e.owed EXCEPT ![h] = @ - 1]
           g == [e EXCEPT !.later = later, !.owed = owed]
<1>1. e \in LifeState
  BY DEF LifeOK
<1>2. /\ e.list \in Seq(PageHandlers) /\ e.later \in Seq(PageHandlers) /\ e.owed \in [PageHandlers -> Int]
      /\ IsFiniteSet(DOMAIN e.later) /\ IsFiniteSet(ToRun(k, e))
  BY ONLY <1>1, LifeIs
<1>3. h \in PageHandlers /\ later \in Seq(PageHandlers)
  BY <1>2
<1>4. owed \in [PageHandlers -> Int] /\ \A x \in PageHandlers : owed[x] = e.owed[x] - IF h = x THEN 1 ELSE 0
  BY <1>2, <1>3
<1>5. RanLate(e) = g
  BY <1>1 DEF RanLate, Ran, LifeState
<1>6. \A x : CountOf(e.later, DOMAIN e.later, x) = CountOf(later, DOMAIN later, x) + IF h = x THEN 1 ELSE 0
  BY <1>2, CountOfTail
<1> HIDE DEF owed, later, h
<1>7. g \in LifeState
  BY <1>1, <1>3, <1>4 DEF LifeState
<1>8. g.list = e.list /\ g.i = e.i /\ g.inProgress = e.inProgress /\ g.done = e.done /\ g.later = later /\ g.owed = owed
  BY <1>1 DEF LifeState
<1> HIDE DEF g
<1>9. ToRun(k, g) = ToRun(k, e)
  BY <1>8 DEF ToRun
<1>10. IsFiniteSet(DOMAIN later)
  BY <1>7, <1>8, LifeIs
<1>11. ASSUME NEW x \in PageHandlers
       PROVE  g.owed[x] = CountOf(g.list, ToRun(k, g), x) + CountOf(g.later, DOMAIN g.later, x)
  <2>1. e.owed[x] = CountOf(e.list, ToRun(k, e), x) + CountOf(e.later, DOMAIN e.later, x)
    BY DEF LifeOK
  <2>2. CountOf(e.later, DOMAIN e.later, x) = CountOf(g.later, DOMAIN g.later, x) + IF h = x THEN 1 ELSE 0
    BY <1>6, <1>8
  <2>3. CountOf(g.later, DOMAIN g.later, x) \in Nat /\ CountOf(e.list, ToRun(k, e), x) \in Nat
    BY <1>2, <1>8, <1>10, CountIs
  <2>4. g.owed[x] = e.owed[x] - IF h = x THEN 1 ELSE 0
    BY <1>4, <1>8
  <2>5. CountOf(g.list, ToRun(k, g), x) = CountOf(e.list, ToRun(k, e), x)
    BY <1>8, <1>9
  <2> QED
    BY ONLY <2>1, <2>2, <2>3, <2>4, <2>5
<1>12. LifeOK(k, g)
  BY <1>7, <1>8, <1>11 DEF LifeOK
<1> QED
  BY <1>5, <1>12

-----------------------------------------------------------------------------
LEMMA PageInitOK ==
  ASSUME PageInit
  PROVE  PageOK(page)
<1> DEFINE e == NewEvent
<1>1. e \in LifeState
  <2>1. NoRuns \in [PageHandlers -> Int]
    BY DEF NoRuns
  <2>2. <<>> \in Seq(PageHandlers)
    OBVIOUS
  <2> QED
    BY <2>1, <2>2 DEF NewEvent, LifeState
<1>2. e.list = <<>> /\ e.later = <<>> /\ e.i = 0 /\ e.inProgress = FALSE /\ e.done = FALSE /\ \A h \in PageHandlers : e.owed[h] = 0
  BY DEF NewEvent, NoRuns
<1> HIDE DEF e
<1>3. DOMAIN <<>> = {}
  OBVIOUS
<1>4. ASSUME NEW k
      PROVE  LifeOK(k, e)
  <2>1. ToRun(k, e) = {} /\ DOMAIN e.later = {}
    BY <1>2, <1>3 DEF ToRun
  <2>2. \A s, x : CountOf(s, {}, x) = 0
    BY CountIs, FS_EmptySet
  <2>3. ~(0 > 0) /\ 0 + 0 = 0
    OBVIOUS
  <2> QED
    BY <1>1, <1>2, <2>1, <2>2, <2>3 DEF LifeOK
<1> QED
  BY <1>1, <1>4 DEF PageInit, PageOK, e

LEMMA PageStepOK ==
  ASSUME PageOK(page), PageNext, {"adding_before_unload", "removing_while_told"} \subseteq PageAvoided
  PROVE  PageOK(page')
<1>1. ASSUME NEW k \in PageEvents, NEW e, LifeOK(k, e), page' = [page EXCEPT ![k] = e]
      PROVE  PageOK(page')
  <2>1. e \in LifeState
    BY <1>1 DEF LifeOK
  <2> QED
    BY <1>1, <2>1 DEF PageOK
<1>2. PICK k \in PageEvents :
        \/ \E h \in PageHandlers : addHandler(k, h) \/ removeHandler(k, h)
        \/ Fire(k) \/ ExecuteNext(k) \/ asynchSingleEventExecution(k)
  BY DEF PageNext
<1>3. LifeOK(k, page[k]) /\ page \in [PageEvents -> LifeState] /\ page[k] \in LifeState
  BY DEF PageOK
<1>4. CASE \E h \in PageHandlers : addHandler(k, h)
  <2>1. PICK h \in PageHandlers : addHandler(k, h)
    BY <1>4
  <2>2. k = PreUnload => ~(page[k].i > 0)
    BY <2>1 DEF addHandler, Executing
  <2>3. page' = [page EXCEPT ![k] = Handled(k, page[k], h)]
    BY <2>1 DEF addHandler, Handled, IsPre
  <2>4. LifeOK(k, Handled(k, page[k], h))
    BY <1>3, <2>2, HandledOK
  <2> QED
    BY <1>1, <2>3, <2>4
<1>5. CASE \E h \in PageHandlers : removeHandler(k, h)
  <2>1. PICK h \in PageHandlers : removeHandler(k, h)
    BY <1>5
  <2>2. ~(page[k].i > 0) /\ {i \in DOMAIN page[k].list : page[k].list[i] = h} # {}
    BY <2>1 DEF removeHandler, Executing
  <2>3. page' = [page EXCEPT ![k] = Unhandled(k, page[k], h)]
    BY <2>1 DEF removeHandler, Unhandled
  <2>4. LifeOK(k, Unhandled(k, page[k], h))
    BY <1>3, <2>2, UnhandledOK
  <2> QED
    BY <1>1, <2>3, <2>4
<1>6. CASE Fire(k)
  <2>1. ~(page[k].i > 0)
    BY <1>6 DEF Fire, Idle, Executing
  <2>2. page' = [page EXCEPT ![k] = Fired(k, page[k])]
    BY <1>3, <1>6 DEF Fire, Fired, LifeState
  <2>3. LifeOK(k, Fired(k, page[k]))
    BY <1>3, <2>1, FiredOK
  <2> QED
    BY <1>1, <2>2, <2>3
<1>7. CASE ExecuteNext(k)
  <2>1. page[k].i > 0 /\ page' = [page EXCEPT ![k] = Executed(k, page[k])]
    BY <1>7 DEF ExecuteNext, Executed, Executing
  <2>2. LifeOK(k, Executed(k, page[k]))
    BY <1>3, <2>1, ExecutedOK
  <2> QED
    BY <1>1, <2>1, <2>2
<1>8. CASE asynchSingleEventExecution(k)
  <2>1. page[k].later # <<>> /\ page' = [page EXCEPT ![k] = RanLate(page[k])]
    BY <1>3, <1>8 DEF asynchSingleEventExecution, RanLate
  <2>2. LifeOK(k, RanLate(page[k]))
    BY <1>3, <2>1, LateOK
  <2> QED
    BY <1>1, <2>1, <2>2
<1> QED
  BY <1>2, <1>4, <1>5, <1>6, <1>7, <1>8

LEMMA PageHolds ==
  ASSUME PageOK(page)
  PROVE  HandlersRunOnce
<1> SUFFICES ASSUME NEW k \in PageEvents, NEW h \in PageHandlers
             PROVE  /\ page[k].owed[h] >= 0
                    /\ ~Executing(k) /\ page[k].later = <<>> /\ (k = PreUnload \/ page[k].done) => page[k].owed[h] = 0
  BY DEF HandlersRunOnce
<1> DEFINE e == page[k]
<1>1. LifeOK(k, e) /\ e \in LifeState
  BY DEF PageOK
<1> HIDE DEF e
<1>2. e.i \in Nat /\ IsFiniteSet(ToRun(k, e)) /\ IsFiniteSet(DOMAIN e.later)
  BY <1>1, LifeIs
<1>3. /\ CountOf(e.list, ToRun(k, e), h) \in Nat /\ CountOf(e.later, DOMAIN e.later, h) \in Nat
      /\ ToRun(k, e) = {} => CountOf(e.list, ToRun(k, e), h) = 0
      /\ DOMAIN e.later = {} => CountOf(e.later, DOMAIN e.later, h) = 0
  BY <1>2, CountIs
<1>4. e.owed[h] = CountOf(e.list, ToRun(k, e), h) + CountOf(e.later, DOMAIN e.later, h)
  BY <1>1 DEF LifeOK
<1>5. e.owed[h] >= 0
  BY <1>3, <1>4
<1>6. ASSUME ~(e.i > 0), e.later = <<>>, k = PreUnload \/ e.done
      PROVE  e.owed[h] = 0
  <2>1. DOMAIN <<>> = {}
    OBVIOUS
  <2>2. ToRun(k, e) = {}
    BY <1>1, <1>6, <2>1 DEF ToRun, LifeOK
  <2> QED
    BY <1>3, <1>4, <1>6, <2>1, <2>2
<1> QED
  BY <1>5, <1>6 DEF e, Executing

-----------------------------------------------------------------------------
(* Where there is another tick than the interval, it is on its way for the    *)
(* urgent tasks that wait, once if no other messages come.                    *)
TickState ==
    [where : Surroundings, generator : {"none", "node", "post"}, timer : {"none", "set", "cleared"}, pending : BOOLEAN,
     transit : Nat, waiting : Nat]
TicksOK(t) ==
    /\ t \in TickState
    /\ t.timer = "none" => t.where \notin Pages \cup {"node"} /\ t.generator = "none"
    /\ t.generator = "none" => t.transit = 0
    /\ t.generator # "none" /\ t.pending => t.transit > 0
    /\ t.generator # "none" /\ t.timer = "set" /\ t.waiting > 0 => t.pending
    /\ "other_messages" \in TicksAvoided => t.transit = IF t.generator # "none" /\ t.pending THEN 1 ELSE 0

LEMMA TickIs ==
  ASSUME NEW t \in TickState
  PROVE  /\ t.where \in Surroundings /\ t.generator \in {"none", "node", "post"} /\ t.timer \in {"none", "set", "cleared"}
         /\ t.pending \in BOOLEAN /\ t.transit \in Nat /\ t.waiting \in Nat
  BY DEF TickState

LEMMA doTickIs ==
  ASSUME NEW t \in TickState
  PROVE  /\ doTick(t) \in TickState
         /\ doTick(t).where = t.where /\ doTick(t).generator = t.generator /\ doTick(t).timer = t.timer
         /\ doTick(t).pending = FALSE /\ doTick(t).transit = t.transit
         /\ doTick(t).waiting = IF t.timer = "cleared" THEN t.waiting ELSE 0
<1> DEFINE f == [t EXCEPT !.pending = FALSE]
           g == [f EXCEPT !.waiting = 0]
<1>1. f \in TickState
  BY DEF TickState
<1>2. f.where = t.where /\ f.generator = t.generator /\ f.timer = t.timer /\ f.pending = FALSE /\ f.transit = t.transit /\ f.waiting = t.waiting
  BY DEF TickState
<1>3. doTick(t) = IF f.timer = "cleared" THEN f ELSE g
  BY DEF doTick, execute
<1> HIDE DEF f
<1>4. g \in TickState
  BY <1>1 DEF TickState
<1>5. g.where = f.where /\ g.generator = f.generator /\ g.timer = f.timer /\ g.pending = f.pending /\ g.transit = f.transit /\ g.waiting = 0
  BY <1>1 DEF TickState
<1> HIDE DEF g
<1>6. CASE t.timer = "cleared"
  BY <1>1, <1>2, <1>3, <1>6
<1>7. CASE t.timer # "cleared"
  BY <1>2, <1>3, <1>4, <1>5, <1>7
<1> QED
  BY <1>6, <1>7

LEMMA generateTickIs ==
  ASSUME NEW t \in TickState, NEW u \in generateTick(t), "post_fails" \in TicksAvoided
  PROVE  /\ u \in TickState /\ u.where = t.where /\ u.generator = t.generator /\ u.timer = t.timer
         /\ \/ t.pending /\ u = t
            \/ /\ ~t.pending /\ u.pending /\ u.waiting = t.waiting
               /\ u.transit = IF t.generator = "none" THEN t.transit ELSE t.transit + 1
            \/ /\ t.where = "at_once_page" /\ ~t.pending /\ ~u.pending /\ u.transit = t.transit
               /\ u.waiting = IF t.timer = "cleared" THEN t.waiting ELSE 0
<1>1. CASE t.pending
  BY <1>1 DEF generateTick
<1>2. CASE ~t.pending
  <2> DEFINE f == [t EXCEPT !.pending = TRUE]
             transit == f.transit + 1
             g == [f EXCEPT !.transit = transit]
  <2>1. f \in TickState
    BY DEF TickState
  <2>2. f.where = t.where /\ f.generator = t.generator /\ f.timer = t.timer /\ f.pending = TRUE /\ f.transit = t.transit /\ f.waiting = t.waiting
    BY DEF TickState
  <2>3. u \in generateTickExecution(f)
    BY <1>2 DEF generateTick
  <2>4. u \in IF f.generator = "none" THEN {f} ELSE IF f.generator # "node" /\ f.where = "at_once_page" THEN {doTick(f)} ELSE {g}
    BY <2>3 DEF generateTickExecution, Outcomes, Posts
  <2> HIDE DEF f
  <2>5. transit \in Nat
    BY <2>1, TickIs
  <2> HIDE DEF transit
  <2>6. g \in TickState
    BY <2>1, <2>5 DEF TickState
  <2>7. g.where = f.where /\ g.generator = f.generator /\ g.timer = f.timer /\ g.pending = f.pending /\ g.transit = transit /\ g.waiting = f.waiting
    BY <2>1 DEF TickState
  <2> HIDE DEF g
  <2>8. transit = t.transit + 1
    BY <2>2 DEF transit
  <2>9. CASE f.generator = "none"
    <3>1. u = f
      BY <2>4, <2>9
    <3> QED
      BY <1>2, <2>1, <2>2, <2>9, <3>1
  <2>10. CASE f.generator # "none" /\ f.generator # "node" /\ f.where = "at_once_page"
    <3>1. u = doTick(f)
      BY <2>4, <2>10
    <3>2. /\ u \in TickState
          /\ u.where = f.where /\ u.generator = f.generator /\ u.timer = f.timer
          /\ u.pending = FALSE /\ u.transit = f.transit
          /\ u.waiting = IF f.timer = "cleared" THEN f.waiting ELSE 0
      BY ONLY <2>1, <3>1, doTickIs
    <3> QED
      BY <1>2, <2>2, <2>10, <3>2
  <2>11. CASE f.generator # "none" /\ ~(f.generator # "node" /\ f.where = "at_once_page")
    <3>1. u = g
      BY <2>4, <2>11
    <3> QED
      BY <1>2, <2>2, <2>6, <2>7, <2>8, <2>11, <3>1
  <2> QED
    BY <2>9, <2>10, <2>11
<1> QED
  BY <1>1, <1>2

LEMMA doInitOK ==
  ASSUME NEW t \in TickState, NEW u \in doInit(t), "post_fails" \in TicksAvoided,
         t.generator = "none", t.transit = 0, t.where \in Pages \cup {"node"} => ~t.pending /\ t.waiting = 0
  PROVE  TicksOK(u)
<1> DEFINE f == [t EXCEPT !.timer = "set"]
<1>1. f \in TickState
  BY DEF TickState
<1>2. f.where = t.where /\ f.generator = "none" /\ f.timer = "set" /\ f.pending = t.pending /\ f.transit = 0 /\ f.waiting = t.waiting
  BY DEF TickState
<1>3. CASE t.where \in Pages \ {"older_page"}
  <2> DEFINE g == [f EXCEPT !.generator = "post"]
  <2>1. u \in {RolledBack(p) : p \in generateTick(g)}
    BY <1>3 DEF doInit
  <2>2. g \in TickState
    BY <1>1 DEF TickState
  <2>3. g.where = t.where /\ g.generator = "post" /\ g.timer = "set" /\ ~g.pending /\ g.transit = 0 /\ g.waiting = 0
    BY <1>1, <1>2, <1>3 DEF TickState
  <2> HIDE DEF f, g
  <2>4. PICK p \in generateTick(g) : u = RolledBack(p)
    BY <2>1
  <2>5. /\ p \in TickState /\ p.where = g.where /\ p.generator = g.generator /\ p.timer = g.timer
        /\ \/ g.pending /\ p = g
           \/ /\ ~g.pending /\ p.pending /\ p.waiting = g.waiting
              /\ p.transit = IF g.generator = "none" THEN g.transit ELSE g.transit + 1
           \/ /\ g.where = "at_once_page" /\ ~g.pending /\ ~p.pending /\ p.transit = g.transit
              /\ p.waiting = IF g.timer = "cleared" THEN g.waiting ELSE 0
    BY <2>2, generateTickIs
  <2>6. CASE p.pending
    <3>1. u = p
      BY <2>4, <2>6 DEF RolledBack
    <3>2. p.generator = "post" /\ p.timer = "set" /\ p.transit = 1 /\ p.waiting = 0
      BY <2>3, <2>5, <2>6
    <3> QED
      BY <2>5, <2>6, <3>1, <3>2 DEF TicksOK
  <2>7. CASE ~p.pending
    <3> DEFINE r == [p EXCEPT !.generator = "none"]
    <3>1. u = r
      BY <2>4, <2>7 DEF RolledBack
    <3>2. r \in TickState
      BY <2>5 DEF TickState
    <3>3. r.generator = "none" /\ r.timer = p.timer /\ r.transit = p.transit
      BY <2>5 DEF TickState
    <3> HIDE DEF r
    <3>4. p.timer = "set" /\ p.transit = 0
      BY <2>3, <2>5, <2>7
    <3> QED
      BY <3>1, <3>2, <3>3, <3>4 DEF TicksOK
  <2> QED
    BY <2>6, <2>7
<1>4. CASE t.where \notin Pages \ {"older_page"}
  <2> DEFINE generator == IF t.where = "node" THEN "node" ELSE "none"
             g == [f EXCEPT !.generator = generator]
  <2>1. u = g
    BY <1>4 DEF doInit
  <2>2. generator \in {"none", "node"} /\ (generator # "none" => t.where = "node")
    OBVIOUS
  <2> HIDE DEF generator
  <2>3. g \in TickState
    BY <1>1, <2>2 DEF TickState
  <2>4. g.generator = generator /\ g.timer = "set" /\ g.pending = t.pending /\ g.transit = 0 /\ g.waiting = t.waiting
    BY <1>1, <1>2 DEF TickState
  <2> HIDE DEF f, g
  <2>5. generator # "none" => ~t.pending /\ t.waiting = 0
    BY <2>2
  <2> QED
    BY <2>1, <2>3, <2>4, <2>5 DEF TicksOK
<1> QED
  BY <1>3, <1>4

LEMMA TicksInitOK ==
  ASSUME TicksInit, "post_fails" \in TicksAvoided
  PROVE  TicksOK(ticks)
<1> DEFINE T(w) == [where |-> w, generator |-> "none", timer |-> "none", pending |-> FALSE, transit |-> 0, waiting |-> 0]
<1>1. PICK w \in Surroundings : IF w = "worker" THEN ticks = T(w) ELSE ticks \in doInit(T(w))
  BY DEF TicksInit
<1> DEFINE t == T(w)
<1>2. t \in TickState
  BY DEF TickState
<1>3. t.where = w /\ t.generator = "none" /\ t.timer = "none" /\ t.pending = FALSE /\ t.transit = 0 /\ t.waiting = 0
  OBVIOUS
<1>4. IF w = "worker" THEN ticks = t ELSE ticks \in doInit(t)
  BY <1>1
<1> HIDE DEF t
<1>5. CASE w = "worker"
  BY <1>2, <1>3, <1>4, <1>5 DEF TicksOK, Pages
<1>6. CASE w # "worker"
  BY <1>2, <1>3, <1>4, <1>6, doInitOK
<1> QED
  BY <1>5, <1>6

LEMMA TicksStepOK ==
  ASSUME TicksOK(ticks), TicksNext, "post_fails" \in TicksAvoided
  PROVE  TicksOK(ticks')
<1> DEFINE t == ticks
           u == ticks'
<1>1. /\ t \in TickState
      /\ t.where \in Surroundings /\ t.generator \in {"none", "node", "post"} /\ t.timer \in {"none", "set", "cleared"}
      /\ t.pending \in BOOLEAN /\ t.transit \in Nat /\ t.waiting \in Nat
  BY TickIs DEF TicksOK
<1>2. CASE Start
  BY <1>1, <1>2, doInitOK DEF Start, TicksOK
<1>3. CASE addTimedTask0
  <2> DEFINE waiting == t.waiting + 1
             f == [t EXCEPT !.waiting = waiting]
  <2>1. u \in generateTick(f)
    BY <1>3 DEF addTimedTask0
  <2>2. waiting \in Nat
    BY <1>1
  <2> HIDE DEF waiting
  <2>3. f \in TickState
    BY <1>1, <2>2 DEF TickState
  <2>4. f.where = t.where /\ f.generator = t.generator /\ f.timer = t.timer /\ f.pending = t.pending /\ f.transit = t.transit /\ f.waiting = waiting
    BY <1>1 DEF TickState
  <2> SUFFICES TicksOK(u)
    OBVIOUS
  <2> HIDE DEF f, u
  <2>5. /\ u \in TickState /\ u.where = f.where /\ u.generator = f.generator /\ u.timer = f.timer
        /\ \/ f.pending /\ u = f
           \/ /\ ~f.pending /\ u.pending /\ u.waiting = f.waiting
              /\ u.transit = IF f.generator = "none" THEN f.transit ELSE f.transit + 1
           \/ /\ f.where = "at_once_page" /\ ~f.pending /\ ~u.pending /\ u.transit = f.transit
              /\ u.waiting = IF f.timer = "cleared" THEN f.waiting ELSE 0
    BY <2>1, <2>3, generateTickIs
  <2>6. CASE f.pending /\ u = f
    BY <1>1, <2>3, <2>4, <2>6 DEF TicksOK
  <2>7. CASE /\ ~f.pending /\ u.pending /\ u.waiting = f.waiting
             /\ u.transit = IF f.generator = "none" THEN f.transit ELSE f.transit + 1
    BY <1>1, <2>4, <2>5, <2>7 DEF TicksOK
  <2>8. CASE /\ f.where = "at_once_page" /\ ~f.pending /\ ~u.pending /\ u.transit = f.transit
             /\ u.waiting = IF f.timer = "cleared" THEN f.waiting ELSE 0
    BY <1>1, <2>4, <2>5, <2>8 DEF TicksOK, Pages
  <2> QED
    BY <2>5, <2>6, <2>7, <2>8
<1>4. CASE Interval
  <2> DEFINE g == [t EXCEPT !.waiting = 0]
  <2>1. u = g
    BY <1>4 DEF Interval, execute
  <2>2. g \in TickState
    BY <1>1 DEF TickState
  <2>3. g.where = t.where /\ g.generator = t.generator /\ g.timer = t.timer /\ g.pending = t.pending /\ g.transit = t.transit /\ g.waiting = 0
    BY <1>1 DEF TickState
  <2> HIDE DEF g
  <2> QED
    BY <2>1, <2>2, <2>3 DEF TicksOK
<1>5. CASE OwnTick
  <2> DEFINE transit == t.transit - 1
             f == [t EXCEPT !.transit = transit]
  <2>1. u = doTick(f) /\ t.transit > 0
    BY <1>5 DEF OwnTick
  <2>2. transit \in Nat
    BY <1>1, <2>1
  <2>3. transit = t.transit - 1
    OBVIOUS
  <2> HIDE DEF transit
  <2>4. f \in TickState
    BY <1>1, <2>2 DEF TickState
  <2>5. f.where = t.where /\ f.generator = t.generator /\ f.timer = t.timer /\ f.transit = transit
    BY <1>1 DEF TickState
  <2> HIDE DEF f, u
  <2>6. /\ u \in TickState
        /\ u.where = f.where /\ u.generator = f.generator /\ u.timer = f.timer
        /\ u.pending = FALSE /\ u.transit = f.transit
        /\ u.waiting = IF f.timer = "cleared" THEN f.waiting ELSE 0
    BY <2>1, <2>4, doTickIs
  <2>7. t.generator # "none"
    BY <1>1, <2>1 DEF TicksOK
  <2>8. "other_messages" \in TicksAvoided => transit = 0
    BY <1>1, <2>1, <2>2, <2>3 DEF TicksOK
  <2>9. t.timer # "none"
    BY <2>7 DEF TicksOK
  <2>10. TicksOK(u)
    BY <2>5, <2>6, <2>7, <2>8, <2>9 DEF TicksOK
  <2> QED
    BY <2>10 DEF u
<1>6. CASE Unloaded
  <2> DEFINE g == [t EXCEPT !.timer = "cleared"]
  <2>1. u = g
    BY <1>6 DEF Unloaded
  <2>2. g \in TickState
    BY <1>1 DEF TickState
  <2>3. g.where = t.where /\ g.generator = t.generator /\ g.timer = "cleared" /\ g.pending = t.pending /\ g.transit = t.transit
    BY <1>1 DEF TickState
  <2> HIDE DEF g
  <2> QED
    BY <2>1, <2>2, <2>3 DEF TicksOK
<1>7. CASE \E data \in {"Lightstreamer.run", "other"}, from \in {"own", "foreign"} : OtherMessage(data, from)
  <2>1. u = doTick(t) /\ "other_messages" \notin TicksAvoided
    BY <1>7 DEF OtherMessage
  <2> HIDE DEF u
  <2>2. /\ u \in TickState
        /\ u.where = t.where /\ u.generator = t.generator /\ u.timer = t.timer
        /\ u.pending = FALSE /\ u.transit = t.transit
        /\ u.waiting = IF t.timer = "cleared" THEN t.waiting ELSE 0
    BY <1>1, <2>1, doTickIs
  <2>3. TicksOK(u)
    BY <2>1, <2>2 DEF TicksOK
  <2> QED
    BY <2>3 DEF u
<1> QED
  BY <1>2, <1>3, <1>4, <1>5, <1>6, <1>7 DEF TicksNext

LEMMA TicksHold ==
  ASSUME TicksOK(ticks)
  PROVE  UrgentIsTicked
<1>1. ticks.transit \in Nat
  BY TickIs DEF TicksOK
<1> QED
  BY <1>1 DEF TicksOK, UrgentIsTicked

-----------------------------------------------------------------------------
(* The simple executor: no task is early, its timer leaves it enough time for *)
(* its delays, and the length of the queue counts the tasks on their way.     *)
SimpleTask ==
    [state : {"packed", "added", "stopped"}, repetitive : BOOLEAN, time : Nat, delay : Nat, left : Nat \cup {Unset}, due : Nat,
     early : BOOLEAN, runs : Nat]
SimpleState == [task : [SimpleTaskIds -> SimpleTask], active : Int, running : SimpleTaskIds \cup {NoTask}, served : Nat, now : Nat]
SimpleTaskOK(k, now) ==
    /\ ~k.early
    /\ k.left # Unset => k.state = "added" /\ k.due <= now + k.left + k.delay
    /\ k.state = "packed" => k.left = Unset /\ k.delay = 0 /\ ~k.repetitive /\ k.runs = 0
    /\ k.repetitive => k.delay = 0
    /\ ~k.repetitive => k.runs <= 1 /\ (k.left # Unset => k.runs = 0) /\ (k.left = Unset /\ k.state = "added" => k.runs = 1)
RunningOK(s, t) == s.running = t => s.task[t].state # "packed" /\ (~s.task[t].repetitive => s.task[t].left = Unset)
IsOnItsWay(s, t) == s.task[t].left # Unset \/ (s.running = t /\ ~s.task[t].repetitive)
SimpleOK(s) ==
    /\ s \in SimpleState
    /\ \A t \in SimpleTaskIds : SimpleTaskOK(s.task[t], s.now) /\ RunningOK(s, t)
    /\ s.active = Cardinality(OnTheirWay(s)) + s.served

LEMMA SimpleIs ==
  ASSUME NEW s \in SimpleState
  PROVE  /\ s.task \in [SimpleTaskIds -> SimpleTask] /\ s.active \in Int /\ s.running \in SimpleTaskIds \cup {NoTask}
         /\ s.served \in Nat /\ s.now \in Nat
  BY DEF SimpleState

LEMMA SimpleTaskIs ==
  ASSUME NEW k \in SimpleTask
  PROVE  /\ k.state \in {"packed", "added", "stopped"} /\ k.repetitive \in BOOLEAN /\ k.time \in Nat /\ k.delay \in Nat
         /\ k.left \in Nat \cup {Unset} /\ k.due \in Nat /\ k.early \in BOOLEAN /\ k.runs \in Nat
  BY DEF SimpleTask

LEMMA UnsetIs == Unset \in Int /\ Unset \notin Nat
  BY DEF Unset

(* Two finite sets that differ in one element at most.                        *)
LEMMA ButForOne ==
  ASSUME NEW A, NEW B, NEW t, IsFiniteSet(A), IsFiniteSet(B), A \ {t} = B \ {t}
  PROVE  /\ Cardinality(A) \in Nat /\ Cardinality(B) \in Nat
         /\ Cardinality(A) - (IF t \in A THEN 1 ELSE 0) = Cardinality(B) - IF t \in B THEN 1 ELSE 0
<1>1. ASSUME NEW C, IsFiniteSet(C)
      PROVE  Cardinality(C) \in Nat /\ Cardinality(C \ {t}) = Cardinality(C) - IF t \in C THEN 1 ELSE 0
  BY ONLY <1>1, FS_RemoveElement, FS_CardinalityType
<1>2. Cardinality(A) \in Nat /\ Cardinality(A \ {t}) = Cardinality(A) - IF t \in A THEN 1 ELSE 0
  BY <1>1
<1>3. Cardinality(B) \in Nat /\ Cardinality(B \ {t}) = Cardinality(B) - IF t \in B THEN 1 ELSE 0
  BY <1>1
<1> QED
  BY ONLY <1>2, <1>3, A \ {t} = B \ {t}

(* A step of one task.                                                        *)
LEMMA OneSimpleTask ==
  ASSUME SimpleTasksAssumption, NEW s, NEW r, NEW t \in SimpleTaskIds, SimpleOK(s),
         r \in SimpleState, r.now = s.now,
         \A x \in SimpleTaskIds \ {t} : r.task[x] = s.task[x] /\ (r.running = x <=> s.running = x),
         SimpleTaskOK(r.task[t], r.now), RunningOK(r, t),
         r.active - r.served - (IF IsOnItsWay(r, t) THEN 1 ELSE 0) = s.active - s.served - IF IsOnItsWay(s, t) THEN 1 ELSE 0
  PROVE  SimpleOK(r)
<1>1. s \in SimpleState /\ s.active = Cardinality(OnTheirWay(s)) + s.served
  BY DEF SimpleOK
<1>2. s.active \in Int /\ s.served \in Nat /\ r.active \in Int /\ r.served \in Nat
  BY <1>1, SimpleIs
<1>3. ASSUME NEW x \in SimpleTaskIds
      PROVE  SimpleTaskOK(r.task[x], r.now) /\ RunningOK(r, x)
  <2>1. CASE x = t
    BY <2>1
  <2>2. CASE x # t
    <3>1. SimpleTaskOK(s.task[x], s.now) /\ RunningOK(s, x)
      BY DEF SimpleOK
    <3> QED
      BY <2>2, <3>1 DEF RunningOK
  <2> QED
    BY <2>1, <2>2
<1> DEFINE A == OnTheirWay(r)
           B == OnTheirWay(s)
<1>4. A = {x \in SimpleTaskIds : IsOnItsWay(r, x)} /\ B = {x \in SimpleTaskIds : IsOnItsWay(s, x)}
  BY DEF OnTheirWay, IsOnItsWay
<1> HIDE DEF A, B
<1>5. IsFiniteSet(A) /\ IsFiniteSet(B)
  BY <1>4, FS_Subset DEF SimpleTasksAssumption
<1>6. \A x \in SimpleTaskIds \ {t} : IsOnItsWay(r, x) <=> IsOnItsWay(s, x)
  BY DEF IsOnItsWay
<1>7. A \ {t} = B \ {t} /\ (t \in A <=> IsOnItsWay(r, t)) /\ (t \in B <=> IsOnItsWay(s, t))
  BY <1>4, <1>6
<1>8. /\ Cardinality(A) \in Nat /\ Cardinality(B) \in Nat
      /\ Cardinality(A) - (IF t \in A THEN 1 ELSE 0) = Cardinality(B) - IF t \in B THEN 1 ELSE 0
  BY ONLY <1>5, <1>7, ButForOne
<1>9. s.active = Cardinality(B) + s.served
  BY <1>1 DEF B
<1> DEFINE a == IF t \in A THEN 1 ELSE 0
           b == IF t \in B THEN 1 ELSE 0
<1>10. a \in Nat /\ b \in Nat /\ a = (IF IsOnItsWay(r, t) THEN 1 ELSE 0) /\ b = (IF IsOnItsWay(s, t) THEN 1 ELSE 0)
  BY <1>7
<1>11. Cardinality(A) - a = Cardinality(B) - b
  BY <1>8
<1> HIDE DEF a, b
<1>12. r.active - r.served - a = s.active - s.served - b
  BY <1>10
<1>13. r.active = Cardinality(A) + r.served
  <2>1. Cardinality(A) \in Nat /\ Cardinality(B) \in Nat /\ a \in Nat /\ b \in Nat
    BY <1>8, <1>10
  <2> QED
    BY ONLY <1>2, <1>9, <1>11, <1>12, <2>1
<1> QED
  BY <1>3, <1>13 DEF SimpleOK, A
-----------------------------------------------------------------------------
(* addTask                                                                    *)
LEMMA SimpleAddOK ==
  ASSUME SimpleTasksAssumption, NEW s, NEW r, SimpleOK(s), NEW t \in SimpleTaskIds, NEW time \in TaskTimes, NEW repetitive \in BOOLEAN,
         s.task[t].state = "packed",
         r = [addPackedTimedTask(s, t, time, repetitive) EXCEPT !.task[t].due = s.now + time]
  PROVE  SimpleOK(r)
<1> DEFINE k == s.task[t]
           due == s.now + time
           active == s.active + 1
           n == [k EXCEPT !.state = "added", !.time = time, !.repetitive = repetitive, !.left = time, !.due = due]
           task == [s.task EXCEPT ![t] = n]
           g == [s EXCEPT !.active = active, !.task = task]
<1>1. s \in SimpleState /\ SimpleTaskOK(k, s.now) /\ RunningOK(s, t)
  BY DEF SimpleOK
<1>2. s.task \in [SimpleTaskIds -> SimpleTask] /\ s.active \in Int /\ s.now \in Nat /\ s.served \in Nat
  BY <1>1, SimpleIs
<1>3. k \in SimpleTask /\ k.state = "packed" /\ k.left = Unset /\ k.delay = 0 /\ k.runs = 0 /\ ~k.early /\ s.running # t
  BY <1>1, <1>2 DEF SimpleTaskOK, RunningOK
<1>4. time \in Nat /\ due \in Nat /\ active \in Int
  BY <1>2 DEF SimpleTasksAssumption
<1>5. r = g
  BY <1>1, <1>2, <1>3 DEF addPackedTimedTask, SimpleState, SimpleTask
<1> HIDE DEF due, active, k
<1>6. n \in SimpleTask
  BY <1>3, <1>4 DEF SimpleTask
<1>7. n.state = "added" /\ n.repetitive = repetitive /\ n.left = time /\ n.due = due /\ n.delay = k.delay /\ n.runs = k.runs /\ n.early = k.early
  BY <1>3 DEF SimpleTask
<1> HIDE DEF n
<1>8. task \in [SimpleTaskIds -> SimpleTask] /\ task[t] = n /\ \A x \in SimpleTaskIds \ {t} : task[x] = s.task[x]
  BY <1>2, <1>6
<1> HIDE DEF task
<1>9. g \in SimpleState /\ g.task = task /\ g.active = active /\ g.running = s.running /\ g.now = s.now /\ g.served = s.served
  BY <1>1, <1>4, <1>8 DEF SimpleState
<1> HIDE DEF g
<1>10. SimpleTaskOK(n, s.now)
  <2>1. n.left # Unset /\ n.runs = 0 /\ n.delay = 0 /\ ~n.early
    BY <1>3, <1>4, <1>7, UnsetIs
  <2>2. n.due <= s.now + n.left + n.delay
    BY <1>2, <1>4, <1>7, <2>1 DEF due
  <2>3. 0 <= 1
    OBVIOUS
  <2> QED
    BY <1>7, <2>1, <2>2, <2>3 DEF SimpleTaskOK
<1>11. ~IsOnItsWay(s, t) /\ IsOnItsWay(g, t)
  BY <1>3, <1>4, <1>7, <1>8, <1>9, UnsetIs DEF IsOnItsWay, k
<1>12. RunningOK(g, t)
  BY <1>3, <1>9 DEF RunningOK
<1>13. g.active - g.served - 1 = s.active - s.served - 0
  BY <1>2, <1>9 DEF active
<1>14. SimpleOK(g)
  BY <1>8, <1>9, <1>10, <1>11, <1>12, <1>13, OneSimpleTask
<1> QED
  BY <1>5, <1>14

(* StopTask                                                                   *)
LEMMA SimpleStopOK ==
  ASSUME SimpleTasksAssumption, NEW s, SimpleOK(s), NEW t \in SimpleTaskIds, s.task[t].left # Unset
  PROVE  SimpleOK(stopTask(s, t))
<1> DEFINE k == s.task[t]
           active == s.active - 1
           n == [k EXCEPT !.left = Unset, !.state = "stopped"]
           task == [s.task EXCEPT ![t] = n]
           g == [s EXCEPT !.active = active, !.task = task]
<1>1. s \in SimpleState /\ SimpleTaskOK(k, s.now) /\ RunningOK(s, t)
  BY DEF SimpleOK
<1>2. s.task \in [SimpleTaskIds -> SimpleTask] /\ s.active \in Int /\ s.now \in Nat /\ s.served \in Nat
  BY <1>1, SimpleIs
<1>3. k \in SimpleTask /\ k.left # Unset /\ active \in Int
  BY <1>2
<1>4. stopTask(s, t) = g
  BY <1>1, <1>2 DEF stopTask, SimpleState
<1> HIDE DEF active, k
<1>5. n \in SimpleTask
  BY <1>3 DEF SimpleTask
<1>6. n.state = "stopped" /\ n.repetitive = k.repetitive /\ n.left = Unset /\ n.delay = k.delay /\ n.runs = k.runs /\ n.early = k.early
  BY <1>3 DEF SimpleTask
<1> HIDE DEF n
<1>7. task \in [SimpleTaskIds -> SimpleTask] /\ task[t] = n /\ \A x \in SimpleTaskIds \ {t} : task[x] = s.task[x]
  BY <1>2, <1>5
<1> HIDE DEF task
<1>8. g \in SimpleState /\ g.task = task /\ g.active = active /\ g.running = s.running /\ g.now = s.now /\ g.served = s.served
  BY <1>1, <1>3, <1>7 DEF SimpleState
<1> HIDE DEF g
<1>9. SimpleTaskOK(n, s.now)
  BY <1>1, <1>6 DEF SimpleTaskOK
<1>10. s.running = t => k.repetitive
  BY <1>1, <1>3 DEF RunningOK, k
<1>11. IsOnItsWay(s, t) /\ ~IsOnItsWay(g, t)
  BY <1>3, <1>6, <1>7, <1>8, <1>10 DEF IsOnItsWay, k
<1>12. RunningOK(g, t)
  BY <1>6, <1>7, <1>8 DEF RunningOK
<1>13. g.active - g.served - 0 = s.active - s.served - 1
  BY <1>2, <1>8 DEF active
<1>14. SimpleOK(g)
  BY <1>7, <1>8, <1>9, <1>11, <1>12, <1>13, OneSimpleTask
<1> QED
  BY <1>4, <1>14

(* delayTask                                                                  *)
LEMMA SimpleDelayOK ==
  ASSUME SimpleTasksAssumption, NEW s, NEW r, SimpleOK(s), NEW t \in SimpleTaskIds, NEW time \in TaskTimes,
         s.task[t].state = "added", ~s.task[t].repetitive,
         r = [s EXCEPT !.task[t] = [s.task[t] EXCEPT !.delay = @ + time, !.due = @ + time]]
  PROVE  SimpleOK(r)
<1> DEFINE k == s.task[t]
           delay == k.delay + time
           due == k.due + time
           n == [k EXCEPT !.delay = delay, !.due = due]
           task == [s.task EXCEPT ![t] = n]
           g == [s EXCEPT !.task = task]
<1>1. s \in SimpleState /\ SimpleTaskOK(k, s.now) /\ RunningOK(s, t)
  BY DEF SimpleOK
<1>2. s.task \in [SimpleTaskIds -> SimpleTask] /\ s.active \in Int /\ s.now \in Nat /\ s.served \in Nat
  BY <1>1, SimpleIs
<1>3. k \in SimpleTask /\ k.state = "added" /\ ~k.repetitive
  BY <1>2
<1>4. time \in Nat /\ k.delay \in Nat /\ k.due \in Nat /\ k.left \in Nat \cup {Unset}
  BY <1>3, SimpleTaskIs DEF SimpleTasksAssumption
<1>5. delay \in Nat /\ due \in Nat
  BY <1>4
<1>6. r = g
  <2>1. n = [k EXCEPT !.delay = @ + time, !.due = @ + time]
    BY <1>3 DEF SimpleTask
  <2> QED
    BY <1>1, <1>2, <2>1 DEF SimpleState
<1> HIDE DEF delay, due, k
<1>7. n \in SimpleTask
  BY <1>3, <1>5 DEF SimpleTask
<1>8. /\ n.state = k.state /\ n.repetitive = k.repetitive /\ n.left = k.left /\ n.delay = delay /\ n.due = due
      /\ n.runs = k.runs /\ n.early = k.early
  BY <1>3 DEF SimpleTask
<1> HIDE DEF n
<1>9. task \in [SimpleTaskIds -> SimpleTask] /\ task[t] = n /\ \A x \in SimpleTaskIds \ {t} : task[x] = s.task[x]
  BY <1>2, <1>7
<1> HIDE DEF task
<1>10. g \in SimpleState /\ g.task = task /\ g.active = s.active /\ g.running = s.running /\ g.now = s.now /\ g.served = s.served
  BY <1>1, <1>9 DEF SimpleState
<1> HIDE DEF g
<1>11. SimpleTaskOK(n, s.now)
  <2>1. n.left # Unset => n.due <= s.now + n.left + n.delay
    <3> SUFFICES ASSUME k.left # Unset
                 PROVE  due <= s.now + k.left + delay
      BY <1>8
    <3>1. k.due <= s.now + k.left + k.delay /\ k.left \in Nat
      BY <1>1, <1>4 DEF SimpleTaskOK
    <3> QED
      BY <1>2, <1>4, <3>1 DEF due, delay
  <2> QED
    BY <1>1, <1>3, <1>8, <2>1 DEF SimpleTaskOK
<1>12. IsOnItsWay(s, t) <=> IsOnItsWay(g, t)
  BY <1>8, <1>9, <1>10 DEF IsOnItsWay, k
<1>13. RunningOK(g, t)
  BY <1>1, <1>3, <1>8, <1>9, <1>10 DEF RunningOK, k
<1>14. SimpleOK(g)
  BY <1>9, <1>10, <1>11, <1>12, <1>13, OneSimpleTask
<1> QED
  BY <1>6, <1>14

(* TimerFires: the task is served again after its delay, or runs.             *)
LEMMA SimpleAgainOK ==
  ASSUME SimpleTasksAssumption, NEW s, SimpleOK(s), NEW t \in SimpleTaskIds, s.task[t].left = 0, s.task[t].delay # 0
  PROVE  SimpleOK(getExecuteTaskClosure(s, t))
<1> DEFINE k == s.task[t]
           delay == k.delay
           active == s.active + 1
           served == s.served + 1
           n == [k EXCEPT !.delay = 0, !.state = "added", !.time = delay, !.repetitive = FALSE, !.left = delay]
           task == [s.task EXCEPT ![t] = n]
           g == [s EXCEPT !.active = active, !.task = task, !.served = served]
<1>1. s \in SimpleState /\ SimpleTaskOK(k, s.now) /\ RunningOK(s, t)
  BY DEF SimpleOK
<1>2. s.task \in [SimpleTaskIds -> SimpleTask] /\ s.active \in Int /\ s.now \in Nat /\ s.served \in Nat
  BY <1>1, SimpleIs
<1>3. k \in SimpleTask /\ k.left = 0 /\ k.delay # 0
  BY <1>2
<1>4. k.delay \in Nat /\ k.due \in Nat /\ active \in Int /\ served \in Nat /\ delay \in Nat
  BY <1>2, <1>3, SimpleTaskIs
<1>5. getExecuteTaskClosure(s, t) = g
  <2> DEFINE m == [k EXCEPT !.delay = 0]
             f == [s EXCEPT !.task = [s.task EXCEPT ![t] = m]]
  <2>1. f = [s EXCEPT !.task[t].delay = 0]
    BY <1>1, <1>2 DEF SimpleState
  <2>2. getExecuteTaskClosure(s, t) = [addPackedTimedTask(f, t, delay, FALSE) EXCEPT !.served = @ + 1]
    BY <1>3, <2>1 DEF getExecuteTaskClosure
  <2>3. m \in SimpleTask
    BY <1>3 DEF SimpleTask
  <2>4. n = [m EXCEPT !.state = "added", !.time = delay, !.repetitive = FALSE, !.left = delay]
    BY <1>3 DEF SimpleTask
  <2> HIDE DEF m, n, delay, k
  <2>5. f.task[t] = m /\ f.active = s.active /\ [f.task EXCEPT ![t] = n] = task
    BY <1>1, <1>2 DEF SimpleState
  <2>6. f \in SimpleState
    BY <1>1, <1>2, <2>3 DEF SimpleState
  <2>7. [s EXCEPT !.active = active, !.task = task, !.served = served] = [f EXCEPT !.active = active, !.task = task, !.served = served]
    BY <1>1 DEF SimpleState
  <2>8. f.served = s.served
    BY <1>1 DEF SimpleState
  <2> HIDE DEF f, task
  <2>9. addPackedTimedTask(f, t, delay, FALSE) = [f EXCEPT !.active = active, !.task = task]
    <3>1. [f.task[t] EXCEPT !.state = "added", !.time = delay, !.repetitive = FALSE, !.left = delay] = n
      BY <2>4, <2>5
    <3>2. [f.task EXCEPT ![t] = [f.task[t] EXCEPT !.state = "added", !.time = delay, !.repetitive = FALSE, !.left = delay]] = task
      BY <2>5, <3>1
    <3> QED
      BY <2>5, <2>6, <3>2 DEF addPackedTimedTask, SimpleState
  <2> QED
    BY <2>2, <2>6, <2>7, <2>8, <2>9 DEF SimpleState
<1>6. ~k.repetitive
  BY <1>1, <1>3 DEF SimpleTaskOK
<1> HIDE DEF active, served, delay, k
<1>7. n \in SimpleTask
  BY <1>3, <1>4 DEF SimpleTask
<1>8. /\ n.state = "added" /\ n.repetitive = FALSE /\ n.left = delay /\ n.delay = 0 /\ n.due = k.due
      /\ n.runs = k.runs /\ n.early = k.early
  BY <1>3 DEF SimpleTask
<1> HIDE DEF n
<1>9. task \in [SimpleTaskIds -> SimpleTask] /\ task[t] = n /\ \A x \in SimpleTaskIds \ {t} : task[x] = s.task[x]
  BY <1>2, <1>7
<1> HIDE DEF task
<1>10. g \in SimpleState /\ g.task = task /\ g.active = active /\ g.running = s.running /\ g.now = s.now /\ g.served = served
  BY <1>1, <1>4, <1>9 DEF SimpleState
<1> HIDE DEF g
<1>11. delay # Unset /\ k.left # Unset
  BY <1>3, <1>4, UnsetIs
<1>12. k.due <= s.now + delay
  <2>1. k.due <= s.now + k.left + k.delay
    BY <1>1, <1>11 DEF SimpleTaskOK
  <2> QED
    BY <1>2, <1>3, <1>4, <2>1 DEF delay
<1>13. SimpleTaskOK(n, s.now)
  <2>1. n.due <= s.now + n.left + n.delay
    BY <1>2, <1>4, <1>8, <1>12
  <2> QED
    BY <1>1, <1>6, <1>8, <1>11, <2>1 DEF SimpleTaskOK
<1>14. IsOnItsWay(s, t) /\ IsOnItsWay(g, t)
  BY <1>8, <1>9, <1>10, <1>11 DEF IsOnItsWay, k
<1>15. s.running # t
  BY <1>1, <1>6, <1>11 DEF RunningOK, k
<1>16. RunningOK(g, t)
  BY <1>10, <1>15 DEF RunningOK
<1>17. g.active - g.served - 1 = s.active - s.served - 1
  BY <1>2, <1>10 DEF active, served
<1>18. SimpleOK(g)
  BY <1>9, <1>10, <1>13, <1>14, <1>16, <1>17, OneSimpleTask
<1> QED
  BY <1>5, <1>18

LEMMA SimpleRunOK ==
  ASSUME SimpleTasksAssumption, NEW s, SimpleOK(s), NEW t \in SimpleTaskIds, s.running = NoTask, s.task[t].left = 0, s.task[t].delay = 0
  PROVE  SimpleOK(getExecuteTaskClosure(s, t))
<1> DEFINE k == s.task[t]
           runs == k.runs + 1
           early == k.early \/ s.now < k.due
           left == IF k.repetitive THEN k.time ELSE Unset
           n == [k EXCEPT !.runs = runs, !.early = early, !.left = left]
           task == [s.task EXCEPT ![t] = n]
           g == [s EXCEPT !.running = t, !.task = task]
<1>1. s \in SimpleState /\ SimpleTaskOK(k, s.now)
  BY DEF SimpleOK
<1>2. s.task \in [SimpleTaskIds -> SimpleTask] /\ s.active \in Int /\ s.now \in Nat /\ s.served \in Nat
  BY <1>1, SimpleIs
<1>3. k \in SimpleTask /\ k.left = 0 /\ k.delay = 0
  BY <1>2
<1>4. k.runs \in Nat /\ k.due \in Nat /\ k.time \in Nat /\ k.repetitive \in BOOLEAN
  BY <1>3, SimpleTaskIs
<1>5. getExecuteTaskClosure(s, t) = g
  BY <1>1, <1>2, <1>3 DEF getExecuteTaskClosure, runTask, SimpleState, SimpleTask
<1>6. k.left # Unset
  BY <1>3, UnsetIs
<1>7. ~early
  <2>1. k.due <= s.now + k.left + k.delay /\ ~k.early
    BY <1>1, <1>6 DEF SimpleTaskOK
  <2>2. ~(s.now < k.due)
    BY <1>2, <1>3, <1>4, <2>1
  <2> QED
    BY <2>1, <2>2
<1>8. early \in BOOLEAN /\ left \in Nat \cup {Unset} /\ runs \in Nat
  BY <1>4, <1>7
<1>9. /\ k.repetitive => left \in Nat
      /\ ~k.repetitive => left = Unset /\ runs = 1
  <2>1. ~k.repetitive => k.runs = 0
    BY <1>1, <1>6 DEF SimpleTaskOK
  <2> QED
    BY <1>4, <2>1
<1> HIDE DEF runs, early, left, k
<1>10. n \in SimpleTask
  BY <1>3, <1>8 DEF SimpleTask
<1>11. /\ n.state = k.state /\ n.repetitive = k.repetitive /\ n.left = left /\ n.delay = k.delay /\ n.due = k.due
       /\ n.runs = runs /\ n.early = early
  BY <1>3 DEF SimpleTask
<1> HIDE DEF n
<1>12. task \in [SimpleTaskIds -> SimpleTask] /\ task[t] = n /\ \A x \in SimpleTaskIds \ {t} : task[x] = s.task[x]
  BY <1>2, <1>10
<1> HIDE DEF task
<1>13. g \in SimpleState /\ g.task = task /\ g.active = s.active /\ g.running = t /\ g.now = s.now /\ g.served = s.served
  BY <1>1, <1>12 DEF SimpleState
<1> HIDE DEF g
<1>14. k.state = "added" /\ (k.repetitive => k.due <= s.now + left + k.delay)
  <2>1. k.state = "added" /\ k.due <= s.now + k.left + k.delay
    BY <1>1, <1>6 DEF SimpleTaskOK
  <2>2. ASSUME k.repetitive
        PROVE  k.due <= s.now + left + k.delay
    <3>1. left \in Nat
      BY <1>9, <2>2
    <3> QED
      BY <1>2, <1>3, <1>4, <2>1, <3>1
  <2> QED
    BY <2>1, <2>2
<1>15. SimpleTaskOK(n, s.now)
  <2>1. n.left # Unset => n.state = "added" /\ n.due <= s.now + n.left + n.delay
    BY <1>4, <1>9, <1>11, <1>14
  <2>2. ~n.repetitive => n.left = Unset /\ n.runs = 1 /\ 1 <= 1
    BY <1>9, <1>11
  <2> QED
    BY <1>3, <1>7, <1>11, <1>14, <2>1, <2>2 DEF SimpleTaskOK
<1>16. IsOnItsWay(s, t) /\ IsOnItsWay(g, t)
  <2>1. IsOnItsWay(s, t)
    BY <1>6 DEF IsOnItsWay, k
  <2>2. k.repetitive => n.left # Unset
    BY <1>9, <1>11, UnsetIs
  <2> QED
    BY <1>11, <1>12, <1>13, <2>1, <2>2 DEF IsOnItsWay
<1>17. RunningOK(g, t)
  BY <1>9, <1>11, <1>12, <1>13, <1>14 DEF RunningOK
<1>18. \A x \in SimpleTaskIds \ {t} : g.task[x] = s.task[x] /\ (g.running = x <=> s.running = x)
  BY <1>12, <1>13 DEF SimpleTasksAssumption, NoTask
<1>19. SimpleOK(g)
  BY <1>12, <1>13, <1>15, <1>16, <1>17, <1>18, OneSimpleTask
<1> QED
  BY <1>5, <1>19

(* Returns                                                                    *)
LEMMA SimpleReturnOK ==
  ASSUME SimpleTasksAssumption, NEW s, NEW r, SimpleOK(s), s.running # NoTask,
         r = [s EXCEPT !.running = NoTask, !.active = IF s.task[s.running].repetitive THEN @ ELSE @ - 1]
  PROVE  SimpleOK(r)
<1> DEFINE t == s.running
           k == s.task[t]
           active == IF k.repetitive THEN s.active ELSE s.active - 1
           g == [s EXCEPT !.running = NoTask, !.active = active]
<1>1. s \in SimpleState /\ t \in SimpleTaskIds
  BY SimpleIs DEF SimpleOK
<1>2. s.task \in [SimpleTaskIds -> SimpleTask] /\ s.active \in Int /\ s.now \in Nat /\ s.served \in Nat
  BY <1>1, SimpleIs
<1>3. SimpleTaskOK(k, s.now) /\ RunningOK(s, t)
  BY <1>1 DEF SimpleOK
<1>4. ~k.repetitive => k.left = Unset
  BY <1>3 DEF RunningOK
<1>5. r = g
  OBVIOUS
<1>6. active \in Int
  BY <1>2
<1>7. /\ k.repetitive => active = s.active
      /\ ~k.repetitive => active = s.active - 1
  OBVIOUS
<1> HIDE DEF active
<1>8. g \in SimpleState /\ g.task = s.task /\ g.active = active /\ g.running = NoTask /\ g.now = s.now /\ g.served = s.served
  BY <1>1, <1>6 DEF SimpleState
<1>9. NoTask \notin SimpleTaskIds
  BY DEF SimpleTasksAssumption, NoTask
<1>10. \A x \in SimpleTaskIds \ {t} : g.task[x] = s.task[x] /\ (g.running = x <=> s.running = x)
  BY <1>8, <1>9
<1> HIDE DEF g
<1>11. RunningOK(g, t)
  BY <1>1, <1>8, <1>9 DEF RunningOK
<1>12. IsOnItsWay(g, t) <=> k.left # Unset
  BY <1>1, <1>8, <1>9 DEF IsOnItsWay
<1>13. IsOnItsWay(s, t) <=> k.left # Unset \/ ~k.repetitive
  BY DEF IsOnItsWay
<1>14. SimpleTaskOK(g.task[t], g.now)
  BY <1>3, <1>8
<1> HIDE DEF t, k
<1>15. g.active - g.served - (IF IsOnItsWay(g, t) THEN 1 ELSE 0) = s.active - s.served - IF IsOnItsWay(s, t) THEN 1 ELSE 0
  <2>1. CASE k.repetitive
    <3>1. (IsOnItsWay(g, t) <=> IsOnItsWay(s, t)) /\ g.active = s.active /\ g.served = s.served
      BY <1>7, <1>8, <1>12, <1>13, <2>1
    <3> QED
      BY <1>2, <3>1
  <2>2. CASE ~k.repetitive
    <3>1. ~IsOnItsWay(g, t) /\ IsOnItsWay(s, t) /\ g.active = s.active - 1 /\ g.served = s.served
      BY <1>4, <1>7, <1>8, <1>12, <1>13, <2>2
    <3> QED
      BY <1>2, <3>1
  <2> QED
    BY <2>1, <2>2
<1>16. SimpleOK(g)
  BY ONLY SimpleTasksAssumption, SimpleOK(s), <1>1, <1>8, <1>10, <1>11, <1>14, <1>15, OneSimpleTask
<1> QED
  BY <1>5, <1>16

(* TimePasses                                                                 *)
LEMMA SimplePassOK ==
  ASSUME SimpleTasksAssumption, NEW s, NEW r, SimpleOK(s),
         r = [s EXCEPT !.now = @ + 1,
                       !.task = [t \in SimpleTaskIds |-> LET k == s.task[t] IN IF k.left > 0 THEN [k EXCEPT !.left = @ - 1] ELSE k]]
  PROVE  SimpleOK(r)
<1> DEFINE now == s.now + 1
           Less(k) == [k EXCEPT !.left = k.left - 1]
           task == [t \in SimpleTaskIds |-> IF s.task[t].left > 0 THEN Less(s.task[t]) ELSE s.task[t]]
           g == [s EXCEPT !.now = now, !.task = task]
<1>1. s \in SimpleState
  BY DEF SimpleOK
<1>2. s.task \in [SimpleTaskIds -> SimpleTask] /\ s.active \in Int /\ s.now \in Nat /\ s.served \in Nat /\ now \in Nat
  BY <1>1, SimpleIs
<1>3. r = g
  OBVIOUS
<1>4. ASSUME NEW t \in SimpleTaskIds
      PROVE  /\ task[t] \in SimpleTask
             /\ task[t].left = Unset <=> s.task[t].left = Unset
             /\ task[t].repetitive = s.task[t].repetitive /\ task[t].state = s.task[t].state
             /\ SimpleTaskOK(task[t], now)
  <2> DEFINE k == s.task[t]
             left == k.left - 1
             n == [k EXCEPT !.left = left]
  <2>1. k \in SimpleTask /\ SimpleTaskOK(k, s.now) /\ s.now \in Nat /\ now = s.now + 1
    BY <1>2 DEF SimpleOK
  <2>2. task[t] = IF k.left > 0 THEN n ELSE k
    OBVIOUS
  <2> HIDE DEF k, now
  <2>3. k.left \in Nat \cup {Unset} /\ k.delay \in Nat /\ k.due \in Nat /\ k.runs \in Nat
    BY <2>1, SimpleTaskIs
  <2>4. CASE k.left > 0
    <3>1. left \in Nat /\ k.left \in Nat /\ left # Unset /\ k.left # Unset
      BY <2>3, <2>4, UnsetIs DEF Unset
    <3>2. left = k.left - 1
      OBVIOUS
    <3> HIDE DEF left
    <3>3. n \in SimpleTask
      BY <2>1, <3>1 DEF SimpleTask
    <3>4. /\ n.state = k.state /\ n.repetitive = k.repetitive /\ n.left = left /\ n.delay = k.delay /\ n.due = k.due
          /\ n.runs = k.runs /\ n.early = k.early
      BY <2>1 DEF SimpleTask
    <3> HIDE DEF n
    <3>5. k.due <= s.now + k.left + k.delay
      BY <2>1, <3>1 DEF SimpleTaskOK
    <3>6. n.due <= now + n.left + n.delay
      BY <2>1, <2>3, <3>1, <3>2, <3>4, <3>5
    <3>7. SimpleTaskOK(n, now)
      BY <2>1, <3>1, <3>4, <3>6 DEF SimpleTaskOK
    <3>8. task[t] = n
      BY <2>2, <2>4
    <3> QED
      BY <3>1, <3>3, <3>4, <3>7, <3>8 DEF k
  <2>5. CASE ~(k.left > 0)
    <3>1. k.left # Unset => k.due <= now + k.left + k.delay
      <4> SUFFICES ASSUME k.left # Unset
                   PROVE  k.due <= now + k.left + k.delay
        OBVIOUS
      <4>1. k.left \in Nat /\ k.due <= s.now + k.left + k.delay
        BY <2>1, <2>3 DEF SimpleTaskOK
      <4> QED
        BY <2>1, <2>3, <4>1
    <3>2. SimpleTaskOK(k, now)
      BY <2>1, <3>1 DEF SimpleTaskOK
    <3>3. task[t] = k
      BY <2>2, <2>5
    <3> QED
      BY <2>1, <3>2, <3>3 DEF k
  <2> QED
    BY <2>4, <2>5
<1>5. task \in [SimpleTaskIds -> SimpleTask]
  BY <1>4
<1> HIDE DEF task, now
<1>6. g \in SimpleState /\ g.task = task /\ g.active = s.active /\ g.running = s.running /\ g.now = now /\ g.served = s.served
  BY <1>1, <1>2, <1>5 DEF SimpleState
<1> HIDE DEF g
<1>7. OnTheirWay(g) = OnTheirWay(s)
  BY <1>4, <1>6 DEF OnTheirWay
<1>8. \A t \in SimpleTaskIds : SimpleTaskOK(g.task[t], g.now) /\ RunningOK(g, t)
  BY <1>4, <1>6 DEF SimpleOK, RunningOK
<1>9. SimpleOK(g)
  BY <1>6, <1>7, <1>8 DEF SimpleOK
<1> QED
  BY <1>3, <1>9
-----------------------------------------------------------------------------
LEMMA SimpleInitOK ==
  ASSUME SimpleTasksAssumption, SimpleTasksInit
  PROVE  SimpleOK(simple)
<1> DEFINE k == packTask
           task == [t \in SimpleTaskIds |-> k]
<1>1. k \in SimpleTask
  BY DEF packTask, SimpleTask
<1>2. k.state = "packed" /\ ~k.repetitive /\ k.delay = 0 /\ k.left = Unset /\ k.runs = 0 /\ ~k.early
  BY DEF packTask
<1> HIDE DEF k
<1>3. task \in [SimpleTaskIds -> SimpleTask] /\ \A t \in SimpleTaskIds : task[t] = k
  BY <1>1
<1>4. simple = [task |-> task, active |-> 0, running |-> NoTask, served |-> 0, now |-> 0]
  BY DEF SimpleTasksInit, k
<1> HIDE DEF task
<1>5. simple \in SimpleState
  BY <1>3, <1>4 DEF SimpleState
<1>6. simple.task = task /\ simple.active = 0 /\ simple.running = NoTask /\ simple.served = 0 /\ simple.now = 0
  BY <1>4
<1>7. NoTask \notin SimpleTaskIds
  BY DEF SimpleTasksAssumption, NoTask
<1>8. OnTheirWay(simple) = {}
  BY <1>2, <1>3, <1>6, <1>7 DEF OnTheirWay
<1>9. Cardinality({}) = 0 /\ 0 <= 1
  BY FS_EmptySet
<1>10. \A t \in SimpleTaskIds : SimpleTaskOK(simple.task[t], simple.now) /\ RunningOK(simple, t)
  BY <1>2, <1>3, <1>6, <1>7, <1>9 DEF SimpleTaskOK, RunningOK
<1> QED
  BY <1>5, <1>6, <1>8, <1>9, <1>10 DEF SimpleOK

LEMMA SimpleStepOK ==
  ASSUME SimpleTasksAssumption, SimpleOK(simple), SimpleTasksNext, "stops_again" \in SimpleAvoided
  PROVE  SimpleOK(simple')
<1>1. ASSUME NEW t \in SimpleTaskIds, StopTask(t)
      PROVE  SimpleOK(simple')
  BY <1>1, SimpleStopOK DEF StopTask
<1>2. ASSUME NEW t \in SimpleTaskIds, TimerFires(t)
      PROVE  SimpleOK(simple')
  <2>1. simple.running = NoTask /\ simple.task[t].left = 0 /\ simple' = getExecuteTaskClosure(simple, t)
    BY <1>2 DEF TimerFires
  <2>2. CASE simple.task[t].delay # 0
    BY <2>1, <2>2, SimpleAgainOK
  <2>3. CASE simple.task[t].delay = 0
    BY <2>1, <2>3, SimpleRunOK
  <2> QED
    BY <2>2, <2>3
<1>3. ASSUME NEW t \in SimpleTaskIds, NEW time \in TaskTimes, delayTask(t, time)
      PROVE  SimpleOK(simple')
  <2>1. /\ simple.task[t].state = "added" /\ ~simple.task[t].repetitive
        /\ simple' = [simple EXCEPT !.task[t] = [simple.task[t] EXCEPT !.delay = @ + time, !.due = @ + time]]
    BY <1>3 DEF delayTask
  <2> QED
    BY <2>1, SimpleDelayOK
<1>4. ASSUME NEW t \in SimpleTaskIds, NEW time \in TaskTimes, NEW repetitive \in BOOLEAN, addTask(t, time, repetitive)
      PROVE  SimpleOK(simple')
  <2>1. /\ simple.task[t].state = "packed"
        /\ simple' = [addPackedTimedTask(simple, t, time, repetitive) EXCEPT !.task[t].due = simple.now + time]
    BY <1>4 DEF addTask
  <2> QED
    BY <2>1, SimpleAddOK
<1>5. CASE Returns
  BY <1>5, SimpleReturnOK DEF Returns
<1>6. CASE TimePasses
  BY <1>6, SimplePassOK DEF TimePasses
<1> QED
  BY <1>1, <1>2, <1>3, <1>4, <1>5, <1>6 DEF SimpleTasksNext

LEMMA SimpleHolds ==
  ASSUME SimpleOK(simple)
  PROVE  SimpleTasksInTime
<1>1. ASSUME NEW t \in SimpleTaskIds
      PROVE  LET k == simple.task[t] IN
             /\ ~k.early
             /\ k.runs > 1 => k.repetitive
             /\ k.left = Unset /\ k.state = "added" /\ ~k.repetitive => k.runs = 1
  <2> DEFINE k == simple.task[t]
  <2>1. SimpleTaskOK(k, simple.now) /\ k \in SimpleTask
    BY SimpleIs DEF SimpleOK
  <2> HIDE DEF k
  <2>2. k.runs \in Nat
    BY <2>1, SimpleTaskIs
  <2>3. k.runs > 1 => ~(k.runs <= 1)
    BY <2>2
  <2> SUFFICES /\ ~k.early
               /\ k.runs > 1 => k.repetitive
               /\ k.left = Unset /\ k.state = "added" /\ ~k.repetitive => k.runs = 1
    BY DEF k
  <2> QED
    BY <2>1, <2>3 DEF SimpleTaskOK
<1> QED
  BY <1>1 DEF SimpleTasksInTime, getQueueLength, SimpleOK

-----------------------------------------------------------------------------
(* What happens to the parts with callbacks, each of which is the only one    *)
(* that its steps change.                                                     *)
CallbacksOK ==
    /\ part = "events" => EventsOK(events)
    /\ part = "page" => PageOK(page)
    /\ part = "ticks" => TicksOK(ticks)
    /\ part = "simple" => SimpleOK(simple)
CallbacksHypotheses ==
    /\ "removal_while_dispatched" \in EventsAvoided
    /\ {"adding_before_unload", "removing_while_told"} \subseteq PageAvoided
    /\ "post_fails" \in TicksAvoided
    /\ "stops_again" \in SimpleAvoided

LEMMA CallbacksInitOK ==
  ASSUME PartsInit, CallbacksHypotheses
  PROVE  CallbacksOK
<1>1. ASSUME part = "events"
      PROVE  EventsOK(events)
  <2>1. EventsInit
    BY <1>1 DEF PartsInit
  <2>2. PICK synch \in Synchs : events = InitialEvents(synch)
    BY <2>1 DEF EventsInit
  <2>3. synch \in BOOLEAN
    BY EventsAssumption DEF EventsAssumption
  <2> QED
    BY <2>2, <2>3, InitialOK
<1>2. ASSUME part = "page"
      PROVE  PageOK(page)
  <2>1. PageInit
    BY <1>2 DEF PartsInit
  <2> QED
    BY <2>1, PageInitOK
<1>3. ASSUME part = "ticks"
      PROVE  TicksOK(ticks)
  <2>1. TicksInit
    BY <1>3 DEF PartsInit
  <2> QED
    BY <2>1, TicksInitOK DEF CallbacksHypotheses
<1>4. ASSUME part = "simple"
      PROVE  SimpleOK(simple)
  <2>1. SimpleTasksInit
    BY <1>4 DEF PartsInit
  <2> QED
    BY <2>1, SimpleInitOK, SimpleTasksAssumption
<1> QED
  BY <1>1, <1>2, <1>3, <1>4 DEF CallbacksOK

LEMMA CallbacksStepsOK ==
  ASSUME CallbacksOK, [PartsNext]_vars, CallbacksHypotheses
  PROVE  CallbacksOK'
<1>1. CASE EventsStep
  <2>1. part = "events" /\ part' = part /\ EventsNext
    BY <1>1 DEF EventsStep
  <2>2. EventsOK(events')
    BY <2>1, EventsStepOK, EventsAssumption DEF CallbacksOK, CallbacksHypotheses
  <2> QED
    BY <2>1, <2>2 DEF CallbacksOK
<1>2. CASE PageStep
  <2>1. part = "page" /\ part' = part /\ PageNext
    BY <1>2 DEF PageStep
  <2>2. PageOK(page')
    BY <2>1, PageStepOK DEF CallbacksOK, CallbacksHypotheses
  <2> QED
    BY <2>1, <2>2 DEF CallbacksOK
<1>3. CASE TicksStep
  <2>1. part = "ticks" /\ part' = part /\ TicksNext
    BY <1>3 DEF TicksStep, partVars
  <2>2. TicksOK(ticks')
    BY <2>1, TicksStepOK DEF CallbacksOK, CallbacksHypotheses
  <2> QED
    BY <2>1, <2>2 DEF CallbacksOK
<1>4. CASE SimpleStep
  <2>1. part = "simple" /\ part' = part /\ SimpleTasksNext
    BY <1>4 DEF SimpleStep, partVars
  <2>2. SimpleOK(simple')
    BY <2>1, SimpleStepOK, SimpleTasksAssumption DEF CallbacksOK, CallbacksHypotheses
  <2> QED
    BY <2>1, <2>2 DEF CallbacksOK
<1>5. CASE UNCHANGED <<part, events, page, ticks, simple>>
  BY <1>5 DEF CallbacksOK
<1>6. CASE UNCHANGED vars
  BY <1>5, <1>6 DEF vars, partVars, toolVars
<1>7. CASE PartsNext /\ ~EventsStep /\ ~PageStep /\ ~TicksStep /\ ~SimpleStep
  BY <1>5, <1>7 DEF PartsNext, partVars, toolVars, ChartStep, CellsStep, LogsStep, StatusStep, ListeningStep, ScanStep,
     CollectionsStep, DelaysStep, BrowserStep, ColoursStep, NodesStep, ContentsStep, ClassesStep, LinesStep, DrawingStep,
     CookiesStep, SettingsStep
<1> QED
  BY <1>1, <1>2, <1>3, <1>4, <1>6, <1>7

(* CallbacksRunOnce: each listener is told all it should, in order and once,  *)
(* by calls at once or by tasks; objects are dismissed when nobody uses them; *)
(* repetitive tasks are repeated until they are stopped; tasks run in the     *)
(* order of their times; a handler of the life of the page runs as often as   *)
(* it was added; urgent tasks have a tick on its way; and the executor with a *)
(* timer for each task is never early. It is so for any number of listeners,  *)
(* users, handlers, tasks and calls, but for what the hypotheses avoid, of    *)
(* which it is not so.                                                        *)
THEOREM CallbacksOnce ==
  ASSUME CallbacksHypotheses
  PROVE  Spec => []CallbacksRunOnce
<1>1. PartsInit => CallbacksOK
  BY CallbacksInitOK
<1>2. CallbacksOK /\ [PartsNext]_vars => CallbacksOK'
  BY CallbacksStepsOK
<1>3. CallbacksOK => CallbacksRunOnce
  BY EventsHold, PageHolds, TicksHold, SimpleHolds DEF CallbacksOK, CallbacksRunOnce
<1> QED
  BY <1>1, <1>2, <1>3, PTL DEF Spec
=============================================================================
