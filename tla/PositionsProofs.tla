--------------------------- MODULE PositionsProofs ---------------------------
(* Facts about the elements picked from a sequence (Positions).               *)
EXTENDS Positions, FiniteSetTheorems, SequenceTheorems, TLAPS

(* The positions up to one of them are finitely many, and it is one of them.  *)
LEMMA UpTo ==
  ASSUME NEW P \in SUBSET Nat, IsFiniteSet(P), NEW i \in P
  PROVE  /\ IsFiniteSet({h \in P : h <= i})
         /\ PlaceIn(P, i) \in 1..Cardinality(P)
<1> DEFINE U == {h \in P : h <= i}
<1>1. U \in SUBSET P /\ i \in U
  OBVIOUS
<1>2. IsFiniteSet(U) /\ Cardinality(U) <= Cardinality(P)
  BY <1>1, FS_Subset
<1>3. Cardinality(U) # 0
  BY <1>1, <1>2, FS_EmptySet
<1>4. Cardinality(U) \in Nat /\ Cardinality(P) \in Nat
  BY <1>2, FS_CardinalityType
<1> QED
  BY <1>2, <1>3, <1>4 DEF PlaceIn

(* Of two positions the later one has the greater rank.                       *)
LEMMA RankGrows ==
  ASSUME NEW P \in SUBSET Nat, IsFiniteSet(P), NEW i \in P, NEW j \in P, i < j
  PROVE  PlaceIn(P, i) < PlaceIn(P, j)
<1> DEFINE U == {h \in P : h <= i}
           W == {h \in P : h <= j}
<1>1. IsFiniteSet(U) /\ IsFiniteSet(W) /\ U \in SUBSET W
  <2>1. IsFiniteSet(U)
    BY UpTo
  <2>2. IsFiniteSet(W)
    BY UpTo
  <2>3. ASSUME NEW h \in P, h <= i
        PROVE  h <= j
    BY <2>3
  <2>4. U \in SUBSET W
    BY <2>3
  <2> QED
    BY <2>1, <2>2, <2>4
<1>2. j \in W /\ j \notin U
  OBVIOUS
<1>3. Cardinality(U) <= Cardinality(W) /\ Cardinality(U) # Cardinality(W)
  BY <1>1, <1>2, FS_Subset
<1>4. Cardinality(U) \in Nat /\ Cardinality(W) \in Nat
  BY <1>1, FS_CardinalityType
<1> QED
  BY <1>3, <1>4 DEF PlaceIn

(* Two positions of one rank are one.                                         *)
LEMMA RankSeparates ==
  ASSUME NEW P \in SUBSET Nat, IsFiniteSet(P)
  PROVE  \A i, j \in P : PlaceIn(P, i) = PlaceIn(P, j) => i = j
<1> SUFFICES ASSUME NEW i \in P, NEW j \in P, PlaceIn(P, i) = PlaceIn(P, j)
             PROVE  i = j
  OBVIOUS
<1> DEFINE D == 1..Cardinality(P)
<1>1. PlaceIn(P, i) \in D /\ PlaceIn(P, j) \in D
  BY UpTo
<1>2. D \subseteq Int
  BY FS_CardinalityType
<1> HIDE DEF D
<1>3. PlaceIn(P, i) \in Int /\ PlaceIn(P, j) \in Int
  BY <1>1, <1>2
<1>4. ~(i < j)
  BY <1>3, RankGrows
<1>5. ~(j < i)
  BY <1>3, RankGrows
<1> QED
  BY <1>4, <1>5

(* Each rank is that of a position.                                           *)
LEMMA RankIsOnto ==
  ASSUME NEW P \in SUBSET Nat, IsFiniteSet(P), NEW r \in 1..Cardinality(P)
  PROVE  \E i \in P : PlaceIn(P, i) = r
<1> DEFINE D == 1..Cardinality(P)
           f == [i \in P |-> PlaceIn(P, i)]
<1>1. Cardinality(P) \in Nat
  BY FS_CardinalityType
<1>2. f \in Injection(P, D)
  <2>1. f \in [P -> D]
    BY UpTo
  <2>2. ASSUME NEW i \in P, NEW j \in P, f[i] = f[j]
        PROVE  i = j
    BY <2>2, RankSeparates
  <2> QED
    BY <2>1, <2>2 DEF Injection, IsInjective
<1>3. IsFiniteSet(D) /\ Cardinality(D) = Cardinality(P)
  BY <1>1, FS_Interval
<1>4. f \in Surjection(P, D)
  BY <1>2, <1>3, FS_Injection
<1> QED
  BY <1>4 DEF Surjection

(* The position of a rank and the rank of a position.                         *)
LEMMA NthIs ==
  ASSUME NEW P \in SUBSET Nat, IsFiniteSet(P)
  PROVE  /\ Cardinality(P) \in Nat
         /\ \A r \in 1..Cardinality(P) : Nth(P, r) \in P /\ PlaceIn(P, Nth(P, r)) = r
         /\ \A i \in P : PlaceIn(P, i) \in 1..Cardinality(P) /\ Nth(P, PlaceIn(P, i)) = i
<1>1. Cardinality(P) \in Nat
  BY FS_CardinalityType
<1>2. ASSUME NEW r \in 1..Cardinality(P)
      PROVE  Nth(P, r) \in P /\ PlaceIn(P, Nth(P, r)) = r
  BY RankIsOnto DEF Nth
<1>3. ASSUME NEW i \in P
      PROVE  PlaceIn(P, i) \in 1..Cardinality(P) /\ Nth(P, PlaceIn(P, i)) = i
  <2>1. PlaceIn(P, i) \in 1..Cardinality(P)
    BY UpTo
  <2>2. Nth(P, PlaceIn(P, i)) \in P /\ PlaceIn(P, Nth(P, PlaceIn(P, i))) = PlaceIn(P, i)
    BY <1>2, <2>1
  <2>3. \A h, j \in P : PlaceIn(P, h) = PlaceIn(P, j) => h = j
    BY RankSeparates
  <2>4. Nth(P, PlaceIn(P, i)) = i
    BY <2>2, <2>3, Zenon
  <2> QED
    BY <2>1, <2>4
<1> QED
  BY <1>1, <1>2, <1>3

(* What is picked has an element for each position.                           *)
LEMMA PickIs ==
  ASSUME NEW P \in SUBSET Nat, IsFiniteSet(P), NEW T, NEW s, \A i \in P : s[i] \in T
  PROVE  /\ Pick(s, P) \in Seq(T)
         /\ Len(Pick(s, P)) = Cardinality(P)
         /\ \A r \in 1..Cardinality(P) : Pick(s, P)[r] = s[Nth(P, r)]
<1> DEFINE n == Cardinality(P)
<1>1. n \in Nat /\ \A r \in 1..n : Nth(P, r) \in P
  BY NthIs
<1>2. Pick(s, P) \in [1..n -> T] /\ \A r \in 1..n : Pick(s, P)[r] = s[Nth(P, r)]
  BY <1>1 DEF Pick
<1> HIDE DEF n
<1>3. Pick(s, P) \in Seq(T) /\ Len(Pick(s, P)) = n
  BY <1>1, <1>2
<1> QED
  BY <1>2, <1>3 DEF n

(* Sequences that are equal at these positions.                               *)
LEMMA PickSame ==
  ASSUME NEW P \in SUBSET Nat, IsFiniteSet(P), NEW s, NEW t, \A i \in P : s[i] = t[i]
  PROVE  Pick(s, P) = Pick(t, P)
<1>1. \A r \in 1..Cardinality(P) : Nth(P, r) \in P
  BY NthIs
<1> QED
  BY <1>1 DEF Pick

(* A position after all the others is the last one.                           *)
LEMMA RankOfLast ==
  ASSUME NEW P \in SUBSET Nat, IsFiniteSet(P), NEW i \in Nat, \A h \in P : h < i
  PROVE  /\ IsFiniteSet(P \cup {i})
         /\ Cardinality(P \cup {i}) = Cardinality(P) + 1
         /\ \A r \in 1..Cardinality(P) : Nth(P \cup {i}, r) = Nth(P, r)
         /\ Nth(P \cup {i}, Cardinality(P) + 1) = i
<1> DEFINE Q == P \cup {i}
<1>1. i \notin P
  OBVIOUS
<1>2. IsFiniteSet(Q) /\ Cardinality(Q) = Cardinality(P) + 1
  BY <1>1, FS_AddElement
<1>3. ASSUME NEW h \in P
      PROVE  PlaceIn(Q, h) = PlaceIn(P, h)
  <2>1. {j \in Q : j <= h} = {j \in P : j <= h}
    OBVIOUS
  <2> QED
    BY <2>1 DEF PlaceIn
<1>4. PlaceIn(Q, i) = Cardinality(P) + 1
  <2>0. \A j \in Q : j <= i
    OBVIOUS
  <2>1. {j \in Q : j <= i} = Q
    BY <2>0, Zenon
  <2> QED
    BY <2>1, <1>2 DEF PlaceIn
<1>5. Q \in SUBSET Nat
  OBVIOUS
<1>6. \A j \in Q : Nth(Q, PlaceIn(Q, j)) = j
  BY <1>2, <1>5, NthIs
<1>7. ASSUME NEW r \in 1..Cardinality(P)
      PROVE  Nth(Q, r) = Nth(P, r)
  <2>1. Nth(P, r) \in P /\ PlaceIn(P, Nth(P, r)) = r
    BY NthIs
  <2> QED
    BY <2>1, <1>3, <1>6
<1>8. Nth(Q, Cardinality(P) + 1) = i
  BY <1>4, <1>6
<1> QED
  BY <1>2, <1>7, <1>8

(* It is picked last.                                                         *)
LEMMA PickMore ==
  ASSUME NEW P \in SUBSET Nat, IsFiniteSet(P), NEW i \in Nat, \A h \in P : h < i, NEW s
  PROVE  Pick(s, P \cup {i}) = Append(Pick(s, P), s[i])
<1> DEFINE n == Cardinality(P)
<1>1. n \in Nat
  BY NthIs
<1>2. /\ Cardinality(P \cup {i}) = n + 1
      /\ \A r \in 1..n : Nth(P \cup {i}, r) = Nth(P, r)
      /\ Nth(P \cup {i}, n + 1) = i
  BY RankOfLast
<1>3. Pick(s, P \cup {i}) = [r \in 1..n + 1 |-> IF r = n + 1 THEN s[i] ELSE s[Nth(P, r)]]
  BY <1>1, <1>2 DEF Pick
<1>4. Append([r \in 1..n |-> s[Nth(P, r)]], s[i])
        = [r \in 1..n + 1 |-> IF r = n + 1 THEN s[i] ELSE s[Nth(P, r)]]
  BY <1>1
<1> QED
  BY <1>3, <1>4 DEF Pick

(* The first position is before all the others.                               *)
LEMMA NthFirst ==
  ASSUME NEW P \in SUBSET Nat, IsFiniteSet(P), P # {}
  PROVE  1 \in 1..Cardinality(P) /\ Nth(P, 1) \in P /\ \A h \in P : Nth(P, 1) <= h
<1>1. Cardinality(P) \in Nat /\ Cardinality(P) # 0
  BY NthIs, FS_EmptySet
<1>2. 1 \in 1..Cardinality(P)
  BY <1>1
<1>3. Nth(P, 1) \in P /\ PlaceIn(P, Nth(P, 1)) = 1
  BY <1>2, NthIs
<1>4. ASSUME NEW h \in P, NEW m \in P, PlaceIn(P, m) = 1
      PROVE  m <= h
  <2>1. PlaceIn(P, h) \in 1..Cardinality(P)
    BY UpTo
  <2>2. CASE h < m
    <3>1. PlaceIn(P, h) < PlaceIn(P, m)
      BY <2>2, RankGrows
    <3> QED
      BY <3>1, <2>1, <1>1, <1>4
  <2> QED
    BY <2>2
<1> QED
  BY <1>2, <1>3, <1>4

(* Without the first position, the others are one place nearer.               *)
LEMMA RankOfRest ==
  ASSUME NEW P \in SUBSET Nat, IsFiniteSet(P), P # {}
  PROVE  /\ IsFiniteSet(P \ {Nth(P, 1)})
         /\ Cardinality(P \ {Nth(P, 1)}) = Cardinality(P) - 1
         /\ \A r \in 1..(Cardinality(P) - 1) : Nth(P \ {Nth(P, 1)}, r) = Nth(P, r + 1)
<1> DEFINE m == Nth(P, 1)
           Q == P \ {m}
<1>1. m \in P /\ (\A h \in P : m <= h) /\ Cardinality(P) \in Nat
  BY NthFirst, NthIs
<1> HIDE DEF m
<1>2. IsFiniteSet(Q) /\ Cardinality(Q) = Cardinality(P) - 1
  BY <1>1, FS_RemoveElement
<1>3. ASSUME NEW h \in Q
      PROVE  PlaceIn(Q, h) = PlaceIn(P, h) - 1
  <2> DEFINE U == {j \in P : j <= h}
  <2>1. {j \in Q : j <= h} = U \ {m}
    OBVIOUS
  <2>2. IsFiniteSet(U)
    BY UpTo
  <2>3. m \in U
    BY <1>1
  <2> HIDE DEF U
  <2>4. Cardinality(U \ {m}) = Cardinality(U) - 1
    BY <2>2, <2>3, FS_RemoveElement
  <2> USE DEF U
  <2> QED
    BY <2>1, <2>4 DEF PlaceIn
<1>4. Q \in SUBSET Nat
  OBVIOUS
<1>5. \A j \in Q : Nth(Q, PlaceIn(Q, j)) = j
  BY <1>2, <1>4, NthIs
<1>6. ASSUME NEW r \in 1..(Cardinality(P) - 1)
      PROVE  Nth(Q, r) = Nth(P, r + 1)
  <2>1. r + 1 \in 1..Cardinality(P) /\ 1 \in 1..Cardinality(P) /\ r + 1 # 1
    BY <1>1
  <2>2. Nth(P, r + 1) \in P /\ PlaceIn(P, Nth(P, r + 1)) = r + 1 /\ PlaceIn(P, m) = 1
    BY <2>1, NthIs DEF m
  <2>3. Nth(P, r + 1) \in Q
    BY <2>1, <2>2
  <2>4. PlaceIn(Q, Nth(P, r + 1)) = PlaceIn(P, Nth(P, r + 1)) - 1
    BY <1>3, <2>3
  <2>5. PlaceIn(Q, Nth(P, r + 1)) = r
    BY <2>2, <2>4, <1>1
  <2> QED
    BY <2>3, <2>5, <1>5
<1> QED
  BY <1>2, <1>6 DEF m

(* They are picked without the first element.                                 *)
LEMMA PickRest ==
  ASSUME NEW P \in SUBSET Nat, IsFiniteSet(P), P # {}, NEW T, NEW s, \A i \in P : s[i] \in T
  PROVE  /\ Pick(s, P \ {Nth(P, 1)}) = Tail(Pick(s, P))
         /\ Pick(s, P) # <<>>
         /\ Head(Pick(s, P)) = s[Nth(P, 1)]
<1> DEFINE n == Cardinality(P)
<1>1. n \in Nat /\ 1 \in 1..n
  BY NthIs, NthFirst
<1>2. Pick(s, P) \in Seq(T) /\ Len(Pick(s, P)) = n /\ \A r \in 1..n : Pick(s, P)[r] = s[Nth(P, r)]
  BY PickIs
<1>3. Pick(s, P) # <<>>
  BY <1>1, <1>2
<1>4. /\ Tail(Pick(s, P)) \in Seq(T) /\ Len(Tail(Pick(s, P))) = n - 1
      /\ \A r \in 1..(n - 1) : Tail(Pick(s, P))[r] = Pick(s, P)[r + 1]
  BY <1>2, <1>3, HeadTailProperties
<1> DEFINE Q == P \ {Nth(P, 1)}
<1>5. /\ IsFiniteSet(Q) /\ Cardinality(Q) = n - 1
      /\ \A r \in 1..(n - 1) : Nth(Q, r) = Nth(P, r + 1)
  BY RankOfRest
<1>6. /\ Pick(s, Q) \in Seq(T) /\ Len(Pick(s, Q)) = n - 1
      /\ \A r \in 1..(n - 1) : Pick(s, Q)[r] = s[Nth(Q, r)]
  <2>1. Q \in SUBSET Nat /\ \A i \in Q : s[i] \in T
    OBVIOUS
  <2> HIDE DEF Q
  <2>2. /\ Pick(s, Q) \in Seq(T) /\ Len(Pick(s, Q)) = Cardinality(Q)
        /\ \A r \in 1..Cardinality(Q) : Pick(s, Q)[r] = s[Nth(Q, r)]
    BY <2>1, <1>5, PickIs
  <2> QED
    BY <2>2, <1>5
<1>7. ASSUME NEW r \in 1..(n - 1)
      PROVE  Pick(s, Q)[r] = Tail(Pick(s, P))[r]
  <2>1. r + 1 \in 1..n
    BY <1>1
  <2>2. Pick(s, P)[r + 1] = s[Nth(P, r + 1)]
    BY <2>1, <1>2
  <2> QED
    BY <2>2, <1>4, <1>5, <1>6
<1>8. Pick(s, Q) = Tail(Pick(s, P))
  BY <1>4, <1>6, <1>7, SeqEqual
<1>9. Head(Pick(s, P)) = s[Nth(P, 1)]
  BY <1>1, <1>2, <1>3
<1> QED
  BY <1>3, <1>8, <1>9

(* Picking among what was picked is picking at once.                          *)
LEMMA PickAgain ==
  ASSUME NEW P \in SUBSET Nat, IsFiniteSet(P), NEW Q \in SUBSET P, NEW s
  PROVE  LET R == {r \in 1..Cardinality(P) : Nth(P, r) \in Q}
         IN /\ IsFiniteSet(R) /\ Cardinality(R) = Cardinality(Q)
            /\ Pick(Pick(s, P), R) = Pick(s, Q)
<1> DEFINE n == Cardinality(P)
           R == {r \in 1..n : Nth(P, r) \in Q}
<1>1. n \in Nat
  BY NthIs
<1>2. IsFiniteSet(Q) /\ Q \in SUBSET Nat
  BY FS_Subset
<1>3. \A q \in Q : PlaceIn(P, q) \in R /\ Nth(P, PlaceIn(P, q)) = q
  BY NthIs
<1>4. \A r \in R : Nth(P, r) \in Q /\ PlaceIn(P, Nth(P, r)) = r
  BY NthIs
<1>5. R \in SUBSET Nat
  BY <1>1
<1>6. IsFiniteSet(R)
  <2>1. IsFiniteSet(1..n)
    BY <1>1, FS_Interval
  <2> QED
    BY <2>1, FS_Subset
<1> HIDE DEF R
<1>7. ASSUME NEW A \in SUBSET Q, NEW B \in SUBSET R, \A r \in R : r \in B <=> Nth(P, r) \in A
      PROVE  Cardinality(B) = Cardinality(A)
  <2> DEFINE f == [q \in A |-> PlaceIn(P, q)]
  <2>1. f \in [A -> B]
    BY <1>3, <1>7
  <2>2. \A a, b \in A : f[a] = f[b] => a = b
    BY <1>3
  <2>3. \A r \in B : \E q \in A : f[q] = r
    <3> SUFFICES ASSUME NEW r \in B
                 PROVE  \E q \in A : f[q] = r
      OBVIOUS
    <3>1. Nth(P, r) \in A /\ f[Nth(P, r)] = r
      BY <1>4, <1>7
    <3> QED
      BY <3>1
  <2>4. f \in Bijection(A, B)
    BY <2>1, <2>2, <2>3 DEF Bijection, Injection, Surjection, IsInjective
  <2>5. IsFiniteSet(A)
    BY <1>2, FS_Subset
  <2> QED
    BY <2>4, <2>5, FS_Bijection DEF ExistsBijection
<1>8. Cardinality(R) = Cardinality(Q)
  BY <1>4, <1>7
<1>9. ASSUME NEW q \in Q
      PROVE  PlaceIn(R, PlaceIn(P, q)) = PlaceIn(Q, q)
  <2> DEFINE A == {h \in Q : h <= q}
             B == {r \in R : r <= PlaceIn(P, q)}
  <2>1. ASSUME NEW r \in R
        PROVE  r \in B <=> Nth(P, r) \in A
    <3>1. Nth(P, r) \in Q /\ PlaceIn(P, Nth(P, r)) = r /\ PlaceIn(P, q) \in Nat /\ r \in Nat /\ Nth(P, r) \in Nat /\ q \in Nat
      BY <1>2, <1>3, <1>4, <1>5
    <3>2. CASE Nth(P, r) < q
      BY <3>1, <3>2, RankGrows
    <3>3. CASE Nth(P, r) = q
      BY <3>1, <3>3
    <3>4. CASE q < Nth(P, r)
      BY <3>1, <3>4, RankGrows
    <3> QED
      BY <3>1, <3>2, <3>3, <3>4
  <2>2. A \in SUBSET Q /\ B \in SUBSET R
    OBVIOUS
  <2> HIDE DEF A, B
  <2>3. Cardinality(B) = Cardinality(A)
    BY <2>1, <2>2, <1>7
  <2> QED
    BY <2>3 DEF PlaceIn, A, B
<1>10. ASSUME NEW t \in 1..Cardinality(Q)
       PROVE  Nth(R, t) = PlaceIn(P, Nth(Q, t))
  <2>1. Nth(Q, t) \in Q /\ PlaceIn(Q, Nth(Q, t)) = t
    BY <1>2, NthIs
  <2>2. PlaceIn(P, Nth(Q, t)) \in R /\ PlaceIn(R, PlaceIn(P, Nth(Q, t))) = t
    BY <2>1, <1>3, <1>9
  <2>3. \A r \in R : Nth(R, PlaceIn(R, r)) = r
    BY <1>5, <1>6, NthIs
  <2> QED
    BY <2>2, <2>3
<1>11. ASSUME NEW t \in 1..Cardinality(Q)
       PROVE  Pick(s, P)[Nth(R, t)] = s[Nth(Q, t)]
  <2>1. Nth(Q, t) \in Q
    BY <1>2, NthIs
  <2>2. PlaceIn(P, Nth(Q, t)) \in 1..n /\ Nth(P, PlaceIn(P, Nth(Q, t))) = Nth(Q, t)
    BY <2>1, NthIs
  <2> QED
    BY <2>2, <1>10 DEF Pick
<1>12. Pick(Pick(s, P), R) = Pick(s, Q)
  BY <1>8, <1>11 DEF Pick
<1> QED
  BY <1>6, <1>8, <1>12 DEF R

LEMMA CountTo ==
  ASSUME NEW n \in Nat
  PROVE  IsFiniteSet(1..n) /\ Cardinality(1..n) = n
BY FS_Interval

(* Picking at all positions changes nothing.                                  *)
LEMMA PickAll ==
  ASSUME NEW T, NEW s \in Seq(T)
  PROVE  Pick(s, 1..Len(s)) = s
<1> DEFINE n == Len(s)
<1>0. n \in Nat /\ s = [r \in 1..n |-> s[r]]
  OBVIOUS
<1> HIDE DEF n
<1>1. n \in Nat /\ IsFiniteSet(1..n) /\ Cardinality(1..n) = n
  BY <1>0, CountTo
<1>2. ASSUME NEW r \in 1..n
      PROVE  Nth(1..n, r) = r
  <2>1. {h \in 1..n : h <= r} = 1..r
    BY <1>1
  <2>2. Cardinality(1..r) = r
    BY <1>1, CountTo
  <2>3. PlaceIn(1..n, r) = r
    BY <2>1, <2>2 DEF PlaceIn
  <2>4. 1..n \in SUBSET Nat
    BY <1>1
  <2>5. Nth(1..n, PlaceIn(1..n, r)) = r
    BY <1>1, <2>4, NthIs
  <2> QED
    BY <2>3, <2>5
<1>3. Pick(s, 1..n) = [r \in 1..n |-> s[r]]
  BY <1>1, <1>2 DEF Pick
<1> QED
  BY <1>0, <1>3 DEF n

-----------------------------------------------------------------------------
(* The states of a loop of N steps: each step makes one from the one before.  *)
Loops(N, S, s, G) == {f \in [0..N -> S] : f[0] = s /\ \A k \in 1..N : f[k] = G[k][f[k - 1]]}

(* There are such states for a loop of any length: at the least length        *)
(* without them, those of the loop before would have one more.                *)
LEMMA LoopExists ==
  ASSUME NEW N \in Nat, NEW S, NEW s \in S, NEW G \in [1..N -> [S -> S]]
  PROVE  Loops(N, S, s, G) # {}
<1> SUFFICES \E f \in [0..N -> S] : f[0] = s /\ \A k \in 1..N : f[k] = G[k][f[k - 1]]
  BY DEF Loops
<1> DEFINE Loop(m, f) == f \in [0..m -> S] /\ f[0] = s /\ \A k \in 1..m : f[k] = G[k][f[k - 1]]
           Bad == {m \in 0..N : ~\E f : Loop(m, f)}
<1>1. CASE Bad = {}
  <2>1. N \in 0..N
    OBVIOUS
  <2> HIDE DEF Loop
  <2>2. \E f : Loop(N, f)
    BY <1>1, <2>1
  <2> QED
    BY <2>2 DEF Loop
<1>2. CASE Bad # {}
  <2> DEFINE m == Nth(Bad, 1)
  <2>1. Bad \in SUBSET Nat /\ IsFiniteSet(0..N)
    BY FS_Interval
  <2>2. IsFiniteSet(Bad)
    BY <2>1, FS_Subset
  <2>3. m \in Bad /\ \A h \in Bad : m <= h
    BY <1>2, <2>1, <2>2, NthFirst
  <2> HIDE DEF m
  <2>4. m \in 0..N /\ ~\E f : Loop(m, f)
    BY <2>3
  <2>5. CASE m = 0
    <3> DEFINE f == [k \in 0..0 |-> s]
    <3>1. Loop(0, f)
      OBVIOUS
    <3> QED
      BY <2>4, <2>5, <3>1
  <2>6. CASE m # 0
    <3>1. m - 1 \in 0..N /\ ~(m <= m - 1)
      BY <2>4, <2>6
    <3> HIDE DEF Loop
    <3>2. PICK f : Loop(m - 1, f)
      BY <2>3, <3>1
    <3> USE DEF Loop
    <3> DEFINE g == [k \in 0..m |-> IF k = m THEN G[m][f[m - 1]] ELSE f[k]]
    <3>3. m \in 1..N /\ G[m] \in [S -> S] /\ f[m - 1] \in S
      BY <2>4, <2>6, <3>2
    <3>4. g \in [0..m -> S] /\ g[0] = s
      BY <2>6, <3>2, <3>3
    <3>5. ASSUME NEW k \in 1..m
          PROVE  g[k] = G[k][g[k - 1]]
      <4>1. g[k - 1] = f[k - 1]
        BY <3>3
      <4>2. CASE k = m
        BY <4>1, <4>2
      <4>3. CASE k # m
        <5>1. k \in 1..(m - 1) /\ g[k] = f[k]
          BY <3>3, <4>3
        <5> QED
          BY <3>2, <4>1, <5>1
      <4> QED
        BY <4>2, <4>3
    <3>6. Loop(m, g)
      BY <3>4, <3>5
    <3> QED
      BY <2>4, <3>6
  <2> QED
    BY <2>5, <2>6
<1> QED
  BY <1>1, <1>2

(* Positions that correspond, in the same order, to others with the same      *)
(* elements: the same is picked.                                              *)
LEMMA PickAlong ==
  ASSUME NEW P \in SUBSET Nat, IsFiniteSet(P), NEW Q \in SUBSET Nat, NEW g \in Bijection(P, Q),
         \A i, j \in P : i < j => g[i] < g[j], NEW s, NEW t, \A i \in P : t[g[i]] = s[i]
  PROVE  IsFiniteSet(Q) /\ Pick(t, Q) = Pick(s, P)
<1>1. /\ g \in [P -> Q] /\ (\A i, j \in P : g[i] = g[j] => i = j) /\ \A h \in Q : \E i \in P : g[i] = h
  BY DEF Bijection, Injection, Surjection, IsInjective
<1>2. IsFiniteSet(Q) /\ Cardinality(Q) = Cardinality(P)
  BY FS_Bijection DEF ExistsBijection
<1>3. ASSUME NEW i \in P, NEW j \in P
      PROVE  j <= i <=> g[j] <= g[i]
  <2>1. i \in Nat /\ j \in Nat /\ g[i] \in Nat /\ g[j] \in Nat
    BY <1>1
  <2>2. CASE i < j
    BY <2>1, <2>2
  <2>3. CASE i = j
    BY <2>1, <2>3
  <2>4. CASE j < i
    BY <2>1, <2>4
  <2> QED
    BY <2>1, <2>2, <2>3, <2>4
<1>4. ASSUME NEW i \in P
      PROVE  PlaceIn(Q, g[i]) = PlaceIn(P, i)
  <2> DEFINE A == {h \in P : h <= i}
             B == {h \in Q : h <= g[i]}
             f == [h \in A |-> g[h]]
  <2>1. f \in [A -> B]
    BY <1>1, <1>3
  <2>2. \A a, b \in A : f[a] = f[b] => a = b
    BY <1>1
  <2>3. \A k \in B : \E h \in A : f[h] = k
    <3> SUFFICES ASSUME NEW k \in B
                 PROVE  \E h \in A : f[h] = k
      OBVIOUS
    <3>1. PICK h \in P : g[h] = k
      BY <1>1
    <3>2. h \in A
      BY <3>1, <1>3
    <3> QED
      BY <3>1, <3>2
  <2>4. f \in Bijection(A, B)
    BY <2>1, <2>2, <2>3 DEF Bijection, Injection, Surjection, IsInjective
  <2>5. IsFiniteSet(A)
    BY UpTo
  <2>6. Cardinality(B) = Cardinality(A)
    BY <2>4, <2>5, FS_Bijection DEF ExistsBijection
  <2> QED
    BY <2>6 DEF PlaceIn
<1>5. ASSUME NEW r \in 1..Cardinality(P)
      PROVE  t[Nth(Q, r)] = s[Nth(P, r)]
  <2>1. Nth(P, r) \in P /\ PlaceIn(P, Nth(P, r)) = r
    BY NthIs
  <2>2. g[Nth(P, r)] \in Q /\ PlaceIn(Q, g[Nth(P, r)]) = r
    BY <1>1, <1>4, <2>1
  <2>3. \A h \in Q : Nth(Q, PlaceIn(Q, h)) = h
    BY <1>2, NthIs
  <2>4. Nth(Q, r) = g[Nth(P, r)]
    BY <2>2, <2>3
  <2> QED
    BY <2>1, <2>4
<1> QED
  BY <1>2, <1>5 DEF Pick
=============================================================================
