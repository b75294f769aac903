--------------------------- MODULE TwoLevelProofs ---------------------------
(***************************************************************************)
(* Proofs about the second level of a COMMAND subscription (TwoLevel), for *)
(* any keys, values and frequencies and any number of calls waiting for    *)
(* the thread of the user.                                                 *)
(*                                                                         *)
(* What the properties say when every call has run is not inductive: in    *)
(* between, what a key knows of its subscription of the second level is    *)
(* what the last call on its way will tell it (Follows), and that call     *)
(* reaches the key because no other key has that subscription, now or      *)
(* while a call for it is left (Distinct, CallsLeft).                      *)
(***************************************************************************)
EXTENDS TwoLevel, FiniteSetTheorems, TLAPS

(* A value known to one side as old is new after the calls of a queue: the *)
(* last one for that subscription and of those events tells it.            *)
Matches(call, id, events) == call.id = id /\ call.event \in events

Follows(seq, id, events, old, new) ==
    \/ /\ \A i \in DOMAIN seq : ~Matches(seq[i], id, events)
       /\ old = new
    \/ \E i \in DOMAIN seq :
          /\ Matches(seq[i], id, events) /\ seq[i].arg = new
          /\ \A j \in DOMAIN seq : i < j => ~Matches(seq[j], id, events)

(* A key has the values of the first level that the server sent, and the   *)
(* listener those of the key.                                              *)
KeyAgrees(k) ==
    /\ keys[k].first = table[k]
    /\ view[k].first = table[k] /\ view[k].second = keys[k].second
    /\ keys[k].s = None <=> view[k].command = "none"
    /\ keys[k].s = None => keys[k] = NoRow
    /\ keys[k].s \in {3, 4} => keys[k].second = None
    /\ keys[k].freq <= strategy.aggregate

(* A key knows its subscription of the second level, but for the calls     *)
(* that are left.                                                          *)
FreqEvents == {"onRealMaxFrequency", "onUnsubscription"}
UpdateEvents == {"onItemUpdate"}

SubAgrees(id, k) ==
    /\ id \notin disabled
    /\ sub2[id].freq = strategy.requested
    /\ Follows(calls, id, FreqEvents, keys[k].freq, sub2[id].real)
    /\ sub2[id].state # "none" =>
          Follows(calls, id, UpdateEvents, keys[k].second, sub2[id].value)

Known(k) == KeyAgrees(k) /\ (keys[k].sub # None => SubAgrees(keys[k].sub, k))
KeysAgree == \A k \in Keys : Known(k)

(* Nothing is known while the subscription is not in the session.          *)
EmptyAtFirst ==
    strategy.m # 2 =>
        /\ told = None
        /\ \A k \in Keys : keys[k] = NoRow /\ table[k] = None /\ view[k] = Blank

LatestIsKnown == \A k \in Keys : command = "DELETE" /\ latest = k => keys[k].s = None

Owned == \A id \in SubIds : sub2[id].state # "none" => \E k \in Keys : keys[k].sub = id
Distinct == \A j, k \in Keys : keys[j].sub = keys[k].sub /\ keys[j].sub # None => j = k

CallsLeft == \A id \in disabled : \E i \in DOMAIN calls : calls[i].id = id

AggregateAgrees ==
    strategy.real <= strategy.aggregate /\ (told # None => told = strategy.aggregate)

IInv ==
    /\ TypeOK /\ KeysAgree /\ EmptyAtFirst /\ LatestIsKnown /\ DeleteIsDecoded
    /\ Owned /\ Distinct /\ CallsLeft /\ AggregateAgrees

-----------------------------------------------------------------------------
(* A finite set of numbers has a greatest one: a smallest set without one  *)
(* would have one when any of its members is taken away.                   *)
LEMMA MaximumExists ==
    ASSUME NEW S \in SUBSET Nat, IsFiniteSet(S), S # {}
    PROVE  \E max \in S : \A n \in S : max >= n
<1> DEFINE Bad == {T \in SUBSET S : T # {} /\ ~\E max \in T : \A n \in T : max >= n}
<1>1. SUFFICES ASSUME Bad # {} PROVE FALSE
  OBVIOUS
<1>2. IsWellFoundedOn(StrictSubsetOrdering(S), SUBSET S)
  BY FS_FiniteSubsetsOfFinite, FS_StrictSubsetOrderingWellFounded
<1>3. Bad \subseteq SUBSET S
  OBVIOUS
<1>4. PICK T \in Bad : \A U \in Bad : ~(<<U, T>> \in StrictSubsetOrdering(S))
  <2> HIDE DEF Bad
  <2> QED
    BY <1>1, <1>2, <1>3, WFMin
<1>5. PICK n \in T : TRUE
  OBVIOUS
<1>6. T \ {n} \notin Bad
  BY <1>4, <1>5 DEF StrictSubsetOrdering
<1>7. CASE T \ {n} = {}
  BY <1>5, <1>7
<1>8. CASE T \ {n} # {}
  <2>1. PICK max \in T \ {n} : \A x \in T \ {n} : max >= x
    BY <1>6, <1>8
  <2>2. n \in Nat /\ max \in Nat /\ \A x \in T : x \in Nat
    BY <1>5
  <2>3. CASE max >= n
    BY <2>1, <2>2, <2>3
  <2>4. CASE ~(max >= n)
    BY <1>5, <2>1, <2>2, <2>4
  <2> QED
    BY <2>3, <2>4
<1> QED
  BY <1>7, <1>8

LEMMA MaxFreqIsMax ==
    ASSUME NEW S \in SUBSET (Frequencies \cup {None})
    PROVE  /\ MaxFreq(S) \in Frequencies \cup {None} /\ MaxFreq(S) \in Nat
           /\ MaxFreq(S) \in S \cup {None}
           /\ \A freq \in S : freq <= MaxFreq(S)
<1> DEFINE T == S \cup {None}
<1>1. T \in SUBSET Nat /\ T # {} /\ T \subseteq Frequencies \cup {None}
  BY TwoLevelAssumption DEF None
<1>2. IsFiniteSet(T)
  <2>1. IsFiniteSet(Frequencies \cup {None})
    BY TwoLevelAssumption, FS_AddElement
  <2> QED
    BY <1>1, <2>1, FS_Subset
<1>3. PICK max \in T : \A n \in T : max >= n
  BY <1>1, <1>2, MaximumExists
<1>4. Max(T) \in T /\ \A n \in T : Max(T) >= n
  BY <1>3 DEF Max
<1>5. MaxFreq(S) = Max(T)
  BY DEF MaxFreq
<1>6. \A n \in T : n \in Nat /\ Max(T) \in Nat
  BY <1>1, <1>4
<1> QED
  BY <1>1, <1>4, <1>5, <1>6

LEMMA UpTo ==
    ASSUME NEW n \in Nat
    PROVE  IsFiniteSet(1..n) /\ Cardinality(1..n) = n
<1>1. 1 \in Int /\ n \in Int
  OBVIOUS
<1>2. IsFiniteSet(1..n) /\ Cardinality(1..n) = IF 1 > n THEN 0 ELSE n - 1 + 1
  BY <1>1, FS_Interval
<1>3. (IF 1 > n THEN 0 ELSE n - 1 + 1) = n
  OBVIOUS
<1> QED
  BY <1>2, <1>3

(* There is a new subscription for a key without one: fewer are taken than *)
(* there are.                                                              *)
LEMMA FreshSubExists ==
    ASSUME TypeOK, NEW k \in Keys, keys[k].sub = None
    PROVE  FreshSub \in SubIds \ Used
<1> DEFINE Waiting == {calls[i].id : i \in DOMAIN calls}
           Others == {keys[q].sub : q \in Keys \ {k}}
<1>1. IsFiniteSet(Waiting) /\ Cardinality(Waiting) <= MaxCalls
  <2>1. DOMAIN calls = 1..Len(calls) /\ Len(calls) \in Nat /\ Len(calls) <= MaxCalls
    BY DEF TypeOK
  <2>2. IsFiniteSet(1..Len(calls)) /\ Cardinality(1..Len(calls)) = Len(calls)
    BY <2>1, UpTo
  <2> DEFINE f == [i \in 1..Len(calls) |-> calls[i].id]
  <2>3. f \in Surjection(1..Len(calls), Waiting)
    BY <2>1 DEF Surjection
  <2>4. IsFiniteSet(Waiting) /\ Cardinality(Waiting) <= Len(calls)
    BY <2>2, <2>3, FS_Surjection
  <2>5. Cardinality(Waiting) \in Nat
    BY <2>4, FS_CardinalityType
  <2> QED
    BY <2>1, <2>4, <2>5, TwoLevelAssumption
<1>2. IsFiniteSet(Others) /\ Cardinality(Others) <= Cardinality(Keys) - 1
  <2>1. IsFiniteSet(Keys \ {k}) /\ Cardinality(Keys \ {k}) = Cardinality(Keys) - 1
    BY TwoLevelAssumption, FS_RemoveElement
  <2> DEFINE f == [q \in Keys \ {k} |-> keys[q].sub]
  <2>2. f \in Surjection(Keys \ {k}, Others)
    BY DEF Surjection
  <2> QED
    BY <2>1, <2>2, FS_Surjection
<1>3. Cardinality(Keys) \in Nat /\ MaxCalls \in Nat
  BY TwoLevelAssumption, FS_CardinalityType
<1>4. IsFiniteSet(Waiting \cup Others)
      /\ Cardinality(Waiting \cup Others) < Cardinality(Keys) + MaxCalls
  <2>1. /\ IsFiniteSet(Waiting \cup Others)
        /\ Cardinality(Waiting \cup Others)
             = Cardinality(Waiting) + Cardinality(Others) - Cardinality(Waiting \cap Others)
    BY <1>1, <1>2, FS_Union
  <2>2. /\ Cardinality(Waiting) \in Nat /\ Cardinality(Others) \in Nat
        /\ Cardinality(Waiting \cap Others) \in Nat
    BY <1>1, <1>2, FS_CardinalityType, FS_Intersection
  <2> QED
    BY <1>1, <1>2, <1>3, <2>1, <2>2
<1>5. \E id \in SubIds : id \notin Waiting \cup Others
  <2>1. IsFiniteSet(SubIds) /\ Cardinality(SubIds) = Cardinality(Keys) + MaxCalls
    BY <1>3, UpTo DEF SubIds
  <2> QED
    BY <1>3, <1>4, <2>1, FS_Subset, FS_CardinalityType
<1>6. None \notin SubIds
  BY DEF SubIds, None
<1>7. \A id \in SubIds : id \in Used => id \in Waiting \cup Others
  BY <1>6 DEF Used
<1> QED
  BY <1>5, <1>7 DEF FreshSub

-----------------------------------------------------------------------------
(* Follows, when the queue changes.                                        *)
LEMMA Appended ==
    ASSUME NEW T, NEW seq \in Seq(T), NEW call \in T
    PROVE  /\ Append(seq, call) \in Seq(T) /\ Len(Append(seq, call)) = Len(seq) + 1
           /\ DOMAIN Append(seq, call) = DOMAIN seq \cup {Len(seq) + 1}
           /\ \A i \in DOMAIN seq : i \in Nat /\ i < Len(seq) + 1 /\ Append(seq, call)[i] = seq[i]
           /\ Append(seq, call)[Len(seq) + 1] = call
           /\ Len(seq) \in Nat
  OBVIOUS

LEMMA OtherAppended ==
    ASSUME NEW seq \in Seq(Calls), NEW call \in Calls, NEW id, NEW events, NEW old, NEW new,
           Follows(seq, id, events, old, new), ~Matches(call, id, events)
    PROVE  Follows(Append(seq, call), id, events, old, new)
<1> DEFINE longer == Append(seq, call)
<1>1. /\ DOMAIN longer = DOMAIN seq \cup {Len(seq) + 1}
      /\ \A i \in DOMAIN seq : longer[i] = seq[i]
      /\ longer[Len(seq) + 1] = call
  BY Appended
<1> HIDE DEF longer
<1>2. Follows(longer, id, events, old, new)
  BY <1>1 DEF Follows
<1> QED
  BY <1>2 DEF longer

LEMMA NewsAppended ==
    ASSUME NEW seq \in Seq(Calls), NEW call \in Calls, NEW id, NEW events, NEW old,
           Matches(call, id, events)
    PROVE  Follows(Append(seq, call), id, events, old, call.arg)
<1> DEFINE longer == Append(seq, call)
<1>1. /\ DOMAIN longer = DOMAIN seq \cup {Len(seq) + 1}
      /\ \A i \in DOMAIN seq : i \in Nat /\ i < Len(seq) + 1
      /\ longer[Len(seq) + 1] = call /\ Len(seq) \in Nat
  BY Appended
<1> HIDE DEF longer
<1>2. \A i \in DOMAIN longer : ~(Len(seq) + 1 < i)
  BY <1>1
<1>3. Follows(longer, id, events, old, call.arg)
  BY <1>1, <1>2 DEF Follows
<1> QED
  BY <1>3 DEF longer

LEMMA Shorter ==
    ASSUME NEW T, NEW seq \in Seq(T), seq # <<>>
    PROVE  /\ Head(seq) = seq[1] /\ Head(seq) \in T /\ Tail(seq) \in Seq(T) /\ 1 \in DOMAIN seq
           /\ Len(Tail(seq)) = Len(seq) - 1 /\ Len(seq) \in Nat
           /\ \A i \in DOMAIN Tail(seq) : i \in Nat /\ i + 1 \in DOMAIN seq /\ Tail(seq)[i] = seq[i + 1]
           /\ \A i \in DOMAIN seq : i = 1 \/ (i - 1 \in DOMAIN Tail(seq) /\ Tail(seq)[i - 1] = seq[i])
           /\ \A i \in DOMAIN seq : i \in Nat /\ i >= 1
  OBVIOUS

LEMMA OtherTaken ==
    ASSUME NEW seq \in Seq(Calls), seq # <<>>, NEW id, NEW events, NEW old, NEW new,
           Follows(seq, id, events, old, new)
    PROVE  /\ ~Matches(Head(seq), id, events) => Follows(Tail(seq), id, events, old, new)
           /\ Matches(Head(seq), id, events) => Follows(Tail(seq), id, events, Head(seq).arg, new)
<1> DEFINE rest == Tail(seq)
           head == Head(seq)
<1>1. /\ head = seq[1] /\ 1 \in DOMAIN seq
      /\ \A i \in DOMAIN rest : i \in Nat /\ i + 1 \in DOMAIN seq /\ rest[i] = seq[i + 1]
      /\ \A i \in DOMAIN seq : i = 1 \/ (i - 1 \in DOMAIN rest /\ rest[i - 1] = seq[i])
      /\ \A i \in DOMAIN seq : i \in Nat /\ i >= 1
  BY Shorter
<1> HIDE DEF rest, head
<1>2. CASE \A i \in DOMAIN seq : ~Matches(seq[i], id, events)
  <2>1. old = new /\ \A i \in DOMAIN rest : ~Matches(rest[i], id, events)
    BY <1>1, <1>2 DEF Follows
  <2>2. ~Matches(head, id, events)
    BY <1>1, <1>2
  <2> QED
    BY <2>1, <2>2 DEF Follows, rest, head
<1>3. CASE \E i \in DOMAIN seq : Matches(seq[i], id, events)
  <2>1. PICK i \in DOMAIN seq :
          /\ Matches(seq[i], id, events) /\ seq[i].arg = new
          /\ \A j \in DOMAIN seq : i < j => ~Matches(seq[j], id, events)
    BY <1>3 DEF Follows
  <2>2. CASE i = 1
    <3>1. \A j \in DOMAIN rest : ~Matches(rest[j], id, events)
      <4> SUFFICES ASSUME NEW j \in DOMAIN rest PROVE ~Matches(rest[j], id, events)
        OBVIOUS
      <4>1. j \in Nat /\ j + 1 \in DOMAIN seq /\ rest[j] = seq[j + 1] /\ j + 1 >= 1
        BY <1>1
      <4>2. j + 1 # 1
        <5>1. j # 0
          BY <4>1 DEF rest
        <5> QED
          BY <4>1, <5>1
      <4> QED
        BY <2>1, <2>2, <4>1, <4>2
    <3>2. Matches(head, id, events) /\ head.arg = new
      BY <1>1, <2>1, <2>2
    <3> QED
      BY <3>1, <3>2 DEF Follows, rest, head
  <2>3. CASE i # 1
    <3>1. i - 1 \in DOMAIN rest /\ rest[i - 1] = seq[i]
      BY <1>1, <2>3
    <3>2. \A j \in DOMAIN rest : i - 1 < j => ~Matches(rest[j], id, events)
      <4> SUFFICES ASSUME NEW j \in DOMAIN rest, i - 1 < j PROVE ~Matches(rest[j], id, events)
        OBVIOUS
      <4>1. j \in Nat /\ j + 1 \in DOMAIN seq /\ rest[j] = seq[j + 1] /\ i \in Nat
        BY <1>1
      <4>2. i < j + 1
        BY <4>1
      <4> QED
        BY <2>1, <4>1, <4>2
    <3>3. \A other : Follows(rest, id, events, other, new)
      BY <2>1, <3>1, <3>2 DEF Follows
    <3> QED
      BY <3>3 DEF rest, head
  <2> QED
    BY <2>2, <2>3
<1> QED
  BY <1>2, <1>3

LEMMA NothingToTell ==
    ASSUME NEW seq, NEW id, NEW events, NEW old,
           \A i \in DOMAIN seq : seq[i].id # id
    PROVE  Follows(seq, id, events, old, old)
  BY DEF Follows, Matches

LEMMA AllTold ==
    ASSUME NEW id, NEW events, NEW old, NEW new, Follows(<<>>, id, events, old, new)
    PROVE  old = new
  BY DEF Follows

-----------------------------------------------------------------------------
(* What the types say of the parts.                                        *)
LEMMA Types ==
    ASSUME TypeOK
    PROVE  /\ None \notin SubIds /\ None = 0
           /\ strategy.m \in 1..3 /\ strategy.requested \in Frequencies \cup {None}
           /\ strategy.real \in Frequencies \cup {None}
           /\ strategy.aggregate \in Frequencies \cup {None}
           /\ strategy.real \in Nat /\ strategy.aggregate \in Nat
           /\ \A freq \in Frequencies \cup {None} : freq \in Nat /\ freq >= None
           /\ \A freq \in Frequencies : freq # None
           /\ \A k \in Keys :
                 /\ keys[k] \in Rows /\ keys[k].freq \in Nat
                 /\ keys[k].s \in {None, 3, 4, 5}
                 /\ keys[k].first \in Values \cup {None} /\ keys[k].second \in Values \cup {None}
                 /\ keys[k].freq \in Frequencies \cup {None}
                 /\ keys[k].sub \in SubIds \cup {None} /\ view[k] \in ViewRows
                 /\ view[k].command \in {"none", "ADD", "UPDATE"}
           /\ \A id \in SubIds : sub2[id] \in SubStates /\ sub2[id].freq \in Frequencies \cup {None}
           /\ calls \in Seq(Calls)
<1>1. None \notin SubIds /\ None = 0
  BY DEF None, SubIds
<1>2. /\ \A freq \in Frequencies \cup {None} : freq \in Nat /\ freq >= None
      /\ \A freq \in Frequencies : freq # None
  BY <1>1, TwoLevelAssumption
<1>3. /\ strategy.m \in 1..3 /\ strategy.requested \in Frequencies \cup {None}
      /\ strategy.real \in Frequencies \cup {None} /\ strategy.aggregate \in Frequencies \cup {None}
  BY DEF TypeOK
<1>4. \A k \in Keys : keys[k] \in Rows /\ view[k] \in ViewRows
  BY DEF TypeOK
<1>5. \A k \in Keys :
         /\ keys[k].s \in {None, 3, 4, 5}
         /\ keys[k].first \in Values \cup {None} /\ keys[k].second \in Values \cup {None}
         /\ keys[k].freq \in Frequencies \cup {None} /\ keys[k].sub \in SubIds \cup {None}
         /\ view[k].command \in {"none", "ADD", "UPDATE"}
  BY <1>4 DEF Rows, ViewRows
<1>6. /\ \A id \in SubIds : sub2[id] \in SubStates /\ sub2[id].freq \in Frequencies \cup {None}
      /\ calls \in Seq(Calls)
  BY DEF TypeOK, SubStates
<1> QED
  BY <1>1, <1>2, <1>3, <1>4, <1>5, <1>6

(* What a change of one part leaves of the strategy.                       *)
Strategies == [m : 1..3, requested : Frequencies \cup {None},
               real : Frequencies \cup {None}, aggregate : Frequencies \cup {None}]

LEMMA Added ==
    ASSUME TypeOK, NEW freq \in Frequencies \cup {None}
    PROVE  /\ WhenFreqIsAdded(freq) \in Frequencies \cup {None} /\ WhenFreqIsAdded(freq) \in Nat
           /\ strategy.aggregate <= WhenFreqIsAdded(freq) /\ freq <= WhenFreqIsAdded(freq)
<1>1. {strategy.aggregate, freq} \in SUBSET (Frequencies \cup {None})
  BY Types
<1> QED
  BY <1>1, MaxFreqIsMax DEF WhenFreqIsAdded

LEMMA Removed ==
    ASSUME TypeOK, NEW rows, \A k \in Keys : rows[k].freq \in Frequencies \cup {None}
    PROVE  /\ WhenFreqIsRemoved(rows) \in Frequencies \cup {None}
           /\ WhenFreqIsRemoved(rows) \in Nat
           /\ strategy.real <= WhenFreqIsRemoved(rows)
           /\ \A k \in Keys : rows[k].freq <= WhenFreqIsRemoved(rows)
<1> DEFINE S == {strategy.real} \cup {rows[k].freq : k \in Keys}
<1>1. S \in SUBSET (Frequencies \cup {None})
  BY Types
<1>2. /\ MaxFreq(S) \in Frequencies \cup {None} /\ MaxFreq(S) \in Nat
      /\ \A freq \in S : freq <= MaxFreq(S)
  <2> HIDE DEF S
  <2> QED
    BY <1>1, MaxFreqIsMax
<1>3. WhenFreqIsRemoved(rows) = MaxFreq(S)
  BY DEF WhenFreqIsRemoved
<1> QED
  BY <1>2, <1>3

(* A new aggregate is told.                                                *)
LEMMA Reported ==
    ASSUME TypeOK, AggregateAgrees, NEW max \in Frequencies \cup {None}, Report(max),
           strategy.real <= max
    PROVE  /\ AggregateAgrees' /\ told' \in Frequencies \cup {None}
           /\ strategy' \in Strategies
           /\ strategy'.m = strategy.m /\ strategy'.requested = strategy.requested
           /\ strategy'.real = strategy.real /\ strategy'.aggregate = max
<1>1. /\ strategy' \in Strategies
      /\ strategy'.m = strategy.m /\ strategy'.requested = strategy.requested
      /\ strategy'.real = strategy.real /\ strategy'.aggregate = max
  BY DEF Report, TypeOK, Strategies
<1>2. told' \in {max, told} /\ (told' # None => told' = max)
  BY DEF Report, AggregateAgrees
<1> QED
  BY <1>1, <1>2 DEF AggregateAgrees, TypeOK

(* A key that a step does not concern.                                     *)
LEMMA KeyKept ==
    ASSUME NEW k \in Keys, Known(k), calls' = calls,
           keys'[k] = keys[k], table'[k] = table[k], view'[k] = view[k],
           keys[k].freq <= strategy'.aggregate,
           keys[k].sub # None =>
              /\ sub2'[keys[k].sub] = sub2[keys[k].sub] /\ keys[k].sub \notin disabled'
              /\ strategy'.requested = strategy.requested
    PROVE  Known(k)'
<1>1. KeyAgrees(k)'
  BY DEF Known, KeyAgrees
<1>2. ASSUME keys[k].sub # None
      PROVE  SubAgrees(keys[k].sub, k)'
  <2>1. PICK id : id = keys[k].sub
    OBVIOUS
  <2>2. /\ SubAgrees(id, k) /\ sub2'[id] = sub2[id] /\ id \notin disabled'
        /\ strategy'.requested = strategy.requested
    BY <1>2, <2>1 DEF Known
  <2>3. SubAgrees(id, k)'
    BY <2>2 DEF SubAgrees, Follows
  <2>4. keys'[k].sub = id
    BY <2>1
  <2> QED
    BY <2>1, <2>3, <2>4 DEF SubAgrees
<1> QED
  BY <1>1, <1>2 DEF Known

-----------------------------------------------------------------------------
(* Init                                                                    *)
LEMMA InitInv == Init => IInv
<1> SUFFICES ASSUME Init PROVE IInv
  OBVIOUS
<1>1. 1 \in 1..3 /\ None = 0
  BY DEF None
<1>2. NoRow \in Rows /\ Blank \in ViewRows /\ Idle \in SubStates
  BY DEF NoRow, Row, Rows, Blank, ViewRows, Idle, NewSub, SubStates
<1>3. TypeOK
  <2>1. Len(calls) <= MaxCalls /\ calls \in Seq(Calls)
    BY TwoLevelAssumption DEF Init
  <2> QED
    BY <1>1, <1>2, <2>1 DEF Init, TypeOK, NewStrategy, NoRow, Row
<1>4. KeysAgree
  BY <1>1 DEF Init, KeysAgree, Known, KeyAgrees, NewStrategy, NoRow, Row, Blank
<1>5. EmptyAtFirst /\ LatestIsKnown /\ DeleteIsDecoded
  BY DEF Init, EmptyAtFirst, LatestIsKnown, DeleteIsDecoded, NoRow, Row
<1>6. Owned /\ Distinct /\ CallsLeft
  BY DEF Init, Owned, Distinct, CallsLeft, Idle, NewSub, NoRow, Row
<1>7. AggregateAgrees
  BY <1>1 DEF Init, AggregateAgrees, NewStrategy
<1> QED
  BY <1>3, <1>4, <1>5, <1>6, <1>7 DEF IInv

-----------------------------------------------------------------------------
(* The manager of the subscription                                         *)
LEMMA ConfInv ==
    ASSUME IInv, NEW freq \in Frequencies, evtOnCONF(freq)
    PROVE  IInv'
<1> DEFINE max == WhenFreqIsAdded(freq)
<1>1. /\ max \in Frequencies \cup {None} /\ max \in Nat /\ strategy.aggregate <= max
      /\ freq <= max /\ freq \in Nat
  BY Added, Types DEF IInv
<1>2. /\ strategy.m = 2 /\ told' = IF max # strategy.aggregate THEN max ELSE told
      /\ strategy' = [strategy EXCEPT !.real = freq, !.aggregate = max]
      /\ UNCHANGED <<keys, command, latest, sub2, disabled, calls, table, sent, view>>
  BY DEF evtOnCONF
<1> HIDE DEF max
<1>3. /\ strategy' \in Strategies
      /\ strategy'.m = 2 /\ strategy'.requested = strategy.requested
      /\ strategy'.real = freq /\ strategy'.aggregate = max
  BY <1>1, <1>2 DEF IInv, TypeOK, Strategies
<1>4. told' \in {max, told} /\ (told' # None => told' = max)
  BY <1>2 DEF IInv, AggregateAgrees
<1>5. TypeOK'
  BY <1>1, <1>2, <1>3, <1>4 DEF IInv, TypeOK, Strategies
<1>6. KeysAgree'
  <2> SUFFICES ASSUME NEW k \in Keys PROVE Known(k)'
    BY DEF KeysAgree
  <2>1. Known(k) /\ keys[k].freq \in Nat /\ strategy.aggregate \in Nat
    BY Types DEF IInv, KeysAgree
  <2>2. keys[k].freq <= strategy'.aggregate
    BY <1>1, <1>3, <2>1 DEF Known, KeyAgrees
  <2>3. keys[k].sub # None => keys[k].sub \notin disabled'
    BY <1>2, <2>1 DEF Known, SubAgrees
  <2> QED
    BY <1>2, <1>3, <2>1, <2>2, <2>3, KeyKept
<1>7. AggregateAgrees'
  BY <1>1, <1>3, <1>4 DEF AggregateAgrees
<1>8. EmptyAtFirst' /\ LatestIsKnown' /\ DeleteIsDecoded' /\ Owned' /\ Distinct' /\ CallsLeft'
  BY <1>2, <1>3 DEF IInv, EmptyAtFirst, LatestIsKnown, DeleteIsDecoded, Owned, Distinct, CallsLeft
<1> QED
  BY <1>5, <1>6, <1>7, <1>8 DEF IInv

(* Steps that leave the keys as they are, none.                            *)
LEMMA StrategyInv ==
    ASSUME IInv, TypeOK', \A k \in Keys : keys[k] = NoRow,
           UNCHANGED <<keys, command, latest, sub2, disabled, calls, table, sent, view>>,
           AggregateAgrees', EmptyAtFirst'
    PROVE  IInv'
<1>1. KeysAgree'
  <2> SUFFICES ASSUME NEW k \in Keys PROVE Known(k)'
    BY DEF KeysAgree
  <2>1. Known(k) /\ keys[k].sub = None /\ keys[k].freq = None
    BY DEF IInv, KeysAgree, NoRow, Row
  <2>2. strategy'.aggregate \in Frequencies \cup {None}
    BY DEF TypeOK
  <2>3. keys[k].freq <= strategy'.aggregate
    BY <2>1, <2>2, Types DEF IInv
  <2> QED
    BY <2>1, <2>3, KeyKept
<1>2. LatestIsKnown' /\ DeleteIsDecoded' /\ Owned' /\ Distinct' /\ CallsLeft'
  BY DEF IInv, LatestIsKnown, DeleteIsDecoded, Owned, Distinct, CallsLeft
<1> QED
  BY <1>1, <1>2 DEF IInv

LEMMA SubInv ==
    ASSUME IInv, evtOnSUB
    PROVE  IInv'
<1>1. PICK freq \in Frequencies \cup {None} :
        /\ strategy.m = 1 /\ strategy' = [strategy EXCEPT !.m = 2, !.requested = freq]
        /\ told' = None
        /\ UNCHANGED <<keys, command, latest, sub2, disabled, calls, table, sent, view>>
  BY DEF evtOnSUB
<1>2. /\ strategy' \in Strategies
      /\ strategy'.m = 2 /\ strategy'.real = strategy.real
      /\ strategy'.aggregate = strategy.aggregate
  <2>1. PICK st \in Strategies : st = strategy
    BY DEF IInv, TypeOK, Strategies
  <2>2. strategy' = [st EXCEPT !.m = 2, !.requested = freq] /\ 2 \in 1..3
    BY <1>1, <2>1
  <2>3. strategy' = [m |-> 2, requested |-> freq, real |-> st.real, aggregate |-> st.aggregate]
    BY <2>2 DEF Strategies
  <2> QED
    BY <2>1, <2>2, <2>3 DEF Strategies
<1>3. TypeOK'
  BY <1>1, <1>2 DEF IInv, TypeOK, Strategies
<1>4. \A k \in Keys : keys[k] = NoRow
  BY <1>1 DEF IInv, EmptyAtFirst
<1>5. AggregateAgrees' /\ EmptyAtFirst'
  BY <1>1, <1>2 DEF IInv, AggregateAgrees, EmptyAtFirst
<1> QED
  BY <1>1, <1>3, <1>4, <1>5, StrategyInv

LEMMA ExtSubscribeInv ==
    ASSUME IInv, evtExtSubscribe
    PROVE  IInv'
<1>1. /\ strategy.m = 3 /\ strategy' = NewStrategy
      /\ UNCHANGED <<keys, command, latest, sub2, disabled, calls, table, sent, view, told>>
  BY DEF evtExtSubscribe
<1>2. told = None /\ \A k \in Keys : keys[k] = NoRow /\ table[k] = None /\ view[k] = Blank
  BY <1>1 DEF IInv, EmptyAtFirst
<1>3. TypeOK'
  BY <1>1 DEF IInv, TypeOK, NewStrategy
<1>4. AggregateAgrees' /\ EmptyAtFirst'
  BY <1>1, <1>2, Types DEF IInv, AggregateAgrees, EmptyAtFirst, NewStrategy
<1> QED
  BY <1>1, <1>2, <1>3, <1>4, StrategyInv

(* When every key goes, the subscriptions of the second level go with them.*)
LEMMA EmptiedInv ==
    ASSUME IInv, DisposeKeys, table' = [k \in Keys |-> None], calls' = calls,
           strategy' \in Strategies,
           told' \in Frequencies \cup {None}, AggregateAgrees', told' = None \/ strategy'.m = 2,
           UNCHANGED <<command, sent>> \/ (command' = "none" /\ sent' = "none"),
           latest' \in {latest, NoKey}
    PROVE  IInv'
<1>1. /\ keys' = [k \in Keys |-> NoRow] /\ view' = [k \in Keys |-> Blank]
      /\ sub2' = Unsubscribed(SubsOf(keys)) /\ Disable(SubsOf(keys))
  BY DEF DisposeKeys, evtDispose
<1>2. None = 0 /\ NoRow \in Rows /\ Blank \in ViewRows /\ Idle \in SubStates
  BY DEF None, NoRow, Row, Rows, Blank, ViewRows, Idle, NewSub, SubStates
<1>3. TypeOK'
  <2>1. sub2' \in [SubIds -> SubStates]
    BY <1>1, <1>2 DEF IInv, TypeOK, Unsubscribed
  <2>2. disabled' \subseteq SubIds
    <3>1. SubsOf(keys) \subseteq SubIds
      BY Types DEF IInv, SubsOf
    <3> QED
      BY <1>1, <3>1 DEF IInv, TypeOK, Disable
  <2>3. /\ keys' \in [Keys -> Rows] /\ view' \in [Keys -> ViewRows]
        /\ \A k \in Keys : keys'[k].sub # None <=> keys'[k].s \in {4, 5}
    BY <1>1, <1>2 DEF NoRow, Row
  <2>4. /\ table' \in [Keys -> Values \cup {None}] /\ calls' \in Seq(Calls)
        /\ Len(calls') <= MaxCalls /\ latest' \in Keys \cup {NoKey}
        /\ command' \in {"none", "ADD", "UPDATE", "DELETE"}
        /\ sent' \in {"none", "ADD", "UPDATE", "DELETE"}
    BY DEF IInv, TypeOK, Strategies
  <2> QED
    BY <2>1, <2>2, <2>3, <2>4 DEF TypeOK, Strategies
<1>4. KeysAgree'
  <2> SUFFICES ASSUME NEW k \in Keys PROVE Known(k)'
    BY DEF KeysAgree
  <2>1. /\ keys'[k] = NoRow /\ view'[k] = Blank /\ table'[k] = None
    BY <1>1
  <2>2. strategy'.aggregate \in Frequencies \cup {None}
    BY DEF Strategies
  <2>3. None <= strategy'.aggregate
    BY <2>2, Types DEF IInv
  <2> QED
    BY <1>2, <2>1, <2>3 DEF Known, KeyAgrees, NoRow, Row, Blank
<1>5. Owned'
  <2> SUFFICES ASSUME NEW id \in SubIds PROVE sub2'[id].state = "none"
    BY DEF Owned
  <2>1. CASE id \in SubsOf(keys)
    BY <1>1, <2>1 DEF Unsubscribed, Idle, NewSub
  <2>2. CASE id \notin SubsOf(keys)
    <3>1. \A k \in Keys : keys[k].sub # id
      BY <2>2, Types DEF IInv, SubsOf
    <3> QED
      BY <1>1, <2>2, <3>1 DEF IInv, Owned, Unsubscribed
  <2> QED
    BY <2>1, <2>2
<1>6. EmptyAtFirst' /\ Distinct' /\ CallsLeft'
  BY <1>1 DEF EmptyAtFirst, Distinct, CallsLeft, Disable, NoRow, Row
<1>7. LatestIsKnown' /\ DeleteIsDecoded'
  BY <1>1 DEF IInv, LatestIsKnown, DeleteIsDecoded, NoRow, Row
<1> QED
  BY <1>3, <1>4, <1>5, <1>6, <1>7 DEF IInv

LEMMA AbortInv ==
    ASSUME IInv, evtAbort \/ evtUnsubscribe
    PROVE  IInv'
<1>1. /\ DisposeKeys /\ command' = "none" /\ latest' = NoKey
      /\ table' = [k \in Keys |-> None] /\ sent' = "none" /\ told' = None /\ calls' = calls
  BY DEF evtAbort, evtUnsubscribe, DisposeItems
<1>2. /\ strategy' \in Strategies
      /\ strategy'.real \in {strategy.real, None} /\ strategy'.aggregate = strategy.aggregate
  <2>1. PICK st \in Strategies : st = strategy
    BY DEF IInv, TypeOK, Strategies
  <2>2. {1, 3} \subseteq 1..3
    OBVIOUS
  <2>3. \/ strategy' = [st EXCEPT !.m = 1, !.real = None]
        \/ strategy' = [st EXCEPT !.m = 3]
    BY <2>1 DEF evtAbort, evtUnsubscribe
  <2>4. \E m \in 1..3, freq \in {st.real, None} : strategy' =
          [m |-> m, requested |-> st.requested, real |-> freq, aggregate |-> st.aggregate]
    <3>1. CASE strategy' = [st EXCEPT !.m = 1, !.real = None]
      BY <2>2, <3>1 DEF Strategies
    <3>2. CASE strategy' = [st EXCEPT !.m = 3]
      BY <2>2, <3>2 DEF Strategies
    <3> QED
      BY <2>3, <3>1, <3>2
  <2> QED
    BY <2>1, <2>4 DEF Strategies
<1>3. AggregateAgrees'
  BY <1>1, <1>2, Types DEF IInv, AggregateAgrees
<1> QED
  BY <1>1, <1>2, <1>3, EmptiedInv

LEMMA ClearInv ==
    ASSUME IInv, evtOnCS
    PROVE  IInv'
<1> DEFINE rows == [k \in Keys |-> NoRow]
<1>1. /\ strategy.m = 2 /\ DisposeKeys /\ Report(WhenFreqIsRemoved(rows))
      /\ table' = [k \in Keys |-> None] /\ UNCHANGED <<command, latest, calls, sent>>
  BY DEF evtOnCS
<1>2. /\ WhenFreqIsRemoved(rows) \in Frequencies \cup {None}
      /\ strategy.real <= WhenFreqIsRemoved(rows)
  BY Removed DEF IInv, NoRow, Row
<1> HIDE DEF rows
<1>3. /\ AggregateAgrees' /\ told' \in Frequencies \cup {None} /\ strategy'.m = 2
      /\ strategy' \in Strategies
  BY <1>1, <1>2, Reported DEF IInv
<1> QED
  BY <1>1, <1>3, EmptiedInv

LEMMA SetFrequencyInv ==
    ASSUME IInv, evtSetRequestedMaxFrequency
    PROVE  IInv'
<1>1. PICK freq \in Frequencies :
        /\ strategy.m = 2 /\ strategy' = [strategy EXCEPT !.requested = freq]
        /\ sub2' = [id \in SubIds |-> IF id \in SubsOf(keys)
                                      THEN [sub2[id] EXCEPT !.freq = freq] ELSE sub2[id]]
        /\ UNCHANGED <<keys, command, latest, disabled, calls, table, sent, view, told>>
  BY DEF evtSetRequestedMaxFrequency, Reconfigured
<1>2. /\ strategy' \in Strategies
      /\ strategy'.m = 2 /\ strategy'.requested = freq /\ strategy'.real = strategy.real
      /\ strategy'.aggregate = strategy.aggregate
  BY <1>1 DEF IInv, TypeOK, Strategies
<1>3. ASSUME NEW id \in SubIds
      PROVE  /\ sub2'[id] \in SubStates /\ sub2'[id].state = sub2[id].state
             /\ sub2'[id].real = sub2[id].real /\ sub2'[id].value = sub2[id].value
             /\ id \in SubsOf(keys) => sub2'[id].freq = freq
  <2>1. PICK sub \in SubStates : sub = sub2[id]
    BY Types DEF IInv
  <2>2. sub2'[id] = IF id \in SubsOf(keys) THEN [sub EXCEPT !.freq = freq] ELSE sub
    BY <1>1, <2>1
  <2> QED
    BY <2>1, <2>2 DEF SubStates
<1>4. TypeOK'
  <2>1. sub2' \in [SubIds -> SubStates]
    BY <1>1, <1>3
  <2> QED
    BY <1>1, <1>2, <2>1 DEF IInv, TypeOK, Strategies
<1>5. KeysAgree'
  <2> SUFFICES ASSUME NEW k \in Keys PROVE Known(k)'
    BY DEF KeysAgree
  <2>1. Known(k)
    BY DEF IInv, KeysAgree
  <2>2. KeyAgrees(k)'
    BY <1>1, <1>2, <2>1 DEF Known, KeyAgrees
  <2>3. ASSUME keys[k].sub # None
        PROVE  SubAgrees(keys[k].sub, k)'
    <3>1. PICK id \in SubIds : id = keys[k].sub
      BY <2>3, Types DEF IInv
    <3>2. SubAgrees(id, k) /\ id \in SubsOf(keys)
      BY <2>1, <2>3, <3>1 DEF Known, SubsOf
    <3>3. SubAgrees(id, k)'
      BY <1>1, <1>2, <1>3, <3>2 DEF SubAgrees, Follows
    <3> QED
      BY <1>1, <3>1, <3>3 DEF SubAgrees
  <2> QED
    BY <1>1, <2>2, <2>3 DEF Known
<1>6. Owned'
  BY <1>1, <1>3 DEF IInv, Owned
<1>7. EmptyAtFirst' /\ LatestIsKnown' /\ DeleteIsDecoded' /\ Distinct' /\ CallsLeft' /\ AggregateAgrees'
  BY <1>1, <1>2 DEF IInv, EmptyAtFirst, LatestIsKnown, DeleteIsDecoded, Distinct, CallsLeft,
                    AggregateAgrees
<1> QED
  BY <1>4, <1>5, <1>6, <1>7 DEF IInv

-----------------------------------------------------------------------------
(* An update of the first level                                            *)
LEMMA DeleteInv ==
    ASSUME IInv, NEW k \in Keys, strategy.m = 2, Delete(k),
           table' = [table EXCEPT ![k] = None], sent' = "DELETE", latest' = k, calls' = calls
    PROVE  IInv'
<1> DEFINE gone == {keys[k].sub} \ {None}
           max == WhenFreqIsRemoved(keys')
<1>1. /\ keys' = [keys EXCEPT ![k] = NoRow] /\ view' = [view EXCEPT ![k] = Blank]
      /\ sub2' = Unsubscribed(gone) /\ Disable(gone) /\ command' = "DELETE" /\ Report(max)
  BY DEF Delete
<1>2. None = 0 /\ NoRow \in Rows /\ Blank \in ViewRows /\ Idle \in SubStates
  BY DEF None, NoRow, Row, Rows, Blank, ViewRows, Idle, NewSub, SubStates
<1>3. /\ keys'[k] = NoRow /\ view'[k] = Blank /\ table'[k] = None
      /\ \A q \in Keys : q # k => keys'[q] = keys[q] /\ view'[q] = view[q] /\ table'[q] = table[q]
      /\ keys' \in [Keys -> Rows] /\ view' \in [Keys -> ViewRows]
      /\ table' \in [Keys -> Values \cup {None}]
  BY <1>1, <1>2 DEF IInv, TypeOK
<1>4. \A q \in Keys : keys'[q].freq \in Frequencies \cup {None}
  BY <1>3 DEF Rows
<1>5. /\ max \in Frequencies \cup {None} /\ max \in Nat /\ strategy.real <= max
      /\ \A q \in Keys : keys'[q].freq <= max
  BY <1>4, Removed DEF IInv
<1>6. gone \subseteq SubIds /\ \A q \in Keys : q # k => keys[q].sub \notin gone
  BY Types DEF IInv, Distinct
<1> HIDE DEF gone, max
<1>7. /\ AggregateAgrees' /\ told' \in Frequencies \cup {None} /\ strategy' \in Strategies
      /\ strategy'.m = 2 /\ strategy'.requested = strategy.requested /\ strategy'.aggregate = max
  BY <1>1, <1>5, Reported DEF IInv
<1>8. TypeOK'
  <2>1. sub2' \in [SubIds -> SubStates]
    BY <1>1, <1>2 DEF IInv, TypeOK, Unsubscribed
  <2>2. disabled' \subseteq SubIds
    BY <1>1, <1>6 DEF IInv, TypeOK, Disable
  <2>3. \A q \in Keys : keys'[q].sub # None <=> keys'[q].s \in {4, 5}
    <3>1. keys'[k].sub # None <=> keys'[k].s \in {4, 5}
      BY <1>2, <1>3 DEF NoRow, Row
    <3> QED
      BY <1>3, <3>1 DEF IInv, TypeOK
  <2> QED
    BY <1>1, <1>3, <1>7, <2>1, <2>2, <2>3 DEF IInv, TypeOK, Strategies
<1>9. KeysAgree'
  <2> SUFFICES ASSUME NEW q \in Keys PROVE Known(q)'
    BY DEF KeysAgree
  <2>1. CASE q = k
    <3>1. None <= strategy'.aggregate
      BY <1>2, <1>5, <1>7
    <3> QED
      BY <1>2, <1>3, <2>1, <3>1 DEF Known, KeyAgrees, NoRow, Row, Blank
  <2>2. CASE q # k
    <3>1. Known(q)
      BY DEF IInv, KeysAgree
    <3>2. keys[q].freq <= strategy'.aggregate
      BY <1>3, <1>5, <1>7, <2>2
    <3>3. keys[q].sub # None =>
             sub2'[keys[q].sub] = sub2[keys[q].sub] /\ keys[q].sub \notin disabled'
      <4> SUFFICES ASSUME keys[q].sub # None
                   PROVE  /\ sub2'[keys[q].sub] = sub2[keys[q].sub]
                          /\ keys[q].sub \notin disabled'
        OBVIOUS
      <4>1. keys[q].sub \in SubIds /\ keys[q].sub \notin gone /\ keys[q].sub \notin disabled
        BY <1>6, <2>2, <3>1, Types DEF IInv, Known, SubAgrees
      <4> QED
        BY <1>1, <4>1 DEF Unsubscribed, Disable
    <3> QED
      BY <1>3, <1>7, <2>2, <3>1, <3>2, <3>3, KeyKept
  <2> QED
    BY <2>1, <2>2
<1>10. Owned'
  <2> SUFFICES ASSUME NEW id \in SubIds, sub2'[id].state # "none"
               PROVE  \E q \in Keys : keys'[q].sub = id
    BY DEF Owned
  <2>1. id \notin gone /\ sub2'[id] = sub2[id]
    BY <1>1 DEF Unsubscribed, Idle, NewSub
  <2>2. PICK q \in Keys : keys[q].sub = id
    BY <2>1 DEF IInv, Owned
  <2>3. q # k
    BY <2>1, <2>2, Types DEF IInv, gone
  <2> QED
    BY <1>3, <2>2, <2>3
<1>11. Distinct'
  BY <1>3 DEF IInv, Distinct, NoRow, Row
<1>12. EmptyAtFirst' /\ LatestIsKnown' /\ DeleteIsDecoded' /\ CallsLeft'
  BY <1>1, <1>3, <1>7 DEF EmptyAtFirst, LatestIsKnown, DeleteIsDecoded, CallsLeft, Disable, NoRow, Row
<1> QED
  BY <1>7, <1>8, <1>9, <1>10, <1>11, <1>12 DEF IInv

(* The key was not there, and has no second level if its name is not valid.*)
LEMMA FirstUpdateInv ==
    ASSUME IInv, NEW k \in Keys, NEW value \in Values, strategy.m = 2, FirstUpdate(k, value),
           table' = [table EXCEPT ![k] = value], sent' \in {"ADD", "UPDATE"}, latest' = k,
           calls' = calls
    PROVE  IInv'
<1>1. /\ keys[k].s = None /\ command' = "ADD"
      /\ view' = [view EXCEPT ![k] = [command |-> "ADD", first |-> value, second |-> None]]
      /\ UNCHANGED <<strategy, told, disabled>>
  BY DEF FirstUpdate, Show
<1>2. None = 0 /\ None \notin SubIds /\ keys[k] = NoRow /\ keys[k].sub = None
  BY <1>1, Types DEF IInv, KeysAgree, Known, KeyAgrees, NoRow, Row
<1>3. FreshSub \in SubIds \ Used
  BY <1>2, FreshSubExists DEF IInv
<1>4. PICK s \in {3, 4}, sub \in SubIds \cup {None} :
        /\ keys' = [keys EXCEPT ![k] = [s |-> s, sub |-> sub, first |-> value, second |-> None,
                                        freq |-> None]]
        /\ \/ s = 3 /\ sub = None /\ sub2' = sub2
           \/ /\ s = 4 /\ sub \in SubIds \ Used
              /\ sub2' = [sub2 EXCEPT ![sub] = [state |-> "asked", freq |-> strategy.requested,
                                                real |-> None, value |-> None]]
  <2>1. CASE k \in IllegalKeys
    <3>1. sub2' = sub2 /\ keys' = [keys EXCEPT ![k] = Row(3, None, value)]
      BY <2>1 DEF FirstUpdate
    <3> QED
      BY <3>1 DEF Row
  <2>2. CASE k \notin IllegalKeys
    <3>1. /\ keys' = [keys EXCEPT ![k] = Row(4, FreshSub, value)]
          /\ sub2' = [sub2 EXCEPT ![FreshSub] = NewSub("asked", strategy.requested)]
      BY <2>2 DEF FirstUpdate
    <3>2. PICK sub \in SubIds \ Used : sub = FreshSub
      BY <1>3
    <3> QED
      BY <3>1, <3>2 DEF Row, NewSub
  <2> QED
    BY <2>1, <2>2
<1>5. /\ [s |-> s, sub |-> sub, first |-> value, second |-> None, freq |-> None] \in Rows
      /\ [command |-> "ADD", first |-> value, second |-> None] \in ViewRows
      /\ [state |-> "asked", freq |-> strategy.requested, real |-> None, value |-> None] \in SubStates
  BY Types DEF IInv, Rows, ViewRows, SubStates
<1>6. /\ keys'[k] = [s |-> s, sub |-> sub, first |-> value, second |-> None, freq |-> None]
      /\ view'[k] = [command |-> "ADD", first |-> value, second |-> None] /\ table'[k] = value
      /\ \A q \in Keys : q # k => keys'[q] = keys[q] /\ view'[q] = view[q] /\ table'[q] = table[q]
      /\ keys' \in [Keys -> Rows] /\ view' \in [Keys -> ViewRows]
      /\ table' \in [Keys -> Values \cup {None}]
  BY <1>1, <1>4, <1>5 DEF IInv, TypeOK
<1>7. /\ sub2' \in [SubIds -> SubStates]
      /\ \A id \in SubIds : id # sub \/ s = 3 => sub2'[id] = sub2[id]
      /\ s = 4 => /\ sub # None
                  /\ sub2'[sub] = [state |-> "asked", freq |-> strategy.requested,
                                   real |-> None, value |-> None]
                  /\ \A q \in Keys : keys[q].sub # sub
                  /\ \A i \in DOMAIN calls : calls[i].id # sub
                  /\ sub \notin disabled
  <2>1. CASE s = 3 /\ sub2' = sub2
    BY <2>1 DEF IInv, TypeOK
  <2>2. CASE /\ s = 4 /\ sub \in SubIds \ Used
             /\ sub2' = [sub2 EXCEPT ![sub] = [state |-> "asked", freq |-> strategy.requested,
                                               real |-> None, value |-> None]]
    <3>1. /\ \A q \in Keys : keys[q].sub # sub
          /\ \A i \in DOMAIN calls : calls[i].id # sub
      BY <2>2 DEF Used
    <3>2. sub \notin disabled
      BY <3>1 DEF IInv, CallsLeft
    <3>3. /\ sub2' \in [SubIds -> SubStates]
          /\ \A id \in SubIds : id # sub => sub2'[id] = sub2[id]
          /\ sub2'[sub] = [state |-> "asked", freq |-> strategy.requested,
                           real |-> None, value |-> None]
      BY <1>5, <2>2 DEF IInv, TypeOK
    <3> QED
      BY <1>2, <2>2, <3>1, <3>2, <3>3
  <2> QED
    BY <1>4, <2>1, <2>2
<1>8. TypeOK'
  <2>1. \A q \in Keys : keys'[q].sub # None <=> keys'[q].s \in {4, 5}
    <3>1. keys'[k].sub # None <=> keys'[k].s \in {4, 5}
      BY <1>2, <1>4, <1>6
    <3> QED
      BY <1>6, <3>1 DEF IInv, TypeOK
  <2> QED
    BY <1>1, <1>6, <1>7, <2>1 DEF IInv, TypeOK
<1>9. KeysAgree'
  <2> SUFFICES ASSUME NEW q \in Keys PROVE Known(q)'
    BY DEF KeysAgree
  <2>1. CASE q = k
    <3>1. None <= strategy'.aggregate
      BY <1>1, <1>2, Types DEF IInv
    <3>2. KeyAgrees(k)'
      BY <1>2, <1>6, <3>1 DEF KeyAgrees
    <3>3. ASSUME keys'[k].sub # None
          PROVE  SubAgrees(sub, k)'
      <4>1. s = 4 /\ sub \notin disabled'
        BY <1>1, <1>4, <1>6, <1>7, <3>3
      <4>2. \A events : Follows(calls, sub, events, None, None)
        BY <1>7, <4>1, NothingToTell
      <4>3. /\ sub2'[sub].freq = strategy'.requested /\ sub2'[sub].real = None
            /\ sub2'[sub].value = None /\ keys'[k].freq = None /\ keys'[k].second = None
        BY <1>1, <1>6, <1>7, <4>1
      <4> QED
        BY <4>1, <4>2, <4>3 DEF SubAgrees
    <3>4. keys'[k].sub = sub
      BY <1>6
    <3> QED
      BY <2>1, <3>2, <3>3, <3>4 DEF Known
  <2>2. CASE q # k
    <3>1. Known(q) /\ keys[q].freq <= strategy'.aggregate
      BY <1>1 DEF IInv, KeysAgree, Known, KeyAgrees
    <3>2. keys[q].sub # None =>
             sub2'[keys[q].sub] = sub2[keys[q].sub] /\ keys[q].sub \notin disabled'
      BY <1>1, <1>7, <3>1, Types DEF IInv, Known, SubAgrees
    <3> QED
      BY <1>1, <1>6, <2>2, <3>1, <3>2, KeyKept
  <2> QED
    BY <2>1, <2>2
<1>10. Owned'
  <2> SUFFICES ASSUME NEW id \in SubIds, sub2'[id].state # "none"
               PROVE  \E q \in Keys : keys'[q].sub = id
    BY DEF Owned
  <2>1. CASE id = sub /\ s = 4
    BY <1>6, <2>1
  <2>2. CASE ~(id = sub /\ s = 4)
    <3>1. sub2'[id] = sub2[id]
      BY <1>7, <2>2
    <3>2. PICK q \in Keys : keys[q].sub = id
      BY <3>1 DEF IInv, Owned
    <3>3. q # k
      BY <1>2, <3>2
    <3> QED
      BY <1>6, <3>2, <3>3
  <2> QED
    BY <2>1, <2>2
<1>11. Distinct'
  <2> SUFFICES ASSUME NEW j \in Keys, NEW q \in Keys, keys'[j].sub = keys'[q].sub,
                      keys'[j].sub # None, j # q
               PROVE  FALSE
    BY DEF Distinct
  <2>1. CASE j # k /\ q # k
    BY <1>6, <2>1 DEF IInv, Distinct
  <2>2. keys'[k].sub # None => \A p \in Keys : p # k => keys'[p].sub # keys'[k].sub
    BY <1>4, <1>6, <1>7
  <2> QED
    BY <2>1, <2>2
<1>12. EmptyAtFirst' /\ LatestIsKnown' /\ DeleteIsDecoded' /\ CallsLeft' /\ AggregateAgrees'
  BY <1>1 DEF IInv, EmptyAtFirst, LatestIsKnown, DeleteIsDecoded, CallsLeft, AggregateAgrees
<1> QED
  BY <1>8, <1>9, <1>10, <1>11, <1>12 DEF IInv

(* A change of one key that its subscription of the second level does not  *)
(* notice.                                                                 *)
LEMMA UpdateInv ==
    ASSUME IInv, NEW k \in Keys, NEW value \in Values, strategy.m = 2, Update(k, value),
           table' = [table EXCEPT ![k] = value], sent' \in {"ADD", "UPDATE"}, latest' = k,
           calls' = calls
    PROVE  IInv'
<1>1. /\ keys[k].s # None /\ command' = "UPDATE"
      /\ keys' = [keys EXCEPT ![k].first = value]
      /\ view' = [view EXCEPT ![k] = [command |-> "UPDATE", first |-> value, second |-> Second(k)]]
      /\ UNCHANGED <<strategy, told, sub2, disabled>>
  BY DEF Update, Show
<1>2. Known(k) /\ KeyAgrees(k) /\ keys[k] \in Rows
  BY Types DEF IInv, KeysAgree, Known
<1>3. Second(k) = keys[k].second /\ keys[k].second \in Values \cup {None}
  BY <1>1, <1>2, Types DEF IInv, KeyAgrees, Second
<1>4. PICK row \in Rows : row = keys[k]
  BY <1>2
<1>5. keys' = [keys EXCEPT ![k] = [row EXCEPT !.first = value]]
  BY <1>1, <1>4
<1>6. /\ [row EXCEPT !.first = value] \in Rows /\ [row EXCEPT !.first = value].s = row.s
      /\ [row EXCEPT !.first = value].sub = row.sub /\ [row EXCEPT !.first = value].first = value
      /\ [row EXCEPT !.first = value].second = row.second
      /\ [row EXCEPT !.first = value].freq = row.freq
  BY DEF Rows
<1>7. [command |-> "UPDATE", first |-> value, second |-> Second(k)] \in ViewRows
  BY <1>3 DEF ViewRows
<1>8. /\ keys'[k].s = keys[k].s /\ keys'[k].sub = keys[k].sub /\ keys'[k].first = value
      /\ keys'[k].second = keys[k].second /\ keys'[k].freq = keys[k].freq
      /\ view'[k] = [command |-> "UPDATE", first |-> value, second |-> keys[k].second]
      /\ table'[k] = value
      /\ \A q \in Keys : q # k => keys'[q] = keys[q] /\ view'[q] = view[q] /\ table'[q] = table[q]
      /\ keys' \in [Keys -> Rows] /\ view' \in [Keys -> ViewRows]
      /\ table' \in [Keys -> Values \cup {None}]
  BY <1>1, <1>3, <1>4, <1>5, <1>6, <1>7 DEF IInv, TypeOK
<1>9. TypeOK'
  <2>1. \A q \in Keys : keys'[q].sub # None <=> keys'[q].s \in {4, 5}
    BY <1>8 DEF IInv, TypeOK
  <2> QED
    BY <1>1, <1>8, <2>1 DEF IInv, TypeOK
<1>10. KeysAgree'
  <2> SUFFICES ASSUME NEW q \in Keys PROVE Known(q)'
    BY DEF KeysAgree
  <2>1. CASE q = k
    <3>1. KeyAgrees(k)'
      BY <1>1, <1>2, <1>8 DEF KeyAgrees
    <3>2. ASSUME NEW id, id = keys[k].sub, id # None
          PROVE  SubAgrees(id, k)'
      <4>1. SubAgrees(id, k)
        BY <1>2, <3>2 DEF Known
      <4> QED
        BY <1>1, <1>8, <4>1 DEF SubAgrees, Follows
    <3> QED
      BY <1>8, <2>1, <3>1, <3>2 DEF Known
  <2>2. CASE q # k
    <3>1. Known(q) /\ keys[q].freq <= strategy'.aggregate
      BY <1>1 DEF IInv, KeysAgree, Known, KeyAgrees
    <3>2. keys[q].sub # None =>
             sub2'[keys[q].sub] = sub2[keys[q].sub] /\ keys[q].sub \notin disabled'
      BY <1>1, <3>1 DEF Known, SubAgrees
    <3> QED
      BY <1>1, <1>8, <2>2, <3>1, <3>2, KeyKept
  <2> QED
    BY <2>1, <2>2
<1>11. \A q \in Keys : keys'[q].sub = keys[q].sub
  BY <1>8
<1>12. Owned' /\ Distinct'
  BY <1>1, <1>11 DEF IInv, Owned, Distinct
<1>13. EmptyAtFirst' /\ LatestIsKnown' /\ DeleteIsDecoded' /\ CallsLeft' /\ AggregateAgrees'
  BY <1>1 DEF IInv, EmptyAtFirst, LatestIsKnown, DeleteIsDecoded, CallsLeft, AggregateAgrees
<1> QED
  BY <1>9, <1>10, <1>12, <1>13 DEF IInv

LEMMA ServerUpdatesInv ==
    ASSUME IInv, ServerUpdates
    PROVE  IInv'
<1>1. PICK k \in Keys, cmd \in {"ADD", "UPDATE", "DELETE"}, value \in Values :
        /\ table' = [table EXCEPT ![k] = IF cmd = "DELETE" THEN None ELSE value]
        /\ sent' = cmd /\ evtUpdate(k, cmd, value, sent = cmd)
  BY DEF ServerUpdates
<1>2. Decoded(cmd, sent = cmd) = "DELETE" <=> cmd = "DELETE"
  BY DEF IInv, DeleteIsDecoded, Decoded
<1>3. /\ strategy.m = 2 /\ latest' = k /\ calls' = calls
      /\ IF cmd = "DELETE" THEN Delete(k) ELSE FirstUpdate(k, value) \/ Update(k, value)
  BY <1>1, <1>2 DEF evtUpdate
<1>4. CASE cmd = "DELETE"
  <2>1. Delete(k) /\ table' = [table EXCEPT ![k] = None] /\ sent' = "DELETE"
    BY <1>1, <1>3, <1>4
  <2> QED
    BY <1>3, <2>1, DeleteInv
<1>5. CASE cmd # "DELETE"
  <2>1. /\ FirstUpdate(k, value) \/ Update(k, value)
        /\ table' = [table EXCEPT ![k] = value] /\ sent' \in {"ADD", "UPDATE"}
    BY <1>1, <1>3, <1>5
  <2>2. CASE FirstUpdate(k, value)
    BY <1>3, <2>1, <2>2, FirstUpdateInv
  <2>3. CASE Update(k, value)
    BY <1>3, <2>1, <2>3, UpdateInv
  <2> QED
    BY <2>1, <2>2, <2>3
<1> QED
  BY <1>4, <1>5

-----------------------------------------------------------------------------
(* The subscriptions of the second level: what changes for one of them is  *)
(* told by the call that is queued.                                        *)
LEMMA DispatchIsCall ==
    ASSUME IInv, NEW id \in SubIds, sub2[id].state # "none", NEW event \in Events, NEW arg \in Nat,
           event = "onItemUpdate" => arg \in Values,
           event = "onRealMaxFrequency" => arg \in Frequencies,
           event \in {"onSubscriptionError", "onUnsubscription"} => arg = None,
           Dispatch(id, event, arg)
    PROVE  /\ UNCHANGED <<client, table, sent, view, told>> /\ Len(calls') <= MaxCalls
           /\ \E call \in Calls : /\ call.id = id /\ call.event = event /\ call.arg = arg
                                  /\ calls' = Append(calls, call)
<1>1. \E k \in Keys : keys[k].sub = id
  BY DEF IInv, Owned
<1>2. PICK key \in Keys : key = CHOOSE k \in Keys : keys[k].sub = id
  BY <1>1
<1>3. PICK call : call = [id |-> id, key |-> key, event |-> event, arg |-> arg]
  OBVIOUS
<1>4. call \in Calls /\ call.id = id /\ call.event = event /\ call.arg = arg
  BY <1>3 DEF Calls
<1>5. calls' = Append(calls, call) /\ Len(calls) < MaxCalls
      /\ UNCHANGED <<client, table, sent, view, told>>
  BY <1>2, <1>3 DEF Dispatch
<1>6. Len(calls') = Len(calls) + 1 /\ Len(calls) \in Nat /\ MaxCalls \in Nat
  BY <1>4, <1>5, Appended, Types, TwoLevelAssumption DEF IInv
<1> QED
  BY <1>4, <1>5, <1>6

LEMMA SecondLevelStep ==
    ASSUME IInv, NEW id \in SubIds, NEW sub \in SubStates, sub2' = [sub2 EXCEPT ![id] = sub],
           sub.freq = sub2[id].freq, sub.state # "none" => sub2[id].state # "none",
           UNCHANGED <<client, table, sent, view, told>>, Len(calls') <= MaxCalls,
           \/ calls' = calls
           \/ \E call \in Calls : call.id = id /\ calls' = Append(calls, call),
           \A old : Follows(calls, id, FreqEvents, old, sub2[id].real)
                       => Follows(calls', id, FreqEvents, old, sub.real),
           sub.state # "none" =>
              \A old : Follows(calls, id, UpdateEvents, old, sub2[id].value)
                          => Follows(calls', id, UpdateEvents, old, sub.value)
    PROVE  IInv'
<1>1. UNCHANGED <<strategy, keys, command, latest, disabled, table, sent, view, told>>
  BY DEF client
<1>2. /\ sub2' \in [SubIds -> SubStates] /\ sub2'[id] = sub
      /\ \A other \in SubIds : other # id => sub2'[other] = sub2[other]
  BY DEF IInv, TypeOK
<1>3. calls' \in Seq(Calls) /\ \A i \in DOMAIN calls : i \in DOMAIN calls' /\ calls'[i] = calls[i]
  <2>1. calls \in Seq(Calls)
    BY Types DEF IInv
  <2>2. CASE calls' = calls
    BY <2>1, <2>2
  <2>3. CASE \E call \in Calls : call.id = id /\ calls' = Append(calls, call)
    <3>1. PICK call \in Calls : calls' = Append(calls, call)
      BY <2>3
    <3> QED
      BY <2>1, <3>1, Appended
  <2> QED
    BY <2>2, <2>3
<1>4. TypeOK'
  BY <1>1, <1>2, <1>3 DEF IInv, TypeOK
<1>5. KeysAgree'
  <2> SUFFICES ASSUME NEW k \in Keys PROVE Known(k)'
    BY DEF KeysAgree
  <2>1. Known(k)
    BY DEF IInv, KeysAgree
  <2>2. KeyAgrees(k)'
    BY <1>1, <2>1 DEF Known, KeyAgrees
  <2>3. ASSUME NEW other \in SubIds, other = keys[k].sub, other # None
        PROVE  SubAgrees(other, k)'
    <3>1. SubAgrees(other, k)
      BY <2>1, <2>3 DEF Known
    <3>2. CASE other = id
      <4>1. Follows(calls, id, FreqEvents, keys[k].freq, sub2[id].real)
            /\ id \notin disabled /\ sub2[id].freq = strategy.requested
        BY <3>1, <3>2 DEF SubAgrees
      <4>2. Follows(calls', id, FreqEvents, keys[k].freq, sub.real)
        BY <4>1
      <4>3. ASSUME sub.state # "none"
            PROVE  Follows(calls', id, UpdateEvents, keys[k].second, sub.value)
        <5>1. Follows(calls, id, UpdateEvents, keys[k].second, sub2[id].value)
          BY <3>1, <3>2, <4>3 DEF SubAgrees
        <5> QED
          BY <4>3, <5>1
      <4> QED
        BY <1>1, <1>2, <3>2, <4>1, <4>2, <4>3 DEF SubAgrees
    <3>3. CASE other # id
      <4>1. sub2'[other] = sub2[other]
        BY <1>2, <3>3
      <4>2. ASSUME NEW events, NEW old, NEW new, Follows(calls, other, events, old, new)
            PROVE  Follows(calls', other, events, old, new)
        <5>1. CASE calls' = calls
          BY <4>2, <5>1
        <5>2. CASE \E call \in Calls : call.id = id /\ calls' = Append(calls, call)
          <6>1. PICK call \in Calls : call.id = id /\ calls' = Append(calls, call)
            BY <5>2
          <6>2. ~Matches(call, other, events)
            BY <3>3, <6>1 DEF Matches
          <6> QED
            BY <4>2, <6>1, <6>2, OtherAppended, Types DEF IInv
        <5> QED
          BY <5>1, <5>2
      <4> QED
        BY <1>1, <3>1, <4>1, <4>2 DEF SubAgrees
    <3> QED
      BY <3>2, <3>3
  <2>4. keys[k].sub # None => keys[k].sub \in SubIds
    BY Types DEF IInv
  <2> QED
    BY <1>1, <2>2, <2>3, <2>4 DEF Known
<1>6. Owned'
  <2> SUFFICES ASSUME NEW other \in SubIds, sub2'[other].state # "none"
               PROVE  \E k \in Keys : keys'[k].sub = other
    BY DEF Owned
  <2>1. sub2[other].state # "none"
    BY <1>2
  <2> QED
    BY <1>1, <2>1 DEF IInv, Owned
<1>7. EmptyAtFirst' /\ LatestIsKnown' /\ DeleteIsDecoded' /\ Distinct' /\ AggregateAgrees'
  BY <1>1 DEF IInv, EmptyAtFirst, LatestIsKnown, DeleteIsDecoded, Distinct, AggregateAgrees
<1>8. CallsLeft'
  BY <1>1, <1>3 DEF IInv, CallsLeft
<1> QED
  BY <1>4, <1>5, <1>6, <1>7, <1>8 DEF IInv

LEMMA AcceptedInv ==
    ASSUME IInv, NEW id \in SubIds, Sub2Accepted(id)
    PROVE  IInv'
<1>1. PICK old \in SubStates : old = sub2[id]
  BY Types DEF IInv
<1>2. PICK sub : sub = [old EXCEPT !.state = "on"]
  OBVIOUS
<1>3. /\ sub \in SubStates /\ sub.freq = sub2[id].freq /\ sub.real = sub2[id].real
      /\ sub.value = sub2[id].value
  BY <1>1, <1>2 DEF SubStates
<1>4. /\ sub2[id].state = "asked" /\ sub2' = [sub2 EXCEPT ![id] = sub] /\ calls' = calls
      /\ UNCHANGED <<client, table, sent, view, told>>
  BY <1>1, <1>2 DEF Sub2Accepted
<1>5. Len(calls') <= MaxCalls
  BY <1>4 DEF IInv, TypeOK
<1> QED
  BY <1>3, <1>4, <1>5, SecondLevelStep

(* The call tells the frequency, the update or the end.                    *)
LEMMA DispatchedInv ==
    ASSUME IInv, NEW id \in SubIds, sub2[id].state # "none", NEW event \in Events, NEW arg \in Nat,
           event = "onItemUpdate" => arg \in Values,
           event = "onRealMaxFrequency" => arg \in Frequencies,
           event \in {"onSubscriptionError", "onUnsubscription"} => arg = None,
           Dispatch(id, event, arg),
           NEW sub \in SubStates, sub2' = [sub2 EXCEPT ![id] = sub], sub.freq = sub2[id].freq,
           IF event \in FreqEvents THEN sub.real = arg ELSE sub.real = sub2[id].real,
           sub.state # "none" =>
              IF event \in UpdateEvents THEN sub.value = arg ELSE sub.value = sub2[id].value
    PROVE  IInv'
<1>1. PICK call \in Calls : /\ call.id = id /\ call.event = event /\ call.arg = arg
                            /\ calls' = Append(calls, call)
  BY DispatchIsCall
<1>2. UNCHANGED <<client, table, sent, view, told>> /\ Len(calls') <= MaxCalls
  BY DispatchIsCall
<1>3. ASSUME NEW events, NEW old, NEW was, NEW is,
             IF event \in events THEN is = arg ELSE is = was,
             Follows(calls, id, events, old, was)
      PROVE  Follows(calls', id, events, old, is)
  <2>1. calls \in Seq(Calls)
    BY Types DEF IInv
  <2>2. CASE event \in events
    <3>1. Matches(call, id, events)
      BY <1>1, <2>2 DEF Matches
    <3> QED
      BY <1>1, <1>3, <2>1, <2>2, <3>1, NewsAppended
  <2>3. CASE event \notin events
    <3>1. ~Matches(call, id, events)
      BY <1>1, <2>3 DEF Matches
    <3> QED
      BY <1>1, <1>3, <2>1, <2>3, <3>1, OtherAppended
  <2> QED
    BY <2>2, <2>3
<1>4. \A old : Follows(calls, id, FreqEvents, old, sub2[id].real)
                  => Follows(calls', id, FreqEvents, old, sub.real)
  BY <1>3
<1>5. sub.state # "none" =>
         \A old : Follows(calls, id, UpdateEvents, old, sub2[id].value)
                     => Follows(calls', id, UpdateEvents, old, sub.value)
  BY <1>3
<1> QED
  BY <1>1, <1>2, <1>4, <1>5, SecondLevelStep

LEMMA RefusedInv ==
    ASSUME IInv, NEW id \in SubIds, Sub2Refused(id)
    PROVE  IInv'
<1>1. PICK old \in SubStates : old = sub2[id]
  BY Types DEF IInv
<1>2. PICK sub : sub = [old EXCEPT !.state = "none"]
  OBVIOUS
<1>3. sub \in SubStates /\ sub.freq = old.freq /\ sub.real = old.real /\ sub.state = "none"
  BY <1>2 DEF SubStates
<1>4. /\ sub2[id].state = "asked" /\ sub2' = [sub2 EXCEPT ![id] = sub]
      /\ Dispatch(id, "onSubscriptionError", None)
  BY <1>1, <1>2 DEF Sub2Refused
<1>5. /\ "onSubscriptionError" \in Events /\ None \in Nat
      /\ "onSubscriptionError" \notin FreqEvents
  BY Types DEF IInv, Events, FreqEvents
<1>6. PICK event \in Events, arg \in Nat : event = "onSubscriptionError" /\ arg = None
  BY <1>5
<1>7. Dispatch(id, event, arg)
  BY <1>4, <1>6
<1> QED
  BY <1>1, <1>3, <1>4, <1>5, <1>6, <1>7, DispatchedInv

LEMMA ClosedInv ==
    ASSUME IInv, NEW id \in SubIds, Sub2Closed(id)
    PROVE  IInv'
<1>1. PICK sub : sub = NewSub("none", sub2[id].freq)
  OBVIOUS
<1>2. sub \in SubStates /\ sub.freq = sub2[id].freq /\ sub.real = None /\ sub.state = "none"
  BY <1>1, Types DEF IInv, SubStates, NewSub
<1>3. /\ sub2[id].state = "on" /\ sub2' = [sub2 EXCEPT ![id] = sub]
      /\ Dispatch(id, "onUnsubscription", None)
  BY <1>1 DEF Sub2Closed
<1>4. "onUnsubscription" \in Events /\ None \in Nat /\ "onUnsubscription" \in FreqEvents
  BY Types DEF IInv, Events, FreqEvents
<1>5. PICK event \in Events, arg \in Nat : event = "onUnsubscription" /\ arg = None
  BY <1>4
<1>6. Dispatch(id, event, arg)
  BY <1>3, <1>5
<1> QED
  BY <1>2, <1>3, <1>4, <1>5, <1>6, DispatchedInv

LEMMA ConfiguredInv ==
    ASSUME IInv, NEW id \in SubIds, Sub2Conf(id)
    PROVE  IInv'
<1>1. PICK freq \in Frequencies :
        /\ sub2[id].state = "on" /\ sub2' = [sub2 EXCEPT ![id].real = freq]
        /\ Dispatch(id, "onRealMaxFrequency", freq)
  BY DEF Sub2Conf
<1>2. PICK old \in SubStates : old = sub2[id]
  BY Types DEF IInv
<1>3. PICK sub : sub = [old EXCEPT !.real = freq]
  OBVIOUS
<1>4. sub \in SubStates /\ sub.freq = old.freq /\ sub.real = freq /\ sub.value = old.value
  BY <1>3 DEF SubStates
<1>5. sub2' = [sub2 EXCEPT ![id] = sub] /\ freq \in Nat
  BY <1>1, <1>2, <1>3, Types DEF IInv
<1>6. /\ "onRealMaxFrequency" \in Events /\ "onRealMaxFrequency" \in FreqEvents
      /\ "onRealMaxFrequency" \notin UpdateEvents
  BY DEF Events, FreqEvents, UpdateEvents
<1>7. PICK event \in Events, arg \in Nat : event = "onRealMaxFrequency" /\ arg = freq
  BY <1>5, <1>6
<1>8. Dispatch(id, event, arg)
  BY <1>1, <1>7
<1>9. /\ sub2[id].state # "none" /\ sub.freq = sub2[id].freq
      /\ IF event \in FreqEvents THEN sub.real = arg ELSE sub.real = sub2[id].real
      /\ IF event \in UpdateEvents THEN sub.value = arg ELSE sub.value = sub2[id].value
  BY <1>1, <1>2, <1>4, <1>6, <1>7
<1> QED
  BY <1>4, <1>5, <1>7, <1>8, <1>9, DispatchedInv

LEMMA UpdatedInv ==
    ASSUME IInv, NEW id \in SubIds, Sub2Update(id)
    PROVE  IInv'
<1>1. PICK value \in Values :
        /\ sub2[id].state = "on" /\ sub2' = [sub2 EXCEPT ![id].value = value]
        /\ Dispatch(id, "onItemUpdate", value)
  BY DEF Sub2Update
<1>2. PICK old \in SubStates : old = sub2[id]
  BY Types DEF IInv
<1>3. PICK sub : sub = [old EXCEPT !.value = value]
  OBVIOUS
<1>4. sub \in SubStates /\ sub.freq = old.freq /\ sub.real = old.real /\ sub.value = value
  BY <1>3 DEF SubStates
<1>5. sub2' = [sub2 EXCEPT ![id] = sub] /\ value \in Nat
  BY <1>1, <1>2, <1>3, TwoLevelAssumption
<1>6. "onItemUpdate" \in Events /\ "onItemUpdate" \in UpdateEvents /\ "onItemUpdate" \notin FreqEvents
  BY DEF Events, FreqEvents, UpdateEvents
<1>7. PICK event \in Events, arg \in Nat : event = "onItemUpdate" /\ arg = value
  BY <1>5, <1>6
<1>8. Dispatch(id, event, arg)
  BY <1>1, <1>7
<1>9. /\ sub2[id].state # "none" /\ sub.freq = sub2[id].freq
      /\ IF event \in FreqEvents THEN sub.real = arg ELSE sub.real = sub2[id].real
      /\ IF event \in UpdateEvents THEN sub.value = arg ELSE sub.value = sub2[id].value
  BY <1>1, <1>2, <1>4, <1>6, <1>7
<1> QED
  BY <1>4, <1>5, <1>7, <1>8, <1>9, DispatchedInv

LEMMA SecondLevelInv ==
    ASSUME IInv, SecondLevel
    PROVE  IInv'
  BY AcceptedInv, RefusedInv, ConfiguredInv, UpdatedInv, ClosedInv DEF SecondLevel

-----------------------------------------------------------------------------
(* A call runs on the thread of the user.                                  *)
Taken ==
    /\ calls # <<>> /\ calls' = Tail(calls)
    /\ disabled' = {id \in disabled : \E i \in DOMAIN Tail(calls) : Tail(calls)[i].id = id}

(* A key with another subscription, or with none.                          *)
LEMMA KeyNotConcerned ==
    ASSUME IInv, Taken, NEW k \in Keys, keys'[k] = keys[k], table'[k] = table[k],
           view'[k] = view[k], keys[k].freq <= strategy'.aggregate,
           keys[k].sub # None =>
              /\ sub2'[keys[k].sub] = sub2[keys[k].sub]
              /\ strategy'.requested = strategy.requested
              /\ Head(calls).id # keys[k].sub \/ Head(calls).event = "onSubscriptionError"
    PROVE  Known(k)'
<1>1. Known(k)
  BY DEF IInv, KeysAgree
<1>2. KeyAgrees(k)'
  BY <1>1 DEF Known, KeyAgrees
<1>3. ASSUME NEW id, id = keys[k].sub, id # None
      PROVE  SubAgrees(id, k)'
  <2>1. SubAgrees(id, k) /\ sub2'[id] = sub2[id] /\ strategy'.requested = strategy.requested
    BY <1>1, <1>3 DEF Known
  <2>2. id \notin disabled'
    BY <2>1 DEF Taken, SubAgrees
  <2>3. ~Matches(Head(calls), id, FreqEvents) /\ ~Matches(Head(calls), id, UpdateEvents)
    BY <1>3 DEF Matches, FreqEvents, UpdateEvents
  <2>4. \A old, new :
           /\ Follows(calls, id, FreqEvents, old, new) => Follows(calls', id, FreqEvents, old, new)
           /\ Follows(calls, id, UpdateEvents, old, new) => Follows(calls', id, UpdateEvents, old, new)
    BY <2>3, OtherTaken, Types DEF IInv, Taken
  <2> QED
    BY <2>1, <2>2, <2>4 DEF SubAgrees
<1> QED
  BY <1>2, <1>3 DEF Known

(* What holds of the queue, and what a step that concerns one key leaves.  *)
LEMMA TakenFacts ==
    ASSUME IInv, Taken
    PROVE  /\ CallsLeft' /\ disabled' \subseteq SubIds
           /\ calls' \in Seq(Calls) /\ Len(calls') <= MaxCalls /\ Head(calls) \in Calls
<1>1. Len(calls') = Len(calls) - 1 /\ calls' \in Seq(Calls) /\ Len(calls) \in Nat
      /\ Head(calls) \in Calls
  BY Shorter, Types DEF IInv, Taken
<1>2. Len(calls) <= MaxCalls /\ MaxCalls \in Nat
  BY TwoLevelAssumption DEF IInv, TypeOK
<1> QED
  BY <1>1, <1>2 DEF IInv, TypeOK, Taken, CallsLeft

LEMMA NoReceiverInv ==
    ASSUME IInv, Taken, \A k \in Keys : keys[k].sub # Head(calls).id,
           UNCHANGED <<keys, sub2, strategy, told, view, command, latest, table, sent>>
    PROVE  IInv'
<1>1. TypeOK' /\ CallsLeft'
  BY TakenFacts DEF IInv, TypeOK
<1>2. KeysAgree'
  <2> SUFFICES ASSUME NEW k \in Keys PROVE Known(k)'
    BY DEF KeysAgree
  <2>1. keys[k].freq <= strategy'.aggregate
    BY DEF IInv, KeysAgree, Known, KeyAgrees
  <2> QED
    BY <2>1, KeyNotConcerned
<1>3. EmptyAtFirst' /\ LatestIsKnown' /\ DeleteIsDecoded' /\ Owned' /\ Distinct' /\ AggregateAgrees'
  BY DEF IInv, EmptyAtFirst, LatestIsKnown, DeleteIsDecoded, Owned, Distinct, AggregateAgrees
<1> QED
  BY <1>1, <1>2, <1>3 DEF IInv

(* The one key that a call is for.                                         *)
LEMMA OneReceiver ==
    ASSUME IInv, calls # <<>>, NEW k \in Keys, keys[k].sub = Head(calls).id
    PROVE  /\ strategy.m = 2 /\ keys[k].sub \in SubIds /\ keys[k].sub # None
           /\ keys[k].s \in {4, 5} /\ SubAgrees(keys[k].sub, k) /\ KeyAgrees(k)
           /\ \A q \in Keys : q # k => keys[q].sub # Head(calls).id
           /\ command = "DELETE" => latest # k
<1>1. Head(calls) \in Calls
  BY Shorter, Types DEF IInv
<1>2. keys[k].sub \in SubIds /\ keys[k].sub # None
  BY <1>1, Types DEF IInv, Calls
<1>3. strategy.m = 2
  BY <1>2 DEF IInv, EmptyAtFirst, NoRow, Row
<1>4. keys[k].s \in {4, 5} /\ keys[k].s # None
  BY <1>2, Types DEF IInv, TypeOK
<1>5. SubAgrees(keys[k].sub, k) /\ KeyAgrees(k)
  BY <1>2 DEF IInv, KeysAgree, Known
<1>6. \A q \in Keys : q # k => keys[q].sub # Head(calls).id
  BY <1>2 DEF IInv, Distinct
<1>7. command = "DELETE" => latest # k
  BY <1>4 DEF IInv, LatestIsKnown
<1> QED
  BY <1>2, <1>3, <1>4, <1>5, <1>6, <1>7

(* A call that changes only its key, and keeps its subscription.           *)
LEMMA ReceiverInv ==
    ASSUME IInv, Taken, NEW k \in Keys, keys[k].sub = Head(calls).id,
           NEW row \in Rows, keys' = [keys EXCEPT ![k] = row],
           row.sub = keys[k].sub, row.s \in {4, 5}, row.first = keys[k].first,
           row.s = 4 => row.second = None, row.freq <= strategy'.aggregate,
           NEW shown \in ViewRows, view' = [view EXCEPT ![k] = shown], shown.command # "none",
           shown.first = keys[k].first, shown.second = row.second,
           IF Head(calls).event \in FreqEvents THEN row.freq = Head(calls).arg
                                               ELSE row.freq = keys[k].freq,
           IF Head(calls).event \in UpdateEvents THEN row.second = Head(calls).arg
                                                 ELSE row.second = keys[k].second,
           \A q \in Keys : q # k => keys[q].freq <= strategy'.aggregate,
           command' \in {"none", "ADD", "UPDATE", "DELETE"},
           command' = command \/ (latest = k /\ command' = "UPDATE"),
           strategy' \in Strategies, strategy'.m = 2, strategy'.requested = strategy.requested,
           told' \in Frequencies \cup {None}, AggregateAgrees',
           UNCHANGED <<sub2, latest, table, sent>>
    PROVE  IInv'
<1>1. /\ strategy.m = 2 /\ keys[k].sub \in SubIds /\ keys[k].sub # None
      /\ keys[k].s \in {4, 5} /\ SubAgrees(keys[k].sub, k) /\ KeyAgrees(k)
      /\ \A q \in Keys : q # k => keys[q].sub # Head(calls).id
      /\ command = "DELETE" => latest # k
  BY OneReceiver DEF Taken
<1>2. /\ keys' \in [Keys -> Rows] /\ view' \in [Keys -> ViewRows]
      /\ keys'[k] = row /\ view'[k] = shown
      /\ \A q \in Keys : q # k => keys'[q] = keys[q] /\ view'[q] = view[q]
  BY DEF IInv, TypeOK
<1>3. TypeOK'
  <2>1. \A q \in Keys : keys'[q].sub # None <=> keys'[q].s \in {4, 5}
    BY <1>1, <1>2 DEF IInv, TypeOK
  <2>2. /\ disabled' \subseteq SubIds /\ calls' \in Seq(Calls) /\ Len(calls') <= MaxCalls
    BY TakenFacts
  <2> QED
    BY <1>2, <2>1, <2>2 DEF IInv, TypeOK, Strategies
<1>4. KeysAgree'
  <2> SUFFICES ASSUME NEW q \in Keys PROVE Known(q)'
    BY DEF KeysAgree
  <2>1. CASE q = k
    <3>1. row.s # None /\ row.s # 3
      BY Types DEF IInv
    <3>2. KeyAgrees(k)'
      BY <1>1, <1>2, <3>1 DEF KeyAgrees
    <3>3. PICK id \in SubIds : id = keys[k].sub
      BY <1>1
    <3>4. /\ SubAgrees(id, k) /\ Head(calls).id = id /\ sub2'[id] = sub2[id]
          /\ strategy'.requested = strategy.requested /\ id \notin disabled'
      BY <1>1, <3>3 DEF Taken, SubAgrees
    <3>5. ASSUME NEW events, NEW old, NEW becomes, NEW new, Follows(calls, id, events, old, new),
                 IF Head(calls).event \in events THEN becomes = Head(calls).arg ELSE becomes = old
          PROVE  Follows(calls', id, events, becomes, new)
      <4>1. CASE Head(calls).event \in events
        <5>1. Matches(Head(calls), id, events)
          BY <3>4, <4>1 DEF Matches
        <5> QED
          BY <3>5, <4>1, <5>1, OtherTaken, Types DEF IInv, Taken
      <4>2. CASE Head(calls).event \notin events
        <5>1. ~Matches(Head(calls), id, events)
          BY <4>2 DEF Matches
        <5> QED
          BY <3>5, <4>2, <5>1, OtherTaken, Types DEF IInv, Taken
      <4> QED
        BY <4>1, <4>2
    <3>6. Follows(calls', id, FreqEvents, row.freq, sub2[id].real)
      <4>1. Follows(calls, id, FreqEvents, keys[k].freq, sub2[id].real)
        BY <3>4 DEF SubAgrees
      <4> QED
        BY <3>5, <4>1
    <3>7. sub2[id].state # "none" => Follows(calls', id, UpdateEvents, row.second, sub2[id].value)
      <4> SUFFICES ASSUME sub2[id].state # "none"
                   PROVE  Follows(calls', id, UpdateEvents, row.second, sub2[id].value)
        OBVIOUS
      <4>1. Follows(calls, id, UpdateEvents, keys[k].second, sub2[id].value)
        BY <3>4 DEF SubAgrees
      <4> QED
        BY <3>5, <4>1
    <3>8. SubAgrees(id, k)'
      <4>1. sub2[id].freq = strategy'.requested
        BY <3>4 DEF SubAgrees
      <4> QED
        BY <1>2, <3>4, <3>6, <3>7, <4>1 DEF SubAgrees
    <3>9. keys'[k].sub = id
      BY <1>2, <3>3
    <3> QED
      BY <2>1, <3>2, <3>8, <3>9 DEF Known
  <2>2. CASE q # k
    BY <1>1, <1>2, <2>2, KeyNotConcerned
  <2> QED
    BY <2>1, <2>2
<1>5. \A q \in Keys : keys'[q].sub = keys[q].sub
  BY <1>2
<1>6. Owned' /\ Distinct' /\ CallsLeft'
  BY <1>5, TakenFacts DEF IInv, Owned, Distinct
<1>7. LatestIsKnown' /\ DeleteIsDecoded'
  BY <1>1, <1>2 DEF IInv, LatestIsKnown, DeleteIsDecoded
<1>8. EmptyAtFirst'
  BY DEF EmptyAtFirst
<1> QED
  BY <1>3, <1>4, <1>6, <1>7, <1>8 DEF IInv

LEMMA Update2LevelInv ==
    ASSUME IInv, Taken, NEW k \in Keys, keys[k].sub = Head(calls).id,
           Head(calls).event = "onItemUpdate", evtUpdate2Level(k, Head(calls).arg),
           UNCHANGED <<latest, table, sent>>
    PROVE  IInv'
<1> DEFINE value == Head(calls).arg
<1>1. value \in Values
  BY TakenFacts DEF Calls
<1>2. /\ keys' = [keys EXCEPT ![k] = [@ EXCEPT !.s = 5, !.second = value]]
      /\ command' = IF latest = k THEN "UPDATE" ELSE command
      /\ view' = [view EXCEPT ![k] = [command |-> "UPDATE", first |-> keys[k].first,
                                      second |-> value]]
      /\ UNCHANGED <<sub2, strategy, told>>
  BY DEF evtUpdate2Level, Show
<1> HIDE DEF value
<1>3. PICK old \in Rows : old = keys[k]
  BY Types DEF IInv
<1>4. PICK row : row = [old EXCEPT !.s = 5, !.second = value]
  OBVIOUS
<1>5. /\ row \in Rows /\ row.s = 5 /\ row.second = value /\ row.sub = old.sub
      /\ row.first = old.first /\ row.freq = old.freq
  BY <1>1, <1>4 DEF Rows
<1>6. keys' = [keys EXCEPT ![k] = row]
  BY <1>2, <1>3, <1>4
<1>7. PICK shown : shown = [command |-> "UPDATE", first |-> keys[k].first, second |-> value]
  OBVIOUS
<1>8. shown \in ViewRows /\ shown.command # "none" /\ shown.first = keys[k].first
      /\ shown.second = row.second
  BY <1>1, <1>5, <1>7, Types DEF IInv, ViewRows
<1>9. /\ strategy' \in Strategies /\ strategy'.m = 2 /\ told' \in Frequencies \cup {None}
      /\ AggregateAgrees' /\ strategy'.requested = strategy.requested
      /\ command' \in {"none", "ADD", "UPDATE", "DELETE"}
      /\ \A q \in Keys : keys[q].freq <= strategy'.aggregate
  <2>1. strategy.m = 2
    BY OneReceiver DEF Taken
  <2> QED
    BY <1>2, <2>1 DEF IInv, TypeOK, Strategies, AggregateAgrees, KeysAgree, Known, KeyAgrees
<1>10. /\ Head(calls).event \in UpdateEvents /\ Head(calls).event \notin FreqEvents
       /\ row.second = Head(calls).arg
  BY <1>5 DEF UpdateEvents, FreqEvents, value
<1>11. row.freq <= strategy'.aggregate
  BY <1>3, <1>5, <1>9
<1>12. IF Head(calls).event \in FreqEvents THEN row.freq = Head(calls).arg
                                           ELSE row.freq = keys[k].freq
  BY <1>3, <1>5, <1>10
<1>13. IF Head(calls).event \in UpdateEvents THEN row.second = Head(calls).arg
                                             ELSE row.second = keys[k].second
  BY <1>10
<1>14. command' = command \/ (latest = k /\ command' = "UPDATE")
  BY <1>2
<1>15. /\ row.sub = keys[k].sub /\ row.s \in {4, 5} /\ row.first = keys[k].first
       /\ row.s = 4 => row.second = None
  BY <1>3, <1>5
<1>16. view' = [view EXCEPT ![k] = shown]
  BY <1>2, <1>7
<1>17. UNCHANGED <<sub2, latest, table, sent>>
  BY <1>2
<1>18. \A q \in Keys : q # k => keys[q].freq <= strategy'.aggregate
  BY <1>9
<1> QED
  BY <1>5, <1>6, <1>8, <1>9, <1>11, <1>12, <1>13, <1>14, <1>15, <1>16, <1>17, <1>18, ReceiverInv

(* The frequency of a level: it is reported if the aggregate changes.      *)
LEMMA FrequencyInv ==
    ASSUME IInv, Taken, NEW k \in Keys, keys[k].sub = Head(calls).id,
           Head(calls).event \in FreqEvents, NEW freq \in Frequencies \cup {None},
           freq = Head(calls).arg, keys' = [keys EXCEPT ![k].freq = freq],
           NEW max \in Frequencies \cup {None}, Report(max), freq <= max,
           strategy.real <= max, \A q \in Keys : q # k => keys[q].freq <= max,
           UNCHANGED <<sub2, view, command, latest, table, sent>>
    PROVE  IInv'
<1>1. PICK old \in Rows : old = keys[k]
  BY Types DEF IInv
<1>2. PICK row : row = [old EXCEPT !.freq = freq]
  OBVIOUS
<1>3. /\ row \in Rows /\ row.s = old.s /\ row.second = old.second /\ row.sub = old.sub
      /\ row.first = old.first /\ row.freq = freq
  BY <1>2 DEF Rows
<1>4. keys' = [keys EXCEPT ![k] = row]
  BY <1>1, <1>2
<1>5. PICK shown \in ViewRows : shown = view[k]
  BY Types DEF IInv
<1>6. view' = [view EXCEPT ![k] = shown]
  BY <1>5 DEF IInv, TypeOK
<1>7. strategy.m = 2 /\ keys[k].s \in {4, 5} /\ KeyAgrees(k)
  BY OneReceiver DEF Taken
<1>8. /\ shown.command # "none" /\ shown.first = keys[k].first /\ shown.second = row.second
      /\ row.s = 4 => row.second = None
  BY <1>1, <1>3, <1>5, <1>7, Types DEF IInv, KeyAgrees
<1>9. /\ AggregateAgrees' /\ told' \in Frequencies \cup {None} /\ strategy' \in Strategies
      /\ strategy'.m = strategy.m /\ strategy'.requested = strategy.requested
      /\ strategy'.real = strategy.real /\ strategy'.aggregate = max
  BY Reported DEF IInv
<1>10. Head(calls).event \notin UpdateEvents
  BY DEF FreqEvents, UpdateEvents
<1>11. command' \in {"none", "ADD", "UPDATE", "DELETE"}
  BY DEF IInv, TypeOK
<1>12. /\ row.freq <= strategy'.aggregate
       /\ \A q \in Keys : q # k => keys[q].freq <= strategy'.aggregate
  BY <1>3, <1>9
<1>13. IF Head(calls).event \in FreqEvents THEN row.freq = Head(calls).arg
                                           ELSE row.freq = keys[k].freq
  BY <1>3
<1>14. IF Head(calls).event \in UpdateEvents THEN row.second = Head(calls).arg
                                             ELSE row.second = keys[k].second
  BY <1>1, <1>3, <1>10
<1>15. command' = command \/ (latest = k /\ command' = "UPDATE")
  OBVIOUS
<1>16. /\ row.sub = keys[k].sub /\ row.s \in {4, 5} /\ row.first = keys[k].first
       /\ strategy'.m = 2
  BY <1>1, <1>3, <1>7, <1>9
<1>17. UNCHANGED <<sub2, latest, table, sent>>
  OBVIOUS
<1> QED
  BY <1>3, <1>4, <1>5, <1>6, <1>8, <1>9, <1>11, <1>12, <1>13, <1>14, <1>15, <1>16, <1>17,
     ReceiverInv, ZenonT(40)

LEMMA RealMaxFrequencyInv ==
    ASSUME IInv, Taken, NEW k \in Keys, keys[k].sub = Head(calls).id,
           Head(calls).event = "onRealMaxFrequency",
           evtOnRealMaxFrequency2Level(k, Head(calls).arg), UNCHANGED <<latest, table, sent>>
    PROVE  IInv'
<1>1. PICK freq \in Frequencies : freq = Head(calls).arg
  BY TakenFacts DEF Calls
<1>2. PICK max \in Frequencies \cup {None} : max = WhenFreqIsAdded(freq)
  BY Added DEF IInv
<1>3. strategy.aggregate <= max /\ freq <= max /\ max \in Nat
  BY <1>2, Added DEF IInv
<1>4. \A q \in Keys : keys[q].freq <= max
  <2> SUFFICES ASSUME NEW q \in Keys PROVE keys[q].freq <= max
    OBVIOUS
  <2>1. keys[q].freq <= strategy.aggregate /\ keys[q].freq \in Nat /\ strategy.aggregate \in Nat
    BY Types DEF IInv, KeysAgree, Known, KeyAgrees
  <2> QED
    BY <1>3, <2>1
<1>5. strategy.real <= max
  BY <1>3, Types DEF IInv, AggregateAgrees
<1>6. /\ keys' = [keys EXCEPT ![k].freq = freq] /\ Report(max) /\ UNCHANGED <<sub2, view, command>>
  BY <1>1, <1>2 DEF evtOnRealMaxFrequency2Level
<1>7. Head(calls).event \in FreqEvents
  BY DEF FreqEvents
<1> QED
  BY <1>1, <1>2, <1>3, <1>4, <1>5, <1>6, <1>7, FrequencyInv

LEMMA Unsubscription2LevelInv ==
    ASSUME IInv, Taken, NEW k \in Keys, keys[k].sub = Head(calls).id,
           Head(calls).event = "onUnsubscription", evtOnUnsubscription2Level(k),
           UNCHANGED <<latest, table, sent>>
    PROVE  IInv'
<1>1. None = Head(calls).arg
  BY TakenFacts DEF Calls
<1>2. /\ keys' = [keys EXCEPT ![k].freq = None] /\ Report(WhenFreqIsRemoved(keys'))
      /\ UNCHANGED <<sub2, view, command>>
  BY DEF evtOnUnsubscription2Level
<1>3. PICK old \in Rows : old = keys[k]
  BY Types DEF IInv
<1>4. [old EXCEPT !.freq = None].freq = None
  BY DEF Rows
<1>5. keys'[k].freq = None /\ \A q \in Keys : q # k => keys'[q] = keys[q]
  BY <1>2, <1>3, <1>4 DEF IInv, TypeOK
<1>6. \A q \in Keys : keys'[q].freq \in Frequencies \cup {None}
  BY <1>5, Types DEF IInv
<1>7. PICK rows : rows = keys'
  OBVIOUS
<1>8. PICK max \in Frequencies \cup {None} : max = WhenFreqIsRemoved(rows)
  BY <1>6, <1>7, Removed DEF IInv
<1>9. strategy.real <= max /\ \A q \in Keys : rows[q].freq <= max
  BY <1>6, <1>7, <1>8, Removed DEF IInv
<1>10. Report(max) /\ None <= max /\ \A q \in Keys : q # k => keys[q].freq <= max
  BY <1>2, <1>5, <1>7, <1>8, <1>9
<1>11. Head(calls).event \in FreqEvents
  BY DEF FreqEvents
<1> QED
  BY <1>1, <1>2, <1>8, <1>9, <1>10, <1>11, FrequencyInv

(* A key whose second level was refused goes on without it.                *)
LEMMA SubscriptionErrorInv ==
    ASSUME IInv, Taken, NEW k \in Keys, keys[k].sub = Head(calls).id,
           Head(calls).event = "onSubscriptionError", evtOnSubscriptionError2Level(k),
           UNCHANGED <<latest, table, sent>>
    PROVE  IInv'
<1>1. /\ strategy.m = 2 /\ keys[k].sub \in SubIds /\ keys[k].sub # None
      /\ keys[k].s \in {4, 5} /\ KeyAgrees(k)
      /\ \A q \in Keys : q # k => keys[q].sub # Head(calls).id
      /\ command = "DELETE" => latest # k
  BY OneReceiver DEF Taken
<1>2. UNCHANGED <<strategy, told, view, command>>
  BY DEF evtOnSubscriptionError2Level, Silent
<1>3. \A q \in Keys : keys[q].freq <= strategy'.aggregate
  BY <1>2 DEF IInv, KeysAgree, Known, KeyAgrees
<1>4. CASE keys[k].s = 4
  <2>1. PICK old \in Rows : old = keys[k]
    BY Types DEF IInv
  <2>2. PICK row : row = [old EXCEPT !.s = 3, !.sub = None]
    OBVIOUS
  <2>3. /\ row \in Rows /\ row.s = 3 /\ row.second = old.second /\ row.sub = None
        /\ row.first = old.first /\ row.freq = old.freq
    BY <2>2 DEF Rows
  <2>4. PICK id \in SubIds : id = keys[k].sub
    BY <1>1
  <2>5. keys' = [keys EXCEPT ![k] = row] /\ sub2' = [sub2 EXCEPT ![id] = Idle]
    BY <1>4, <2>1, <2>2, <2>4 DEF evtOnSubscriptionError2Level
  <2>6. /\ keys' \in [Keys -> Rows] /\ keys'[k] = row
        /\ \A q \in Keys : q # k => keys'[q] = keys[q]
    BY <2>3, <2>5 DEF IInv, TypeOK
  <2>7. /\ sub2' \in [SubIds -> SubStates] /\ sub2'[id].state = "none"
        /\ \A other \in SubIds : other # id => sub2'[other] = sub2[other]
    <3>1. Idle \in SubStates /\ Idle.state = "none"
      BY DEF Idle, NewSub, SubStates, None
    <3> QED
      BY <2>5, <3>1 DEF IInv, TypeOK
  <2>8. TypeOK'
    <3>1. row.sub # None <=> row.s \in {4, 5}
      BY <2>3
    <3>2. \A q \in Keys : keys'[q].sub # None <=> keys'[q].s \in {4, 5}
      BY <2>6, <3>1 DEF IInv, TypeOK
    <3> QED
      BY <1>2, <2>6, <2>7, <3>2, TakenFacts DEF IInv, TypeOK
  <2>9. KeysAgree'
    <3> SUFFICES ASSUME NEW q \in Keys PROVE Known(q)'
      BY DEF KeysAgree
    <3>1. CASE q = k
      <4>1. KeyAgrees(k)'
        BY <1>1, <1>2, <1>3, <1>4, <2>1, <2>3, <2>6, Types DEF IInv, KeyAgrees
      <4>2. keys'[k].sub = None
        BY <2>3, <2>6
      <4> QED
        BY <3>1, <4>1, <4>2 DEF Known
    <3>2. CASE q # k
      <4>1. keys[q].sub # None => keys[q].sub \in SubIds /\ keys[q].sub # id
        BY <1>1, <2>4, <3>2, Types DEF IInv
      <4>2. keys[q].sub # None => sub2'[keys[q].sub] = sub2[keys[q].sub]
        BY <2>7, <4>1
      <4> QED
        BY <1>1, <1>2, <1>3, <2>6, <3>2, <4>2, KeyNotConcerned
    <3> QED
      BY <3>1, <3>2
  <2>10. Owned'
    <3> SUFFICES ASSUME NEW other \in SubIds, sub2'[other].state # "none"
                 PROVE  \E q \in Keys : keys'[q].sub = other
      BY DEF Owned
    <3>1. other # id /\ sub2'[other] = sub2[other]
      BY <2>7
    <3>2. PICK q \in Keys : keys[q].sub = other
      BY <3>1 DEF IInv, Owned
    <3> QED
      BY <2>4, <2>6, <3>1, <3>2
  <2>11. Distinct'
    BY <2>3, <2>6 DEF IInv, Distinct
  <2>12. LatestIsKnown'
    BY <1>1, <1>2, <2>6 DEF IInv, LatestIsKnown
  <2>13. EmptyAtFirst' /\ DeleteIsDecoded' /\ AggregateAgrees' /\ CallsLeft'
    BY <1>1, <1>2, TakenFacts DEF IInv, EmptyAtFirst, DeleteIsDecoded, AggregateAgrees
  <2> QED
    BY <2>8, <2>9, <2>10, <2>11, <2>12, <2>13 DEF IInv
<1>5. CASE keys[k].s # 4
  <2>1. UNCHANGED <<keys, sub2>>
    BY <1>5 DEF evtOnSubscriptionError2Level
  <2>2. TypeOK' /\ CallsLeft'
    BY <1>2, <2>1, TakenFacts DEF IInv, TypeOK
  <2>3. KeysAgree'
    BY <1>2, <1>3, <2>1, KeyNotConcerned DEF KeysAgree
  <2>4. /\ EmptyAtFirst' /\ LatestIsKnown' /\ DeleteIsDecoded' /\ Owned' /\ Distinct'
        /\ AggregateAgrees'
    BY <1>2, <2>1 DEF IInv, EmptyAtFirst, LatestIsKnown, DeleteIsDecoded, Owned, Distinct,
                      AggregateAgrees
  <2> QED
    BY <2>2, <2>3, <2>4 DEF IInv
<1> QED
  BY <1>4, <1>5

LEMMA RunCallInv ==
    ASSUME IInv, RunCall
    PROVE  IInv'
<1>1. Taken /\ UNCHANGED <<latest, table, sent>>
  BY DEF RunCall, Taken
<1>2. CASE \E k \in Keys : keys[k].sub = Head(calls).id
  <2>1. PICK k \in Keys : keys[k].sub = Head(calls).id
    BY <1>2
  <2>2. /\ SubAgrees(keys[k].sub, k) /\ \A q \in Keys : q # k => keys[q].sub # Head(calls).id
    BY <1>1, <2>1, OneReceiver DEF Taken
  <2>3. Receivers(Head(calls)) = {k}
    BY <2>1, <2>2 DEF Receivers, SubAgrees
  <2>4. \/ Head(calls).event = "onSubscriptionError" /\ evtOnSubscriptionError2Level(k)
        \/ Head(calls).event = "onItemUpdate" /\ evtUpdate2Level(k, Head(calls).arg)
        \/ Head(calls).event = "onRealMaxFrequency"
             /\ evtOnRealMaxFrequency2Level(k, Head(calls).arg)
        \/ Head(calls).event = "onUnsubscription" /\ evtOnUnsubscription2Level(k)
    BY <2>3 DEF RunCall
  <2> QED
    BY <1>1, <2>1, <2>4, SubscriptionErrorInv, Update2LevelInv, RealMaxFrequencyInv,
       Unsubscription2LevelInv
<1>3. CASE ~\E k \in Keys : keys[k].sub = Head(calls).id
  <2>1. Receivers(Head(calls)) = {}
    BY <1>3 DEF Receivers
  <2>2. UNCHANGED <<keys, sub2, strategy, told, view, command>>
    BY <2>1 DEF RunCall, Silent
  <2> QED
    BY <1>1, <1>3, <2>2, NoReceiverInv
<1> QED
  BY <1>2, <1>3

-----------------------------------------------------------------------------
(* Nothing happens. *)
LEMMA StutterInv ==
    ASSUME IInv, UNCHANGED vars
    PROVE  IInv'
<1>1. /\ strategy' = strategy /\ keys' = keys /\ command' = command /\ latest' = latest
      /\ disabled' = disabled /\ sub2' = sub2 /\ calls' = calls /\ table' = table
      /\ sent' = sent /\ view' = view /\ told' = told
  BY DEF vars, client
<1>2. TypeOK' /\ EmptyAtFirst' /\ LatestIsKnown' /\ DeleteIsDecoded' /\ Owned' /\ Distinct'
      /\ CallsLeft' /\ AggregateAgrees'
  BY <1>1 DEF IInv, TypeOK, EmptyAtFirst, LatestIsKnown, DeleteIsDecoded, Owned, Distinct,
              CallsLeft, AggregateAgrees
<1>3. KeysAgree'
  <2> SUFFICES ASSUME NEW k \in Keys PROVE Known(k)'
    BY DEF KeysAgree
  <2>1. Known(k) /\ keys[k].freq <= strategy'.aggregate
    BY <1>1 DEF IInv, KeysAgree, Known, KeyAgrees
  <2>2. keys[k].sub # None => keys[k].sub \notin disabled'
    BY <1>1, <2>1 DEF Known, SubAgrees
  <2> QED
    BY <1>1, <2>1, <2>2, KeyKept
<1> QED
  BY <1>2, <1>3 DEF IInv

(* Every step keeps the inductive invariant ... *)
LEMMA StepInv == IInv /\ [Next]_vars => IInv'
<1>1. IInv /\ Manager => IInv'
  BY ExtSubscribeInv, SubInv, AbortInv, SetFrequencyInv, ClearInv, ConfInv DEF Manager
<1>2. IInv /\ UNCHANGED vars => IInv'
  BY StutterInv
<1> QED
  BY <1>1, <1>2, ServerUpdatesInv, SecondLevelInv, RunCallInv DEF Next

(* ... which is an invariant.                                              *)
LEMMA Invariance == Spec => []IInv
<1> QED
  BY InitInv, StepInv, PTL DEF Spec

-----------------------------------------------------------------------------
(* When every call has run, the listener has exactly the rows of the       *)
(* server, of both levels (doUpdate, doUpdate2Level).                      *)
THEOREM RowsAreThoseOfTheServer == Spec => []TableAgrees
<1>1. IInv => TableAgrees
  <2> SUFFICES ASSUME IInv, calls = <<>>, NEW k \in Keys
               PROVE  /\ view[k].first = table[k]
                      /\ keys[k].sub # None /\ sub2[keys[k].sub].state = "on" =>
                            view[k].second = sub2[keys[k].sub].value
    BY DEF TableAgrees
  <2>1. Known(k) /\ view[k].first = table[k] /\ view[k].second = keys[k].second
    BY DEF IInv, KeysAgree, Known, KeyAgrees
  <2>2. ASSUME NEW id, id = keys[k].sub, id # None, sub2[id].state = "on"
        PROVE  keys[k].second = sub2[id].value
    <3>1. Follows(<<>>, id, UpdateEvents, keys[k].second, sub2[id].value)
      BY <2>1, <2>2 DEF Known, SubAgrees
    <3> QED
      BY <3>1, AllTold
  <2> QED
    BY <2>1, <2>2
<1> QED
  BY <1>1, Invariance, PTL

(* A key and its subscription of the second level come and go together, as *)
(* the commands of the first level say, although the server does not       *)
(* repeat a command and the client writes into the values it is read from. *)
THEOREM KeysFollowTheCommands == Spec => []KeysAreFollowed
<1>1. IInv => KeysAreFollowed
  <2> SUFFICES ASSUME IInv, NEW id \in SubIds, sub2[id].state # "none"
               PROVE  Cardinality({k \in Keys : keys[k].sub = id}) = 1
    BY DEF IInv, KeysAreFollowed, NoOrphan
  <2>1. PICK k \in Keys : keys[k].sub = id
    BY DEF IInv, Owned
  <2>2. id # None
    BY Types DEF IInv
  <2>3. {q \in Keys : keys[q].sub = id} = {k}
    BY <2>1, <2>2 DEF IInv, Distinct
  <2> QED
    BY <2>3, FS_Singleton
<1> QED
  BY <1>1, Invariance, PTL

(* The frequency asked for is that of the subscription on both levels, and *)
(* the one the listener was told is never lower than that of one of the    *)
(* levels when every call has run (evtOnSetFrequency, updateRealMax...).   *)
THEOREM FrequenciesAreRight == Spec => []FrequenciesFit
<1>1. IInv => FrequenciesAgree
  BY DEF IInv, KeysAgree, Known, SubAgrees, FrequenciesAgree
<1>2. IInv => NotUnderstated
  <2> SUFFICES ASSUME IInv, calls = <<>>
               PROVE  /\ strategy.aggregate >= RealMaximum
                      /\ told # None => told = strategy.aggregate
    BY DEF NotUnderstated
  <2>1. ASSUME NEW k \in Keys
        PROVE  Real(k) \in Frequencies \cup {None} /\ Real(k) <= strategy.aggregate
    <3>1. Known(k) /\ keys[k].freq <= strategy.aggregate
      BY <2>1 DEF IInv, KeysAgree, Known, KeyAgrees
    <3>2. CASE keys[k].sub = None
      BY <3>2, Types DEF IInv, Real
    <3>3. ASSUME NEW id \in SubIds, id = keys[k].sub, id # None
          PROVE  Real(k) \in Frequencies \cup {None} /\ Real(k) <= strategy.aggregate
      <4>1. Follows(<<>>, id, FreqEvents, keys[k].freq, sub2[id].real)
        BY <3>1, <3>3 DEF Known, SubAgrees
      <4>2. keys[k].freq = sub2[id].real
        BY <4>1, AllTold
      <4>3. Real(k) = sub2[id].real
        BY <3>3 DEF Real
      <4> QED
        BY <3>1, <4>2, <4>3, Types DEF IInv
    <3>4. keys[k].sub \in SubIds \cup {None}
      BY Types DEF IInv
    <3> QED
      BY <3>2, <3>3, <3>4
  <2> DEFINE levels == {strategy.real} \cup {Real(k) : k \in Keys}
  <2>2. /\ levels \in SUBSET (Frequencies \cup {None})
        /\ \A freq \in levels \cup {None} : freq <= strategy.aggregate
    BY <2>1, Types DEF IInv, AggregateAgrees
  <2> HIDE DEF levels
  <2>3. MaxFreq(levels) \in Nat /\ MaxFreq(levels) <= strategy.aggregate
    BY <2>2, MaxFreqIsMax
  <2>4. RealMaximum = MaxFreq(levels)
    BY DEF RealMaximum, levels
  <2>5. strategy.aggregate >= RealMaximum
    BY <2>3, <2>4, Types DEF IInv
  <2> QED
    BY <2>5 DEF IInv, AggregateAgrees
<1>3. IInv => FrequenciesFit
  BY <1>1, <1>2 DEF FrequenciesFit
<1> QED
  BY <1>3, Invariance, PTL

(* What a step shows of a key: a row is added once, updated while it is    *)
(* there, and never comes back without being added.                        *)
Fits(k) ==
    view'[k] # view[k] =>
        \/ view'[k].command = "none"
        \/ view[k].command = "none" <=> view'[k].command = "ADD"

LEMMA ShowFits ==
    ASSUME IInv, NEW j \in Keys, NEW cmd, NEW first, NEW second, Show(j, cmd, first, second),
           \/ cmd = "ADD" /\ keys[j].s = None
           \/ cmd = "UPDATE" /\ keys[j].s # None,
           NEW k \in Keys
    PROVE  Fits(k)
<1>1. view[j].command = "none" <=> keys[j].s = None
  BY DEF IInv, KeysAgree, Known, KeyAgrees
<1>2. PICK shown : shown = [command |-> cmd, first |-> first, second |-> second]
  OBVIOUS
<1>3. shown.command = cmd /\ view' = [view EXCEPT ![j] = shown]
  BY <1>2 DEF Show
<1>4. CASE k = j
  <2>1. view'[k].command = cmd
    BY <1>3, <1>4 DEF IInv, TypeOK
  <2> QED
    BY <1>1, <1>4, <2>1 DEF Fits
<1>5. CASE k # j
  BY <1>3, <1>5 DEF IInv, TypeOK, Fits
<1> QED
  BY <1>4, <1>5

(* The listener can follow the commands (doFirstUpdate, doUpdate,          *)
(* doLightDelete, doUpdate2Level and the end of the items).                *)
THEOREM CommandsFitTogether == Spec => CommandsFit
<1> DEFINE AllFit == \A k \in Keys : Fits(k)
<1>1. Blank.command = "none"
  BY DEF Blank
<1>2. ASSUME IInv, Manager PROVE AllFit
  <2>1. view' = view \/ view' = [k \in Keys |-> Blank]
    BY <1>2 DEF Manager, evtExtSubscribe, evtOnSUB, evtAbort, evtUnsubscribe, DisposeItems,
                DisposeKeys, evtSetRequestedMaxFrequency, evtOnCS, evtOnCONF
  <2> QED
    BY <1>1, <2>1 DEF Fits
<1>3. ASSUME IInv, ServerUpdates PROVE AllFit
  <2>1. PICK j \in Keys, value \in Values : Delete(j) \/ FirstUpdate(j, value) \/ Update(j, value)
    BY <1>3 DEF ServerUpdates, evtUpdate
  <2>2. CASE Delete(j)
    <3>1. view' = [view EXCEPT ![j] = Blank]
      BY <2>2 DEF Delete
    <3> QED
      BY <1>1, <1>3, <3>1 DEF IInv, TypeOK, Fits
  <2>3. CASE FirstUpdate(j, value)
    <3>1. keys[j].s = None /\ Show(j, "ADD", value, None)
      BY <2>3 DEF FirstUpdate
    <3> QED
      BY <1>3, <3>1, ShowFits
  <2>4. CASE Update(j, value)
    <3>1. keys[j].s # None /\ Show(j, "UPDATE", value, Second(j))
      BY <2>4 DEF Update
    <3> QED
      BY <1>3, <3>1, ShowFits
  <2> QED
    BY <2>1, <2>2, <2>3, <2>4
<1>4. ASSUME IInv, SecondLevel PROVE AllFit
  <2>1. view' = view
    BY <1>4 DEF SecondLevel, Sub2Accepted, Sub2Refused, Sub2Conf, Sub2Update, Sub2Closed, Dispatch
  <2> QED
    BY <2>1 DEF Fits
<1>5. ASSUME IInv, RunCall PROVE AllFit
  <2>1. CASE view' = view
    BY <2>1 DEF Fits
  <2>2. CASE view' # view
    <3>1. PICK j \in Receivers(Head(calls)) : evtUpdate2Level(j, Head(calls).arg)
      BY <1>5, <2>2 DEF RunCall, Silent, evtOnSubscriptionError2Level, evtOnRealMaxFrequency2Level,
                        evtOnUnsubscription2Level
    <3>2. j \in Keys /\ keys[j].sub = Head(calls).id /\ calls # <<>>
      BY <1>5, <3>1 DEF RunCall, Receivers
    <3>3. keys[j].s # None
      BY <1>5, <3>2, OneReceiver DEF None
    <3>4. Show(j, "UPDATE", keys[j].first, Head(calls).arg)
      BY <3>1 DEF evtUpdate2Level
    <3> QED
      BY <1>5, <3>2, <3>3, <3>4, ShowFits
  <2> QED
    BY <2>1, <2>2
<1>6. IInv /\ [Next]_vars => [AllFit]_vars
  BY <1>2, <1>3, <1>4, <1>5 DEF Next
<1>7. [AllFit]_vars => [\A k \in Keys : view'[k] # view[k] =>
                            \/ view'[k].command = "none"
                            \/ view[k].command = "none" <=> view'[k].command = "ADD"]_vars
  BY DEF Fits
<1> QED
  BY <1>6, <1>7, Invariance, PTL DEF Spec, CommandsFit
=============================================================================
