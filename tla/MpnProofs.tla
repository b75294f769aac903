------------------------------ MODULE MpnProofs ------------------------------
(***************************************************************************)
(* Proofs about mobile push (Mpn), for any devices, tokens, numbers of     *)
(* push subscriptions, events and subscriptions of the past.               *)
(*                                                                         *)
(* NothingForgotten is not inductive: that a pending request is on its way *)
(* depends on which manager it is of, on what the other requests say, and  *)
(* on which of them a later one has replaced. The invariant (Inv) says it  *)
(* of each manager by itself (ManagerOK, ManagerSent), of each region of   *)
(* the device (DeviceOK), and of the client and the session (Agrees).      *)
(*                                                                         *)
(* DeviceAgrees needs more: what a registration on its way, its answer and *)
(* its MPNREG, which may overtake one another, say of the token that the   *)
(* server has (Requested, Announced, Known, in Concord). Most handlers are *)
(* Aside: they leave all of it as it is.                                   *)
(*                                                                         *)
(* Handlers are operators from a state of the client to the next one. For  *)
(* each there is a lemma about what it makes of a state; predicates over   *)
(* two states (Handled, DeviceStep, Moves, Works, Progress) let those of   *)
(* one follow those of the other. What all managers are told in a loop is  *)
(* proved for one and counted up to the last (AllHear).                    *)
(***************************************************************************)
EXTENDS Mpn, PositionsProofs

-----------------------------------------------------------------------------
(* Types                                                                   *)

Kinds == {"register", "activate", "deactivate", "configure", "filter", "badge"}
ManagerKinds == {"activate", "deactivate", "configure"}
Numbers == 1..MaxManagers

(* A manager in each of its states (the numbers are those of the code).    *)
Managers ==
    [m : 41..45, uu : {10, 11, 12}, ct : {None, 71, 72, 73, 74, 76}, ab : {None, 80, 81},
     upd : [Parts -> 0..3], req : [Parts -> Nat], cur : [Parts -> Nat], id : Nat, app : BOOLEAN]
Tables == UNION {[D -> Managers] : D \in SUBSET Numbers}
Requests ==
    [kind : Kinds, n : 0..MaxManagers, last : BOOLEAN, dev : Nat, token : Nat, id : Nat,
     values : [Parts -> Nat], part : {"none"} \cup Parts]
Replies == [kind : Kinds, n : 0..MaxManagers, ok : BOOLEAN]
Messages == [kind : {"REG", "OK", "DEL", "ADD", "STATUS", "DELETE", "EOS", "ACTIVE", "ABORT"},
          id : Nat]
SpecialItems == [state : {"none", "asked", "live"}, queue : Seq(Messages), second : SUBSET Nat]
Clients ==
    [m : Nat, tk : Nat, sbs : Nat, ft : Nat, bg : Nat, id : Nat, token : Nat, device : Nat,
     candidates : Seq(Nat), snapshot : SUBSET Nat, filters : Nat, badge : BOOLEAN,
     mgr : Tables, item : SpecialItems, listed : SUBSET Nat, up : BOOLEAN,
     out : Seq(Requests), replies : SUBSET Replies, failed : BOOLEAN]

-----------------------------------------------------------------------------
(* Parts of the invariant                                                  *)

(* A request that nothing has replaced is on its way, or its reply is.     *)
InAir(s, kind, n) ==
    \/ \E i \in DOMAIN s.out : s.out[i].last /\ s.out[i].kind = kind /\ s.out[i].n = n
    \/ \E r \in s.replies : r.kind = kind /\ r.n = n

(* A request of a manager that is in the air is that of a manager.         *)
AirOK(s) ==
    \A kind \in ManagerKinds, n \in 0..MaxManagers : InAir(s, kind, n) => n \in DOMAIN s.mgr

(* The request a pending manager waits for.                                *)
KindOf(mgr) ==
    IF mgr.m = 42 THEN "activate" ELSE IF mgr.ct = 72 THEN "deactivate" ELSE "configure"

(* The control region is there in s44 only; it rests (s71) with nothing to *)
(* do, and while a part is changed it waits for that.                      *)
ManagerOK(mgr) ==
    /\ mgr.m # 44 => mgr.ct = None
    /\ mgr.ct = 71 => mgr.uu # 11 /\ \A part \in Parts : mgr.upd[part] # 1
    /\ \A part \in Parts : mgr.upd[part] \in {2, 3} => mgr.ct \in {73, 74}

(* With a channel, what a manager waits for is in the air.                 *)
ManagerSent(s, n) == s.up /\ isPending(s.mgr[n]) => InAir(s, KindOf(s.mgr[n]), n)

(* Waits for the device or for the special item, and sends nothing.        *)
Dormant(mgr) == mgr.m \in {41, 45} \/ (mgr.m = 44 /\ mgr.ct = 76)

(* What is so of the managers whatever the device does.                    *)
ManagersOK(s) ==
    /\ s \in Clients /\ AirOK(s)
    /\ \A n \in DOMAIN s.mgr : ManagerOK(s.mgr[n]) /\ ManagerSent(s, n)

(* Nothing of the device changes.                                          *)
SameDevice(x, y) ==
    /\ y.m = x.m /\ y.tk = x.tk /\ y.sbs = x.sbs /\ y.ft = x.ft /\ y.bg = x.bg
    /\ y.id = x.id /\ y.token = x.token /\ y.device = x.device
    /\ y.candidates = x.candidates /\ y.snapshot = x.snapshot
    /\ y.filters = x.filters /\ y.badge = x.badge /\ y.item = x.item /\ y.up = x.up

(* The registrations on their way, and the replies to them.                *)
Registers(s) == {i \in DOMAIN s.out : s.out[i].kind = "register"}
Answers(s) == {r \in s.replies : r.kind = "register"}
Numbered(s) == (\A i \in Registers(s) : s.out[i].n = None) /\ \A r \in Answers(s) : r.n = None
SameAir(x, y) ==
    /\ Registers(y) = Registers(x) /\ Answers(y) = Answers(x)
    /\ \A i \in Registers(x) : /\ y.out[i].n = x.out[i].n /\ y.out[i].last = x.out[i].last
                              /\ y.out[i].token = x.out[i].token

(* They stay as they are, if they are of no manager.                       *)
Untouched(x, y) == Numbered(x) => SameAir(x, y)

(* Nothing of the registration of the device changes.                      *)
Aside(x, y) ==
    /\ y.m = x.m /\ y.tk = x.tk /\ y.id = x.id /\ y.token = x.token /\ y.device = x.device
    /\ y.candidates = x.candidates /\ y.up = x.up /\ Untouched(x, y)

(* Only manager n changes, and requests are added.                         *)
OnlyManager(x, y, n) ==
    /\ y \in Clients /\ AirOK(y) /\ SameDevice(x, y) /\ Untouched(x, y)
    /\ DOMAIN y.mgr \cup {n} = DOMAIN x.mgr
    /\ \A k \in DOMAIN y.mgr \ {n} : y.mgr[k] = x.mgr[k]
    /\ \A kind \in Kinds, k \in (0..MaxManagers) \ {n} : InAir(x, kind, k) => InAir(y, kind, k)
    /\ x.id # None \/ ~x.up => y.failed = x.failed

(* Manager n was told something, after which it is as it should be or gone.*)
Handled(x, y, n) ==
    /\ OnlyManager(x, y, n)
    /\ n \in DOMAIN y.mgr => ManagerOK(y.mgr[n]) /\ ManagerSent(y, n)

(* A manager that is dormant stays so and sends nothing.                   *)
Undisturbed(x, y, n) ==
    Dormant(x.mgr[n]) => y.failed = x.failed /\ (n \in DOMAIN y.mgr => Dormant(y.mgr[n]))

-----------------------------------------------------------------------------
(* Tables of managers                                                      *)

LEMMA TableIs ==
  ASSUME NEW f \in Tables
  PROVE  /\ DOMAIN f \subseteq Numbers
         /\ f \in [DOMAIN f -> Managers]
  BY DEF Tables

LEMMA IsTable ==
  ASSUME NEW D \in SUBSET Numbers, NEW f \in [D -> Managers]
  PROVE  f \in Tables /\ DOMAIN f = D
  BY DEF Tables

(* A manager is replaced by another one.                                   *)
LEMMA BecomesIs ==
  ASSUME NEW s \in Clients, NEW n \in DOMAIN s.mgr, NEW v \in Managers
  PROVE  LET y == Becomes(s, n, v) IN
         /\ y \in Clients /\ SameDevice(s, y)
         /\ DOMAIN y.mgr = DOMAIN s.mgr /\ y.mgr[n] = v
         /\ \A k \in DOMAIN s.mgr \ {n} : y.mgr[k] = s.mgr[k]
         /\ y.out = s.out /\ y.replies = s.replies /\ y.failed = s.failed
<1> DEFINE y == Becomes(s, n, v)
           f == [s.mgr EXCEPT ![n] = v]
<1>1. s.mgr \in Tables
  BY DEF Clients
<1>2. DOMAIN s.mgr \in SUBSET Numbers /\ s.mgr \in [DOMAIN s.mgr -> Managers]
  BY <1>1, TableIs
<1>3. f \in [DOMAIN s.mgr -> Managers]
  BY <1>2
<1>4. f \in Tables
  BY <1>2, <1>3, IsTable
<1>5. y = [s EXCEPT !.mgr = f]
  BY DEF Becomes
<1>6. f[n] = v /\ DOMAIN f = DOMAIN s.mgr /\ \A k \in DOMAIN s.mgr \ {n} : f[k] = s.mgr[k]
  BY <1>2
<1> HIDE DEF f, y
<1>7. y \in Clients
  BY <1>4, <1>5 DEF Clients
<1>8. y.mgr = f /\ SameDevice(s, y) /\ y.out = s.out /\ y.replies = s.replies /\ y.failed = s.failed
  BY <1>5 DEF Clients, SameDevice
<1> QED
  BY <1>6, <1>7, <1>8 DEF y

LEMMA UntouchedSame ==
  ASSUME NEW x, NEW y, y.out = x.out, y.replies = x.replies
  PROVE  Untouched(x, y)
  BY DEF Untouched, SameAir, Registers, Answers

LEMMA UntouchedTransitive ==
  ASSUME NEW x, NEW y, NEW z, Untouched(x, y), Untouched(y, z)
  PROVE  Untouched(x, z)
<1> SUFFICES ASSUME Numbered(x) PROVE SameAir(x, z)
  BY DEF Untouched
<1>1. SameAir(x, y)
  BY DEF Untouched
<1>2. Numbered(y)
  BY <1>1 DEF Numbered, SameAir
<1>3. SameAir(y, z)
  BY <1>2 DEF Untouched
<1> QED
  BY <1>1, <1>3 DEF SameAir

LEMMA SameDeviceAside ==
  ASSUME NEW x, NEW y, SameDevice(x, y), Untouched(x, y)
  PROVE  Aside(x, y)
  BY DEF Aside, SameDevice

LEMMA AsideTransitive ==
  ASSUME NEW x, NEW y, NEW z, Aside(x, y), Aside(y, z)
  PROVE  Aside(x, z)
  BY UntouchedTransitive DEF Aside

LEMMA AsideSame ==
  ASSUME NEW x, NEW y, y.m = x.m, y.tk = x.tk, y.id = x.id, y.token = x.token,
         y.device = x.device, y.candidates = x.candidates, y.up = x.up, y.out = x.out,
         y.replies = x.replies
  PROVE  Aside(x, y)
  BY UntouchedSame DEF Aside

LEMMA InAirSame ==
  ASSUME NEW x, NEW y, y.out = x.out, y.replies = x.replies, NEW kind, NEW n
  PROVE  InAir(y, kind, n) <=> InAir(x, kind, n)
  BY DEF InAir

-----------------------------------------------------------------------------
(* Requests                                                                *)

(* What a batch makes of the requests and the replies.                     *)
Replaced(reqs, req) == \E j \in DOMAIN reqs : SameRequest(reqs[j], req)
Encoded(x, y, reqs) ==
    /\ Len(x.out) \in Nat /\ DOMAIN x.out = 1..Len(x.out)
    /\ Len(reqs) \in Nat /\ DOMAIN reqs = 1..Len(reqs)
    /\ DOMAIN y.out = 1..(Len(x.out) + Len(reqs))
    /\ \A i \in 1..Len(x.out) :
          /\ y.out[i].kind = x.out[i].kind /\ y.out[i].n = x.out[i].n
          /\ y.out[i].token = x.out[i].token
          /\ y.out[i].last = (x.out[i].last /\ ~Replaced(reqs, x.out[i]))
    /\ \A j \in 1..Len(reqs) : y.out[Len(x.out) + j] = reqs[j]
    /\ y.replies = {r \in x.replies : ~Replaced(reqs, r)}

(* A batch is in the air, and what was there stays.                        *)
LEMMA EncodeIs ==
  ASSUME NEW x \in Clients, NEW reqs \in Seq(Requests), \A j \in DOMAIN reqs : reqs[j].last
  PROVE  LET y == encode(x, reqs) IN
         /\ y \in Clients /\ SameDevice(x, y) /\ y.mgr = x.mgr /\ y.listed = x.listed
         /\ \A kind, n : InAir(x, kind, n) => InAir(y, kind, n)
         /\ \A j \in DOMAIN reqs : InAir(y, reqs[j].kind, reqs[j].n)
         /\ \A kind, n : InAir(y, kind, n) =>
               InAir(x, kind, n) \/ \E j \in DOMAIN reqs : reqs[j].kind = kind /\ reqs[j].n = n
         /\ y.failed = (x.failed \/ (x.id = None /\ \E j \in DOMAIN reqs : reqs[j].kind # "register"))
         /\ Encoded(x, y, reqs)
<1> DEFINE y == encode(x, reqs)
           old == [i \in DOMAIN x.out |-> [x.out[i] EXCEPT !.last = @ /\ ~Replaced(reqs, x.out[i])]]
           rest == {r \in x.replies : ~Replaced(reqs, r)}
           fails == x.failed \/ (x.id = None /\ \E j \in DOMAIN reqs : reqs[j].kind # "register")
<1>1. x.out \in Seq(Requests) /\ x.replies \subseteq Replies /\ x.failed \in BOOLEAN
  BY DEF Clients
<1>2. y = [x EXCEPT !.out = old \o reqs, !.replies = rest, !.failed = fails]
  BY DEF encode, Replaced
<1>3. /\ old \in Seq(Requests) /\ Len(old) = Len(x.out)
      /\ \A i \in 1..Len(old) : /\ old[i].kind = x.out[i].kind /\ old[i].n = x.out[i].n
                                /\ old[i].last = (x.out[i].last /\ ~Replaced(reqs, x.out[i]))
                                /\ old[i].token = x.out[i].token
  <2>1. ASSUME NEW i \in DOMAIN x.out
        PROVE  /\ old[i] \in Requests /\ old[i].kind = x.out[i].kind /\ old[i].n = x.out[i].n
               /\ old[i].last = (x.out[i].last /\ ~Replaced(reqs, x.out[i]))
               /\ old[i].token = x.out[i].token
    <3> DEFINE q == x.out[i]
               l == q.last /\ ~Replaced(reqs, q)
    <3>1. q \in Requests /\ old[i] = [q EXCEPT !.last = l] /\ l \in BOOLEAN
      BY <1>1
    <3> HIDE DEF q, l
    <3>2. [q EXCEPT !.last = l] \in Requests /\ [q EXCEPT !.last = l].kind = q.kind
          /\ [q EXCEPT !.last = l].n = q.n /\ [q EXCEPT !.last = l].last = l
          /\ [q EXCEPT !.last = l].token = q.token
      BY <3>1 DEF Requests
    <3> HIDE DEF old
    <3> QED
      BY <3>1, <3>2 DEF q, l
  <2>2. DOMAIN x.out = 1..Len(x.out) /\ Len(x.out) \in Nat
    BY <1>1
  <2>3. old \in [1..Len(x.out) -> Requests]
    BY <2>1, <2>2
  <2> HIDE DEF old
  <2>4. old \in Seq(Requests) /\ Len(old) = Len(x.out)
    BY <2>2, <2>3
  <2> QED
    BY <2>1, <2>2, <2>4
<1> HIDE DEF old
<1>4. old \o reqs \in Seq(Requests) /\ rest \subseteq Replies /\ fails \in BOOLEAN
  BY <1>1, <1>3
<1> HIDE DEF rest, fails, y
<1>5. /\ y \in Clients /\ SameDevice(x, y) /\ y.mgr = x.mgr /\ y.listed = x.listed
      /\ y.out = old \o reqs /\ y.replies = rest /\ y.failed = fails
  BY <1>2, <1>4 DEF Clients, SameDevice
<1>6. /\ DOMAIN y.out = 1..(Len(x.out) + Len(reqs))
      /\ \A i \in 1..Len(x.out) : y.out[i] = old[i]
      /\ \A j \in 1..Len(reqs) : y.out[Len(x.out) + j] = reqs[j]
      /\ Len(x.out) \in Nat /\ Len(reqs) \in Nat
      /\ DOMAIN x.out = 1..Len(x.out) /\ DOMAIN reqs = 1..Len(reqs)
  <2>1. /\ Len(x.out) \in Nat /\ Len(reqs) \in Nat
        /\ DOMAIN x.out = 1..Len(x.out) /\ DOMAIN reqs = 1..Len(reqs)
    BY <1>1
  <2>2. Len(old \o reqs) = Len(old) + Len(reqs) /\ DOMAIN (old \o reqs) = 1..Len(old \o reqs)
    <3>1. Len(old \o reqs) = Len(old) + Len(reqs)
      <4>1. old \in Seq(Requests) /\ reqs \in Seq(Requests)
        BY <1>3
      <4> QED
        BY <4>1, ConcatProperties
    <3>2. DOMAIN (old \o reqs) = 1..Len(old \o reqs)
      BY <1>4, LenProperties
    <3> QED
      BY <3>1, <3>2
  <2>3. \A i \in 1..Len(old) : (old \o reqs)[i] = old[i]
    BY <1>3, <2>1
  <2>4. \A j \in 1..Len(reqs) : (old \o reqs)[Len(old) + j] = reqs[j]
    <3> SUFFICES ASSUME NEW j \in 1..Len(reqs) PROVE (old \o reqs)[Len(old) + j] = reqs[j]
      OBVIOUS
    <3>1. old \in Seq(Requests) /\ reqs \in Seq(Requests) /\ Len(old) \in Nat
      BY <1>3, <2>1
    <3>2. Len(old) + j \in 1..(Len(old) + Len(reqs)) /\ Len(old) + j > Len(old)
          /\ (Len(old) + j) - Len(old) = j
      BY <2>1, <3>1
    <3> QED
      BY <3>1, <3>2, ConcatProperties
  <2> QED
    BY <1>3, <1>5, <2>1, <2>2, <2>3, <2>4
<1>7. ASSUME NEW j \in DOMAIN reqs
      PROVE  InAir(y, reqs[j].kind, reqs[j].n)
  <2>1. Len(x.out) + j \in DOMAIN y.out /\ y.out[Len(x.out) + j] = reqs[j]
    BY <1>6
  <2> QED
    BY <2>1 DEF InAir
<1>8. ASSUME NEW kind, NEW n, InAir(x, kind, n)
      PROVE  InAir(y, kind, n)
  <2>1. CASE \E j \in DOMAIN reqs : reqs[j].kind = kind /\ reqs[j].n = n
    BY <2>1, <1>7
  <2>2. CASE ~\E j \in DOMAIN reqs : reqs[j].kind = kind /\ reqs[j].n = n
    <3>1. CASE \E i \in DOMAIN x.out : x.out[i].last /\ x.out[i].kind = kind /\ x.out[i].n = n
      <4>1. PICK i \in DOMAIN x.out : x.out[i].last /\ x.out[i].kind = kind /\ x.out[i].n = n
        BY <3>1
      <4>2. ~Replaced(reqs, x.out[i])
        BY <2>2, <4>1 DEF SameRequest, Replaced
      <4>3. i \in DOMAIN y.out /\ y.out[i] = old[i] /\ i \in 1..Len(old)
        BY <1>3, <1>6
      <4>4. y.out[i].last /\ y.out[i].kind = kind /\ y.out[i].n = n
        BY <4>1, <4>2, <4>3, <1>3
      <4> QED
        BY <4>3, <4>4 DEF InAir
    <3>2. CASE \E r \in x.replies : r.kind = kind /\ r.n = n
      <4>1. PICK r \in x.replies : r.kind = kind /\ r.n = n
        BY <3>2
      <4>2. r \in rest
        BY <2>2, <4>1 DEF SameRequest, Replaced, rest
      <4> QED
        BY <4>1, <4>2, <1>5 DEF InAir
    <3> QED
      BY <1>8, <3>1, <3>2 DEF InAir
  <2> QED
    BY <2>1, <2>2
<1>9. ASSUME NEW kind, NEW n, InAir(y, kind, n)
      PROVE  InAir(x, kind, n) \/ \E j \in DOMAIN reqs : reqs[j].kind = kind /\ reqs[j].n = n
  <2>1. CASE \E i \in DOMAIN y.out : y.out[i].last /\ y.out[i].kind = kind /\ y.out[i].n = n
    <3>1. PICK i \in DOMAIN y.out : y.out[i].last /\ y.out[i].kind = kind /\ y.out[i].n = n
      BY <2>1
    <3>2. CASE i \in 1..Len(x.out)
      <4>1. y.out[i] = old[i] /\ i \in 1..Len(old)
        BY <3>2, <1>3, <1>6
      <4>2. x.out[i].last /\ x.out[i].kind = kind /\ x.out[i].n = n
        BY <4>1, <3>1, <1>3
      <4> QED
        BY <4>2, <3>2, <1>6 DEF InAir
    <3>3. CASE i \notin 1..Len(x.out)
      <4>1. i - Len(x.out) \in 1..Len(reqs) /\ i = Len(x.out) + (i - Len(x.out))
        BY <3>1, <3>3, <1>6
      <4>2. y.out[i] = reqs[i - Len(x.out)]
        BY <4>1, <1>6
      <4> QED
        BY <4>1, <4>2, <3>1, <1>6
    <3> QED
      BY <3>2, <3>3
  <2>2. CASE \E r \in y.replies : r.kind = kind /\ r.n = n
    BY <2>2, <1>5 DEF InAir, rest
  <2> QED
    BY <1>9, <2>1, <2>2 DEF InAir
<1>10. Encoded(x, y, reqs)
  BY <1>3, <1>5, <1>6 DEF Encoded, rest
<1> QED
  BY <1>5, <1>7, <1>8, <1>9, <1>10 DEF y, fails

(* A batch with no registration leaves those that are on their way.        *)
LEMMA EncodedUntouched ==
  ASSUME NEW x \in Clients, NEW y, NEW reqs, Encoded(x, y, reqs),
         \A j \in DOMAIN reqs : reqs[j].kind # "register"
  PROVE  Untouched(x, y)
<1>1. ASSUME NEW i \in DOMAIN x.out, x.out[i].kind = "register"
      PROVE  /\ i \in DOMAIN y.out /\ y.out[i].kind = "register" /\ y.out[i].n = x.out[i].n
             /\ y.out[i].last = x.out[i].last /\ y.out[i].token = x.out[i].token
  <2>1. ~Replaced(reqs, x.out[i])
    BY <1>1 DEF SameRequest, Replaced
  <2>2. x.out[i].last \in BOOLEAN
    <3>1. x.out[i] \in Requests
      BY DEF Clients
    <3> QED
      BY <3>1 DEF Requests
  <2> QED
    BY <1>1, <2>1, <2>2 DEF Encoded
<1>2. ASSUME NEW i \in DOMAIN y.out, y.out[i].kind = "register"
      PROVE  i \in DOMAIN x.out /\ x.out[i].kind = "register"
  <2>1. CASE i \in 1..Len(x.out)
    BY <1>2, <2>1 DEF Encoded
  <2>2. CASE i \notin 1..Len(x.out)
    <3>1. i - Len(x.out) \in 1..Len(reqs) /\ i = Len(x.out) + (i - Len(x.out))
      BY <2>2 DEF Encoded
    <3>2. y.out[i] = reqs[i - Len(x.out)]
      BY <3>1 DEF Encoded
    <3> QED
      BY <3>1, <3>2, <1>2 DEF Encoded
  <2> QED
    BY <2>1, <2>2
<1>3. Answers(y) = Answers(x)
  <2>1. \A r \in x.replies : r.kind = "register" => ~Replaced(reqs, r)
    BY DEF SameRequest, Replaced
  <2>2. y.replies = {r \in x.replies : ~Replaced(reqs, r)}
    BY DEF Encoded
  <2> QED
    BY <2>1, <2>2 DEF Answers
<1>4. Registers(y) = Registers(x)
  BY <1>1, <1>2 DEF Registers
<1> QED
  BY <1>1, <1>3, <1>4 DEF Untouched, SameAir, Registers

(* A request that is made is one of Requests, and is awaited.              *)
LEMMA RequestIs ==
  ASSUME NEW s \in Clients, NEW kind \in Kinds, NEW n, n = None \/ n \in DOMAIN s.mgr
  PROVE  LET req == Request(s, kind, n) IN
         req \in Requests /\ req.kind = kind /\ req.n = n /\ req.last
<1>1. DOMAIN s.mgr \subseteq Numbers /\ s.mgr \in [DOMAIN s.mgr -> Managers]
  BY TableIs DEF Clients
<1>2. n # None => s.mgr[n] \in Managers /\ n \in Numbers
  BY <1>1
<1>3. MaxManagers \in Nat
  BY MpnAssumption
<1>4. n \in 0..MaxManagers
  BY <1>2, <1>3 DEF Numbers, None
<1>5. /\ (IF n = None THEN None ELSE s.mgr[n].id) \in Nat
      /\ (IF n = None THEN NoValues ELSE s.mgr[n].cur) \in [Parts -> Nat]
  BY <1>2 DEF Managers, None, NoValues
<1>6. s.id \in Nat /\ s.device \in Nat
  BY DEF Clients
<1> QED
  BY <1>4, <1>5, <1>6 DEF Request, Requests, Parts

(* evtSendControl: what is sent is in the air if there is a channel.       *)
LEMMA ControlIs ==
  ASSUME NEW s \in Clients, NEW req \in Requests, req.last
  PROVE  LET y == evtSendControl(s, req) IN
         /\ y \in Clients /\ SameDevice(s, y) /\ y.mgr = s.mgr /\ y.listed = s.listed
         /\ \A kind, n : InAir(s, kind, n) => InAir(y, kind, n)
         /\ s.up => InAir(y, req.kind, req.n)
         /\ \A kind, n : InAir(y, kind, n) => InAir(s, kind, n) \/ (req.kind = kind /\ req.n = n)
         /\ req.kind = "register" \/ s.id # None \/ ~s.up => y.failed = s.failed
         /\ req.kind # "register" => Untouched(s, y)
         /\ s.up => Encoded(s, y, <<req>>)
<1> DEFINE reqs == <<req>>
<1>1. CASE s.up
  <2>1. reqs \in Seq(Requests) /\ DOMAIN reqs = {1} /\ reqs[1] = req
    OBVIOUS
  <2> HIDE DEF reqs
  <2>2. evtSendControl(s, req) = encode(s, reqs)
    BY <1>1 DEF evtSendControl, reqs
  <2>3. s.failed \in BOOLEAN
    BY DEF Clients
  <2> DEFINE y == encode(s, reqs)
  <2>4. /\ y \in Clients /\ SameDevice(s, y) /\ y.mgr = s.mgr /\ y.listed = s.listed
        /\ \A kind, n : InAir(s, kind, n) => InAir(y, kind, n)
        /\ InAir(y, req.kind, req.n)
        /\ \A kind, n : InAir(y, kind, n) => InAir(s, kind, n) \/ (req.kind = kind /\ req.n = n)
        /\ y.failed = (s.failed \/ (s.id = None /\ req.kind # "register"))
        /\ Encoded(s, y, reqs)
    BY <2>1, EncodeIs
  <2> HIDE DEF y
  <2>5. req.kind = "register" \/ s.id # None => y.failed = s.failed
    BY <2>3, <2>4
  <2>6. req.kind # "register" => Untouched(s, y)
    BY <2>1, <2>4, EncodedUntouched
  <2> QED
    BY <1>1, <2>2, <2>4, <2>5, <2>6 DEF y, reqs
<1>2. CASE ~s.up
  BY <1>2, UntouchedSame DEF evtSendControl, SameDevice
<1> QED
  BY <1>1, <1>2

(* The request of a manager.                                               *)
LEMMA SentIs ==
  ASSUME NEW s \in Clients, AirOK(s), NEW n \in DOMAIN s.mgr
  PROVE  LET y == Sent(s, n) IN
         /\ y \in Clients /\ AirOK(y) /\ SameDevice(s, y) /\ Untouched(s, y) /\ y.mgr = s.mgr
         /\ \A kind, k : InAir(s, kind, k) => InAir(y, kind, k)
         /\ s.up => InAir(y, KindOf(s.mgr[n]), n)
         /\ s.id # None \/ ~s.up => y.failed = s.failed
<1> DEFINE req == ManagerRequest(s, n)
           y == Sent(s, n)
<1>1. KindOf(s.mgr[n]) \in Kinds \ {"register"} /\ req = Request(s, KindOf(s.mgr[n]), n)
  BY DEF KindOf, Kinds, ManagerRequest
<1>2. req \in Requests /\ req.kind = KindOf(s.mgr[n]) /\ req.n = n /\ req.last
  BY <1>1, RequestIs
<1>3. y = evtSendControl(s, req)
  BY DEF Sent
<1> HIDE DEF req, y
<1>4. /\ y \in Clients /\ SameDevice(s, y) /\ y.mgr = s.mgr
      /\ \A kind, k : InAir(s, kind, k) => InAir(y, kind, k)
      /\ s.up => InAir(y, req.kind, req.n)
      /\ req.kind # "register" => Untouched(s, y)
      /\ \A kind, k : InAir(y, kind, k) => InAir(s, kind, k) \/ (req.kind = kind /\ req.n = k)
      /\ s.id # None \/ ~s.up => y.failed = s.failed
  BY <1>2, <1>3, ControlIs
<1>5. AirOK(y)
  BY <1>2, <1>4 DEF AirOK
<1> QED
  BY <1>1, <1>2, <1>4, <1>5 DEF y

LEMMA FinalizeIs ==
  ASSUME NEW s \in Clients, NEW n \in DOMAIN s.mgr
  PROVE  LET y == finalize(s, n) IN
         /\ y \in Clients /\ SameDevice(s, y) /\ y.failed = s.failed
         /\ DOMAIN y.mgr = DOMAIN s.mgr \ {n}
         /\ \A k \in DOMAIN y.mgr : y.mgr[k] = s.mgr[k]
         /\ \A kind, k : k # n /\ InAir(s, kind, k) => InAir(y, kind, k)
         /\ \A kind, k : InAir(y, kind, k) => InAir(s, kind, k) /\ k # n
         /\ Untouched(s, y)
<1> DEFINE y == finalize(s, n)
           D == DOMAIN s.mgr \ {n}
           f == [k \in D |-> s.mgr[k]]
           rest == {r \in s.replies : r.n # n}
           old == [i \in DOMAIN s.out |-> [s.out[i] EXCEPT !.last = @ /\ s.out[i].n # n]]
<1>1. s.out \in Seq(Requests) /\ s.replies \subseteq Replies /\ s.mgr \in Tables
  BY DEF Clients
<1>2. y = [s EXCEPT !.mgr = f, !.replies = rest, !.out = old]
  BY DEF finalize
<1>3. f \in Tables /\ DOMAIN f = D /\ \A k \in D : f[k] = s.mgr[k]
  <2>1. D \in SUBSET Numbers /\ f \in [D -> Managers]
    BY <1>1, TableIs
  <2> HIDE DEF f, D
  <2>2. f \in Tables /\ DOMAIN f = D
    BY <2>1, IsTable
  <2> QED
    BY <2>2 DEF f
<1>4. /\ old \in Seq(Requests) /\ DOMAIN old = DOMAIN s.out
      /\ \A i \in DOMAIN s.out : /\ old[i].kind = s.out[i].kind /\ old[i].n = s.out[i].n
                                 /\ old[i].last = (s.out[i].last /\ s.out[i].n # n)
                                 /\ old[i].token = s.out[i].token
  <2>1. ASSUME NEW i \in DOMAIN s.out
        PROVE  /\ old[i] \in Requests /\ old[i].kind = s.out[i].kind /\ old[i].n = s.out[i].n
               /\ old[i].last = (s.out[i].last /\ s.out[i].n # n)
               /\ old[i].token = s.out[i].token
    <3> DEFINE q == s.out[i]
               l == q.last /\ q.n # n
    <3>1. q \in Requests /\ old[i] = [q EXCEPT !.last = l] /\ l \in BOOLEAN
      BY <1>1
    <3> HIDE DEF q, l
    <3>2. [q EXCEPT !.last = l] \in Requests /\ [q EXCEPT !.last = l].kind = q.kind
          /\ [q EXCEPT !.last = l].n = q.n /\ [q EXCEPT !.last = l].last = l
          /\ [q EXCEPT !.last = l].token = q.token
      BY <3>1 DEF Requests
    <3> HIDE DEF old
    <3> QED
      BY <3>1, <3>2 DEF q, l
  <2>2. DOMAIN s.out = 1..Len(s.out) /\ Len(s.out) \in Nat
    BY <1>1
  <2>3. old \in [1..Len(s.out) -> Requests] /\ DOMAIN old = DOMAIN s.out
    BY <2>1, <2>2
  <2> HIDE DEF old
  <2>4. old \in Seq(Requests)
    BY <2>2, <2>3
  <2> QED
    BY <2>1, <2>3, <2>4
<1>5. rest \subseteq Replies
  BY <1>1
<1> HIDE DEF f, rest, old, y
<1>6. /\ y \in Clients /\ SameDevice(s, y) /\ y.failed = s.failed
      /\ y.mgr = f /\ y.out = old /\ y.replies = rest
  BY <1>2, <1>3, <1>4, <1>5 DEF Clients, SameDevice
<1>7. ASSUME NEW kind, NEW k
      PROVE  InAir(y, kind, k) <=> InAir(s, kind, k) /\ k # n
  <2>1. (\E i \in DOMAIN old : old[i].last /\ old[i].kind = kind /\ old[i].n = k)
        <=> (\E i \in DOMAIN s.out : s.out[i].last /\ s.out[i].kind = kind /\ s.out[i].n = k) /\ k # n
    BY <1>4
  <2>2. (\E r \in rest : r.kind = kind /\ r.n = k)
        <=> (\E r \in s.replies : r.kind = kind /\ r.n = k) /\ k # n
    BY DEF rest
  <2> QED
    BY <1>6, <2>1, <2>2 DEF InAir
<1>8. ASSUME Numbered(s)
      PROVE  SameAir(s, y)
  <2>1. n # None /\ \A i \in DOMAIN s.out : s.out[i].last \in BOOLEAN
    <3>1. n \in Numbers
      BY <1>1, TableIs
    <3>2. n # None
      BY <3>1, MpnAssumption DEF Numbers, None
    <3>3. \A i \in DOMAIN s.out : s.out[i] \in Requests
      BY <1>1
    <3> QED
      BY <3>2, <3>3 DEF Requests
  <2>2. Registers(y) = Registers(s)
    BY <1>4, <1>6 DEF Registers
  <2>3. Answers(y) = Answers(s)
    BY <1>6, <1>8, <2>1 DEF Answers, Numbered, rest
  <2>4. \A i \in Registers(s) : /\ y.out[i].n = s.out[i].n /\ y.out[i].last = s.out[i].last
                               /\ y.out[i].token = s.out[i].token
    BY <1>4, <1>6, <1>8, <2>1 DEF Registers, Numbered
  <2> QED
    BY <2>2, <2>3, <2>4 DEF SameAir
<1> QED
  BY <1>3, <1>6, <1>7, <1>8 DEF y, Untouched

(* Only the list that is shown changes.                                    *)
LEMMA FireIs ==
  ASSUME NEW s \in Clients
  PROVE  LET y == fireOnSubscriptionsUpdated(s) IN
         /\ y \in Clients /\ SameDevice(s, y) /\ y.mgr = s.mgr /\ y.failed = s.failed
         /\ y.out = s.out /\ y.replies = s.replies
<1> DEFINE y == fireOnSubscriptionsUpdated(s)
           L == Listed(s)
<1>1. DOMAIN s.mgr \subseteq Numbers /\ s.mgr \in [DOMAIN s.mgr -> Managers]
  BY TableIs DEF Clients
<1>2. L \subseteq Nat
  BY <1>1 DEF Listed, Managers
<1>3. y = [s EXCEPT !.listed = L]
  BY DEF fireOnSubscriptionsUpdated
<1> HIDE DEF L, y
<1> QED
  BY <1>2, <1>3 DEF Clients, SameDevice, y

-----------------------------------------------------------------------------
(* A manager                                                               *)

(* One step of a manager after the other.                                  *)
LEMMA SameDeviceTransitive ==
  ASSUME NEW x, NEW y, NEW z, SameDevice(x, y), SameDevice(y, z)
  PROVE  SameDevice(x, z)
  BY DEF SameDevice

(* A manager that sends nothing new.                                       *)
LEMMA HandledByBecoming ==
  ASSUME NEW s \in Clients, AirOK(s), NEW n \in DOMAIN s.mgr, NEW v \in Managers, ManagerOK(v),
         s.up /\ isPending(v) => InAir(s, KindOf(v), n)
  PROVE  LET y == Becomes(s, n, v) IN
         Handled(s, y, n) /\ n \in DOMAIN y.mgr /\ y.mgr[n] = v /\ y.failed = s.failed
<1> DEFINE y == Becomes(s, n, v)
<1>1. /\ y \in Clients /\ SameDevice(s, y)
      /\ DOMAIN y.mgr = DOMAIN s.mgr /\ y.mgr[n] = v
      /\ \A k \in DOMAIN s.mgr \ {n} : y.mgr[k] = s.mgr[k]
      /\ y.out = s.out /\ y.replies = s.replies /\ y.failed = s.failed
  BY BecomesIs
<1> HIDE DEF y
<1>2. \A kind, k : InAir(y, kind, k) <=> InAir(s, kind, k)
  BY <1>1, InAirSame
<1>3. AirOK(y)
  BY <1>1, <1>2 DEF AirOK
<1>4. OnlyManager(s, y, n)
  BY <1>1, <1>2, <1>3, UntouchedSame DEF OnlyManager
<1>5. ManagerSent(y, n)
  BY <1>1, <1>2 DEF ManagerSent, SameDevice
<1> QED
  BY <1>1, <1>4, <1>5 DEF Handled, y

(* A manager that sends a request.                                         *)
LEMMA HandledBySending ==
  ASSUME NEW s \in Clients, AirOK(s), NEW n \in DOMAIN s.mgr, NEW v \in Managers, ManagerOK(v)
  PROVE  LET y == Sent(Becomes(s, n, v), n) IN
         Handled(s, y, n) /\ n \in DOMAIN y.mgr /\ y.mgr[n] = v
<1> DEFINE x == Becomes(s, n, v)
           y == Sent(x, n)
<1>1. /\ x \in Clients /\ SameDevice(s, x)
      /\ DOMAIN x.mgr = DOMAIN s.mgr /\ x.mgr[n] = v
      /\ \A k \in DOMAIN s.mgr \ {n} : x.mgr[k] = s.mgr[k]
      /\ x.out = s.out /\ x.replies = s.replies /\ x.failed = s.failed
  BY BecomesIs
<1> HIDE DEF x
<1>2. \A kind, k : InAir(x, kind, k) <=> InAir(s, kind, k)
  BY <1>1, InAirSame
<1>3. AirOK(x)
  BY <1>1, <1>2 DEF AirOK
<1>4. /\ y \in Clients /\ AirOK(y) /\ SameDevice(x, y) /\ Untouched(x, y) /\ y.mgr = x.mgr
      /\ \A kind, k : InAir(x, kind, k) => InAir(y, kind, k)
      /\ x.up => InAir(y, KindOf(x.mgr[n]), n)
      /\ x.id # None \/ ~x.up => y.failed = x.failed
  BY <1>1, <1>3, SentIs
<1> HIDE DEF y
<1>5. SameDevice(s, y)
  BY <1>1, <1>4, SameDeviceTransitive
<1>6. OnlyManager(s, y, n)
  <2>1. s.id # None \/ ~s.up => y.failed = s.failed
    BY <1>1, <1>4 DEF SameDevice
  <2>2. Untouched(s, y)
    BY <1>1, <1>4, UntouchedSame, UntouchedTransitive
  <2> QED
    BY <1>1, <1>2, <1>4, <1>5, <2>1, <2>2 DEF OnlyManager
<1>7. ManagerSent(y, n)
  BY <1>1, <1>4 DEF ManagerSent, SameDevice
<1> QED
  BY <1>1, <1>4, <1>6, <1>7 DEF Handled, x, y

(* A manager that is removed.                                              *)
LEMMA HandledByRemoving ==
  ASSUME NEW s \in Clients, AirOK(s), NEW n \in DOMAIN s.mgr
  PROVE  /\ Handled(s, finalize(s, n), n) /\ n \notin DOMAIN finalize(s, n).mgr
         /\ finalize(s, n).failed = s.failed
         /\ Handled(s, Unsubscribed(s, n), n) /\ n \notin DOMAIN Unsubscribed(s, n).mgr
         /\ Unsubscribed(s, n).failed = s.failed
<1> DEFINE x == finalize(s, n)
           y == Unsubscribed(s, n)
<1>1. /\ x \in Clients /\ SameDevice(s, x) /\ x.failed = s.failed
      /\ DOMAIN x.mgr = DOMAIN s.mgr \ {n}
      /\ \A k \in DOMAIN x.mgr : x.mgr[k] = s.mgr[k]
      /\ \A kind, k : k # n /\ InAir(s, kind, k) => InAir(x, kind, k)
      /\ \A kind, k : InAir(x, kind, k) => InAir(s, kind, k) /\ k # n
      /\ Untouched(s, x)
  BY FinalizeIs
<1>2. y = fireOnSubscriptionsUpdated(x)
  BY DEF Unsubscribed
<1> HIDE DEF x, y
<1>3. /\ y \in Clients /\ SameDevice(x, y) /\ y.mgr = x.mgr /\ y.failed = x.failed
      /\ y.out = x.out /\ y.replies = x.replies
  BY <1>1, <1>2, FireIs
<1>4. \A kind, k : InAir(y, kind, k) <=> InAir(x, kind, k)
  BY <1>3, InAirSame
<1>5. SameDevice(s, y)
  BY <1>1, <1>3, SameDeviceTransitive
<1>6. AirOK(x) /\ AirOK(y)
  BY <1>1, <1>3, <1>4 DEF AirOK
<1>7. OnlyManager(s, x, n)
  BY <1>1, <1>6 DEF OnlyManager
<1>8. OnlyManager(s, y, n)
  <2>1. Untouched(s, y)
    BY <1>1, <1>3, UntouchedSame, UntouchedTransitive
  <2> QED
    BY <1>1, <1>3, <1>4, <1>5, <1>6, <2>1 DEF OnlyManager
<1> QED
  BY <1>1, <1>3, <1>7, <1>8 DEF Handled, x, y

(* A confirmed subscription with nothing being modified.                   *)
Confirmed(v) == v \in Managers /\ v.m = 44 /\ \A part \in Parts : v.upd[part] \in {0, 1}

LEMMA CheckedIs ==
  ASSUME NEW v, Confirmed(v)
  PROVE  LET w == Checked(v) IN
         /\ w \in Managers /\ ManagerOK(w) /\ w.m = 44
         /\ w.ct \in {71, 72, 73, 74}
<1> DEFINE w == Checked(v)
<1>0. v \in Managers /\ v.m = 44 /\ Parts = {"format", "trigger"}
      /\ v.upd["format"] \in {0, 1} /\ v.upd["trigger"] \in {0, 1}
      /\ v.upd \in [Parts -> 0..3] /\ v.req \in [Parts -> Nat] /\ v.cur \in [Parts -> Nat]
  BY DEF Confirmed, Managers, Parts
<1>1. ASSUME NEW part \in Parts, NEW ct \in {73, 74}, w = ChangePart(v, part, ct)
      PROVE  w \in Managers /\ ManagerOK(w) /\ w.m = 44 /\ w.ct \in {71, 72, 73, 74}
  <2> DEFINE u == [v.upd EXCEPT ![part] = 2]
             r == [v.cur EXCEPT ![part] = v.req[part]]
  <2>1. u \in [Parts -> 0..3] /\ r \in [Parts -> Nat]
    BY <1>0
  <2>2. w = [v EXCEPT !.ct = ct, !.upd = u, !.cur = r]
    BY <1>1 DEF ChangePart
  <2> HIDE DEF u, r, w
  <2>3. w \in Managers /\ w.m = 44 /\ w.ct = ct
    <3>1. v \in Managers /\ v.m = 44 /\ ct \in {None, 71, 72, 73, 74, 76}
      BY <1>0
    <3> QED
      BY <2>1, <2>2, <3>1 DEF Managers
  <2> QED
    BY <2>3 DEF ManagerOK
<1>2. CASE v.uu = 11
  <2>1. w = [v EXCEPT !.ct = 72]
    BY <1>2 DEF Checked
  <2>2. w \in Managers /\ w.m = 44 /\ w.ct = 72 /\ w.upd = v.upd
    BY <1>0, <2>1 DEF Managers
  <2> QED
    BY <1>0, <2>2 DEF ManagerOK
<1>3. CASE v.uu # 11 /\ v.upd["format"] = 1
  <2>1. w = ChangePart(v, "format", 74)
    BY <1>3 DEF Checked
  <2> QED
    BY <1>0, <1>1, <2>1
<1>4. CASE v.uu # 11 /\ v.upd["format"] # 1 /\ v.upd["trigger"] = 1
  <2>1. w = ChangePart(v, "trigger", 73)
    BY <1>4 DEF Checked
  <2> QED
    BY <1>0, <1>1, <2>1
<1>5. CASE v.uu # 11 /\ v.upd["format"] # 1 /\ v.upd["trigger"] # 1
  <2>1. w = [v EXCEPT !.ct = 71]
    BY <1>5 DEF Checked
  <2>2. w \in Managers /\ w.m = 44 /\ w.ct = 71 /\ w.upd = v.upd /\ w.uu = v.uu
    BY <1>0, <2>1 DEF Managers
  <2> QED
    BY <1>0, <1>5, <2>2 DEF ManagerOK
<1> QED
  BY <1>2, <1>3, <1>4, <1>5

(* evtCheck leaves a manager as it should be: it rests, or its request is  *)
(* in the air.                                                             *)
LEMMA CheckIs ==
  ASSUME NEW s \in Clients, AirOK(s), NEW n \in DOMAIN s.mgr, NEW v, Confirmed(v)
  PROVE  LET y == evtCheck(s, n, v) IN
         Handled(s, y, n) /\ n \in DOMAIN y.mgr /\ y.mgr[n].m = 44
<1> DEFINE w == Checked(v)
<1>1. w \in Managers /\ ManagerOK(w) /\ w.m = 44 /\ w.ct \in {71, 72, 73, 74}
  BY CheckedIs
<1>2. evtCheck(s, n, v) = IF w.ct = 71 THEN Becomes(s, n, w) ELSE Sent(Becomes(s, n, w), n)
  BY DEF evtCheck
<1> HIDE DEF w
<1>3. CASE w.ct = 71
  <2>1. ~isPending(w)
    BY <1>1, <1>3 DEF isPending
  <2> DEFINE y == Becomes(s, n, w)
  <2>2. /\ y \in Clients /\ SameDevice(s, y)
        /\ DOMAIN y.mgr = DOMAIN s.mgr /\ y.mgr[n] = w
        /\ \A k \in DOMAIN s.mgr \ {n} : y.mgr[k] = s.mgr[k]
        /\ y.out = s.out /\ y.replies = s.replies /\ y.failed = s.failed
    BY <1>1, BecomesIs
  <2> HIDE DEF y
  <2>3. \A kind, k : InAir(y, kind, k) <=> InAir(s, kind, k)
    BY <2>2, InAirSame
  <2>4. OnlyManager(s, y, n)
    BY <2>2, <2>3, UntouchedSame DEF OnlyManager, AirOK
  <2>5. ManagerSent(y, n)
    BY <2>1, <2>2 DEF ManagerSent
  <2> QED
    BY <1>1, <1>2, <1>3, <2>2, <2>4, <2>5 DEF Handled, y
<1>4. CASE w.ct # 71
  BY <1>1, <1>2, <1>4, HandledBySending
<1> QED
  BY <1>3, <1>4

(* An idle manager may have something to do.                               *)
LEMMA CheckIfIdleIs ==
  ASSUME NEW s \in Clients, AirOK(s), NEW n \in DOMAIN s.mgr, ManagerSent(s, n),
         NEW v \in Managers, v.m = s.mgr[n].m, v.ct = s.mgr[n].ct,
         v.m # 44 => v.ct = None,
         \A part \in Parts : v.upd[part] \in {2, 3} => v.ct \in {73, 74}
  PROVE  LET y == CheckIfIdle(s, n, v) IN
         /\ Handled(s, y, n) /\ n \in DOMAIN y.mgr /\ y.mgr[n].m = v.m
         /\ v.ct # 71 => y.mgr[n] = v /\ y.failed = s.failed
<1>1. CASE v.ct = 71
  <2>1. Confirmed(v)
    BY <1>1 DEF Confirmed, Managers, None
  <2>2. CheckIfIdle(s, n, v) = evtCheck(s, n, v)
    BY <1>1 DEF CheckIfIdle
  <2> QED
    BY <1>1, <2>1, <2>2, CheckIs DEF Confirmed
<1>2. CASE v.ct # 71
  <2>1. CheckIfIdle(s, n, v) = Becomes(s, n, v)
    BY <1>2 DEF CheckIfIdle
  <2>2. ManagerOK(v)
    BY <1>2 DEF ManagerOK
  <2>3. s.up /\ isPending(v) => InAir(s, KindOf(v), n)
    BY DEF isPending, KindOf, ManagerSent
  <2> QED
    BY <2>1, <2>2, <2>3, HandledByBecoming
<1> QED
  BY <1>1, <1>2

(* Nothing happens to a manager.                                           *)
LEMMA HandledByIgnoring ==
  ASSUME NEW s \in Clients, AirOK(s), NEW n \in DOMAIN s.mgr, ManagerOK(s.mgr[n]), ManagerSent(s, n)
  PROVE  Handled(s, s, n)
  BY UntouchedSame DEF Handled, OnlyManager, SameDevice

ManagerIs(s, n) ==
    /\ s \in Clients /\ AirOK(s) /\ n \in DOMAIN s.mgr
    /\ s.mgr[n] \in Managers /\ ManagerOK(s.mgr[n]) /\ ManagerSent(s, n)

(* evtExtMpnUnsubscribe, whatever the manager is doing.                    *)
LEMMA UnsubscribeIs ==
  ASSUME NEW s, NEW n, ManagerIs(s, n)
  PROVE  LET y == evtExtMpnUnsubscribe(s, n) IN
         /\ Handled(s, y, n) /\ Undisturbed(s, y, n)
         /\ n \in DOMAIN y.mgr => y.mgr[n].m # 41
<1> DEFINE y == evtExtMpnUnsubscribe(s, n)
           mgr == s.mgr[n]
           v == [mgr EXCEPT !.uu = 11]
<1>0. s \in Clients /\ AirOK(s) /\ n \in DOMAIN s.mgr
      /\ mgr \in Managers /\ ManagerOK(mgr) /\ ManagerSent(s, n)
  BY DEF ManagerIs
<1>1. CASE mgr.m = 41
  <2>1. y = finalize(s, n)
    BY <1>1 DEF evtExtMpnUnsubscribe
  <2> QED
    BY <1>0, <2>1, HandledByRemoving DEF Undisturbed
<1>2. CASE mgr.m # 41
  <2>1. y = CheckIfIdle(s, n, v)
    BY <1>2 DEF evtExtMpnUnsubscribe
  <2> HIDE DEF v
  <2>2. v \in Managers /\ v.m = mgr.m /\ v.ct = mgr.ct /\ v.upd = mgr.upd
    BY <1>0 DEF v, Managers
  <2>3. v.m # 44 => v.ct = None
    BY <1>0, <2>2 DEF ManagerOK
  <2>4. \A part \in Parts : v.upd[part] \in {2, 3} => v.ct \in {73, 74}
    BY <1>0, <2>2 DEF ManagerOK
  <2> HIDE DEF mgr, y
  <2>5. /\ Handled(s, y, n) /\ n \in DOMAIN y.mgr /\ y.mgr[n].m = v.m
        /\ v.ct # 71 => y.mgr[n] = v /\ y.failed = s.failed
    BY <1>0, <2>1, <2>2, <2>3, <2>4, CheckIfIdleIs DEF mgr
  <2>6. Dormant(mgr) => v.ct # 71 /\ Dormant(v)
    BY <1>0, <2>2 DEF Dormant, ManagerOK, None
  <2> QED
    BY <1>2, <2>2, <2>5, <2>6 DEF Undisturbed, mgr, y
<1> QED
  BY <1>1, <1>2

(* evtExtMpnSetFormat and evtExtMpnSetTrigger.                             *)
LEMMA SetIs ==
  ASSUME NEW s, NEW n, ManagerIs(s, n), NEW part \in Parts, NEW value \in Nat
  PROVE  LET y == evtExtMpnSet(s, n, part, value) IN
         /\ Handled(s, y, n) /\ Undisturbed(s, y, n)
         /\ n \in DOMAIN y.mgr /\ y.mgr[n].m = s.mgr[n].m
<1> DEFINE y == evtExtMpnSet(s, n, part, value)
           mgr == s.mgr[n]
           u == mgr.upd[part]
           w == IF u \in {0, 2} THEN u + 1 ELSE u
           r == [mgr.req EXCEPT ![part] = value]
           p == [mgr.upd EXCEPT ![part] = w]
           v == [mgr EXCEPT !.req = r, !.upd = p]
<1>0. s \in Clients /\ AirOK(s) /\ n \in DOMAIN s.mgr
      /\ mgr \in Managers /\ ManagerOK(mgr) /\ ManagerSent(s, n)
  BY DEF ManagerIs
<1>1. y = CheckIfIdle(s, n, v)
  BY DEF evtExtMpnSet
<1>2. mgr.req \in [Parts -> Nat] /\ mgr.upd \in [Parts -> 0..3]
  BY <1>0 DEF Managers
<1>3. u \in 0..3 /\ w \in 0..3 /\ (w \in {2, 3} => u \in {2, 3})
  BY <1>2
<1> HIDE DEF w, u
<1>4. r \in [Parts -> Nat] /\ p \in [Parts -> 0..3]
      /\ \A q \in Parts : p[q] \in {2, 3} => mgr.upd[q] \in {2, 3}
  BY <1>2, <1>3 DEF u
<1> HIDE DEF r, p
<1>5. v \in Managers /\ v.m = mgr.m /\ v.ct = mgr.ct /\ v.upd = p
  BY <1>0, <1>4 DEF Managers
<1> HIDE DEF v
<1>6. v.m # 44 => v.ct = None
  BY <1>0, <1>5 DEF ManagerOK
<1>7. \A q \in Parts : v.upd[q] \in {2, 3} => v.ct \in {73, 74}
  BY <1>0, <1>4, <1>5 DEF ManagerOK
<1> HIDE DEF mgr, y
<1>8. /\ Handled(s, y, n) /\ n \in DOMAIN y.mgr /\ y.mgr[n].m = v.m
      /\ v.ct # 71 => y.mgr[n] = v /\ y.failed = s.failed
  BY <1>0, <1>1, <1>5, <1>6, <1>7, CheckIfIdleIs DEF mgr
<1>9. Dormant(mgr) => v.ct # 71 /\ Dormant(v)
  BY <1>0, <1>5 DEF Dormant, ManagerOK, None
<1> QED
  BY <1>5, <1>8, <1>9 DEF Undisturbed, mgr, y

-----------------------------------------------------------------------------
(* What a manager hears                                                    *)

(* After the session a manager waits for the special item of the next one. *)
LEMMA AbortedIs ==
  ASSUME NEW v \in Managers, v.m = 44
  PROVE  LET w == Aborted(v) IN
         w \in Managers /\ ManagerOK(w) /\ w.m = 44 /\ w.ct = 76
<1> DEFINE gone == {part \in Parts : v.upd[part] # 0}
           u == Cleared(v.upd, gone)
           r == Cleared(v.req, gone)
           k == Cleared(v.cur, gone)
           x == IF v.uu = 11 THEN 12 ELSE v.uu
           q == [v EXCEPT !.upd = u, !.req = r, !.cur = k]
           w == Aborted(v)
<1>1. v.upd \in [Parts -> 0..3] /\ v.req \in [Parts -> Nat] /\ v.cur \in [Parts -> Nat]
      /\ v.uu \in {10, 11, 12}
  BY DEF Managers
<1>2. u \in [Parts -> 0..3] /\ r \in [Parts -> Nat] /\ k \in [Parts -> Nat] /\ x \in {10, 11, 12}
      /\ \A part \in Parts : u[part] = 0
  BY <1>1 DEF Cleared, None
<1>3. q = ModificationError(v, gone)
  BY DEF ModificationError
<1> HIDE DEF u, r, k, x
<1>4. q \in Managers /\ q.m = 44 /\ q.upd = u /\ q.uu = v.uu
  BY <1>2 DEF Managers
<1>5. w = [q EXCEPT !.ab = 81, !.ct = 76, !.uu = x]
  BY <1>3, <1>4 DEF Aborted, x
<1> HIDE DEF q, w
<1>6. w \in Managers /\ w.m = 44 /\ w.ct = 76 /\ w.upd = u
  BY <1>2, <1>4, <1>5 DEF Managers
<1> QED
  BY <1>2, <1>6 DEF ManagerOK, w

(* evtAbort: then the manager is dormant.                                  *)
LEMMA AbortIs ==
  ASSUME NEW s, NEW n, ManagerIs(s, n)
  PROVE  LET y == evtAbort(s, n) IN
         Handled(s, y, n) /\ (n \in DOMAIN y.mgr => y.mgr[n].m # 41 /\ Dormant(y.mgr[n]))
<1> DEFINE y == evtAbort(s, n)
           mgr == s.mgr[n]
<1>0. s \in Clients /\ AirOK(s) /\ n \in DOMAIN s.mgr
      /\ mgr \in Managers /\ ManagerOK(mgr) /\ ManagerSent(s, n)
  BY DEF ManagerIs
<1>1. CASE mgr.m \in {41, 42, 43}
  <2>1. y = finalize(s, n)
    BY <1>1 DEF evtAbort
  <2> QED
    BY <1>0, <2>1, HandledByRemoving
<1>2. CASE mgr.m = 44 /\ mgr.ct # 76
  <2> DEFINE v == Aborted(mgr)
  <2>1. y = Becomes(s, n, v)
    BY <1>2 DEF evtAbort
  <2>2. v \in Managers /\ ManagerOK(v) /\ v.m = 44 /\ v.ct = 76
    BY <1>0, <1>2, AbortedIs
  <2> HIDE DEF v
  <2>3. ~isPending(v)
    BY <2>2 DEF isPending
  <2> QED
    BY <1>0, <2>1, <2>2, <2>3, HandledByBecoming DEF Dormant
<1>3. CASE mgr.m \notin {41, 42, 43} /\ ~(mgr.m = 44 /\ mgr.ct # 76)
  <2>1. y = s
    BY <1>3 DEF evtAbort
  <2>2. mgr.m \in {44, 45}
    BY <1>0, <1>3 DEF Managers
  <2> QED
    BY <1>0, <1>3, <2>1, <2>2, HandledByIgnoring DEF Dormant
<1> QED
  BY <1>1, <1>2, <1>3

(* evtDeviceActive: the activation of a manager that waited is sent.       *)
LEMMA ActiveIs ==
  ASSUME NEW s, NEW n, ManagerIs(s, n)
  PROVE  LET y == evtDeviceActive(s, n) IN
         Handled(s, y, n) /\ (n \in DOMAIN y.mgr => y.mgr[n].m # 41)
<1> DEFINE y == evtDeviceActive(s, n)
           mgr == s.mgr[n]
           v == [mgr EXCEPT !.m = 42]
<1>0. s \in Clients /\ AirOK(s) /\ n \in DOMAIN s.mgr
      /\ mgr \in Managers /\ ManagerOK(mgr) /\ ManagerSent(s, n)
  BY DEF ManagerIs
<1>1. CASE mgr.m = 41
  <2>1. y = Sent(Becomes(s, n, v), n)
    BY <1>1 DEF evtDeviceActive
  <2>2. v \in Managers /\ v.m = 42 /\ v.ct = mgr.ct /\ v.upd = mgr.upd
    BY <1>0 DEF Managers
  <2>3. ManagerOK(v)
    BY <1>0, <1>1, <2>2 DEF ManagerOK, None
  <2> HIDE DEF v
  <2> QED
    BY <1>0, <2>1, <2>2, <2>3, HandledBySending
<1>2. CASE mgr.m # 41
  BY <1>0, <1>2, HandledByIgnoring DEF evtDeviceActive
<1> QED
  BY <1>1, <1>2

(* What is confirmed when nothing was being modified.                      *)
LEMMA SubscribedIs ==
  ASSUME NEW v \in Managers, ManagerOK(v)
  PROVE  LET w == Subscribed(v) IN
         /\ w \in Managers /\ w.m = 44 /\ w.ct = v.ct /\ w.uu = v.uu /\ w.upd = v.upd
         /\ v.ct \notin {73, 74} => Confirmed(w)
<1> DEFINE w == Subscribed(v)
<1>1. w \in Managers /\ w.m = 44 /\ w.ct = v.ct /\ w.uu = v.uu /\ w.upd = v.upd
  <2>1. w = [v EXCEPT !.m = 44, !.ab = 80]
    BY DEF Subscribed
  <2> HIDE DEF w
  <2>2. w.m = 44 /\ w.ct = v.ct /\ w.uu = v.uu /\ w.upd = v.upd
    BY <2>1 DEF Managers
  <2>3. 44 \in 41..45 /\ 80 \in {None, 80, 81}
    OBVIOUS
  <2>4. w \in Managers
    BY <2>1, <2>3 DEF Managers
  <2> QED
    BY <2>2, <2>4
<1>2. v.upd \in [Parts -> 0..3]
  BY DEF Managers
<1> HIDE DEF w
<1> QED
  BY <1>1, <1>2 DEF ManagerOK, Confirmed, w

(* evtMPNOK, which may come before or after the answer to the activation.  *)
LEMMA MPNOKIs ==
  ASSUME NEW s, NEW n, ManagerIs(s, n)
  PROVE  LET y == evtMPNOK(s, n) IN
         /\ Handled(s, y, n) /\ Undisturbed(s, y, n)
         /\ n \in DOMAIN y.mgr => (y.mgr[n].m = 41 => s.mgr[n].m = 41)
<1> DEFINE y == evtMPNOK(s, n)
           mgr == s.mgr[n]
           v == Subscribed(mgr)
           b == Becomes(s, n, v)
           x == fireOnSubscriptionsUpdated(b)
<1>0. s \in Clients /\ AirOK(s) /\ n \in DOMAIN s.mgr
      /\ mgr \in Managers /\ ManagerOK(mgr) /\ ManagerSent(s, n)
  BY DEF ManagerIs
<1>1. CASE mgr.m \in {42, 43}
  <2>1. y = evtCheck(x, n, v)
    BY <1>1 DEF evtMPNOK
  <2>2. v \in Managers /\ Confirmed(v)
    BY <1>0, <1>1, SubscribedIs DEF ManagerOK, None
  <2> HIDE DEF v
  <2>3. /\ b \in Clients /\ SameDevice(s, b)
        /\ DOMAIN b.mgr = DOMAIN s.mgr
        /\ \A k \in DOMAIN s.mgr \ {n} : b.mgr[k] = s.mgr[k]
        /\ b.out = s.out /\ b.replies = s.replies /\ b.failed = s.failed
    BY <1>0, <2>2, BecomesIs
  <2> HIDE DEF b
  <2>4. /\ x \in Clients /\ SameDevice(b, x) /\ x.mgr = b.mgr /\ x.failed = b.failed
        /\ x.out = b.out /\ x.replies = b.replies
    BY <2>3, FireIs
  <2> HIDE DEF x
  <2>5. SameDevice(s, x)
    BY <2>3, <2>4, SameDeviceTransitive
  <2>6. \A kind, k : InAir(x, kind, k) <=> InAir(s, kind, k)
    BY <2>3, <2>4, InAirSame
  <2>7. AirOK(x)
    BY <1>0, <2>3, <2>4, <2>6 DEF AirOK
  <2>8. Handled(x, y, n) /\ n \in DOMAIN y.mgr /\ y.mgr[n].m = 44
    BY <1>0, <2>1, <2>2, <2>3, <2>4, <2>7, CheckIs
  <2> HIDE DEF y
  <2>9. OnlyManager(s, y, n)
    <3>1. OnlyManager(x, y, n)
      BY <2>8 DEF Handled
    <3>2. SameDevice(s, y)
      BY <2>5, <3>1, SameDeviceTransitive DEF OnlyManager
    <3>3. s.id # None \/ ~s.up => y.failed = s.failed
      BY <2>3, <2>4, <2>5, <3>1 DEF OnlyManager, SameDevice
    <3>4. DOMAIN x.mgr = DOMAIN s.mgr /\ \A k \in DOMAIN s.mgr \ {n} : x.mgr[k] = s.mgr[k]
      BY <2>3, <2>4
    <3>5. Untouched(s, y)
      <4>1. Untouched(s, x)
        BY <2>3, <2>4, UntouchedSame
      <4> QED
        BY <3>1, <4>1, UntouchedTransitive DEF OnlyManager
    <3> QED
      BY <2>6, <3>1, <3>2, <3>3, <3>4, <3>5 DEF OnlyManager
  <2> QED
    BY <1>1, <2>8, <2>9 DEF Handled, Undisturbed, Dormant, y
<1>2. CASE mgr.m \notin {42, 43}
  <2>1. y = s
    BY <1>2 DEF evtMPNOK
  <2> QED
    BY <1>0, <2>1, HandledByIgnoring DEF Undisturbed
<1> QED
  BY <1>1, <1>2

(* evtMPNDEL: a manager that asked for it goes.                            *)
LEMMA MPNDELIs ==
  ASSUME NEW s, NEW n, ManagerIs(s, n)
  PROVE  LET y == evtMPNDEL(s, n) IN
         /\ Handled(s, y, n) /\ Undisturbed(s, y, n)
         /\ n \in DOMAIN y.mgr => (y.mgr[n].m = 41 => s.mgr[n].m = 41)
<1>0. s \in Clients /\ AirOK(s) /\ n \in DOMAIN s.mgr
      /\ ManagerOK(s.mgr[n]) /\ ManagerSent(s, n)
  BY DEF ManagerIs
<1>1. CASE s.mgr[n].ct = 72
  BY <1>0, <1>1, HandledByRemoving DEF evtMPNDEL, Undisturbed
<1>2. CASE s.mgr[n].ct # 72
  <2>1. evtMPNDEL(s, n) = s
    BY <1>2 DEF evtMPNDEL
  <2> QED
    BY <1>0, <2>1, HandledByIgnoring DEF Undisturbed
<1> QED
  BY <1>1, <1>2

(* evtMpnUpdate, of a manager that goes, is confirmed or is restored.      *)
LEMMA UpdateIs ==
  ASSUME NEW s, NEW n, ManagerIs(s, n), NEW kind
  PROVE  LET y == evtMpnUpdate(s, n, kind) IN
         /\ Handled(s, y, n)
         /\ n \in DOMAIN y.mgr => (y.mgr[n].m = 41 => s.mgr[n].m = 41)
<1> DEFINE y == evtMpnUpdate(s, n, kind)
           mgr == s.mgr[n]
           v == Subscribed(mgr)
<1>0. s \in Clients /\ AirOK(s) /\ n \in DOMAIN s.mgr
      /\ mgr \in Managers /\ ManagerOK(mgr) /\ ManagerSent(s, n)
  BY DEF ManagerIs
<1>1. /\ v \in Managers /\ v.m = 44 /\ v.ct = mgr.ct /\ v.uu = mgr.uu /\ v.upd = mgr.upd
      /\ mgr.ct \notin {73, 74} => Confirmed(v)
  BY <1>0, SubscribedIs
<1>2. CASE mgr.m = 44 /\ kind = "DELETE"
  <2>1. y = Unsubscribed(s, n)
    BY <1>2 DEF evtMpnUpdate
  <2> QED
    BY <1>0, <2>1, HandledByRemoving
<1>3. CASE \/ mgr.m = 45 /\ kind = "STATUS"
           \/ mgr.m = 44 /\ kind # "DELETE" /\ mgr.ab = 81 /\ mgr.ct = 76
  <2>1. y = evtCheck(s, n, v)
    BY <1>3 DEF evtMpnUpdate
  <2>2. Confirmed(v)
    BY <1>0, <1>1, <1>3 DEF ManagerOK, None
  <2> HIDE DEF v
  <2> QED
    BY <1>0, <2>1, <2>2, CheckIs
<1>4. CASE mgr.m = 44 /\ kind # "DELETE" /\ mgr.ab = 81 /\ mgr.ct # 76
  <2>1. y = Becomes(s, n, v)
    BY <1>4 DEF evtMpnUpdate
  <2>2. ManagerOK(v)
    BY <1>0, <1>1, <1>4 DEF ManagerOK
  <2>3. s.up /\ isPending(v) => InAir(s, KindOf(v), n)
    BY <1>0, <1>1, <1>4 DEF isPending, KindOf, ManagerSent
  <2> HIDE DEF v
  <2> QED
    BY <1>0, <1>1, <2>1, <2>2, <2>3, HandledByBecoming
<1>5. CASE /\ ~(mgr.m = 44 /\ kind = "DELETE") /\ ~(mgr.m = 45 /\ kind = "STATUS")
           /\ ~(mgr.m = 44 /\ kind # "DELETE" /\ mgr.ab = 81)
  <2>1. y = s
    BY <1>5 DEF evtMpnUpdate
  <2> QED
    BY <1>0, <2>1, HandledByIgnoring
<1> QED
  BY <1>2, <1>3, <1>4, <1>5

(* Whatever a manager is told, it is as it should be afterwards.           *)
LEMMA HearsIs ==
  ASSUME NEW s, NEW n, ManagerIs(s, n), NEW msg
  PROVE  LET y == Hears(s, n, msg) IN
         /\ Handled(s, y, n)
         /\ n \in DOMAIN y.mgr =>
               /\ y.mgr[n].m = 41 => s.mgr[n].m = 41 /\ msg.kind # "ACTIVE"
               /\ msg.kind = "ABORT" => Dormant(y.mgr[n])
         /\ msg.kind \in {"OK", "DEL"} => Undisturbed(s, y, n)
<1> DEFINE y == Hears(s, n, msg)
           mgr == s.mgr[n]
<1>0. s \in Clients /\ AirOK(s) /\ n \in DOMAIN s.mgr /\ ManagerOK(mgr) /\ ManagerSent(s, n)
  BY DEF ManagerIs
<1>1. CASE msg.kind = "ACTIVE"
  BY <1>1, ActiveIs DEF Hears
<1>2. CASE msg.kind = "ABORT"
  BY <1>2, AbortIs DEF Hears
<1>3. CASE msg.kind = "EOS"
  <2>1. CASE mgr.ab = 81
    <3>1. y = Unsubscribed(s, n)
      BY <1>3, <2>1 DEF Hears, evtMpnEOS
    <3> QED
      BY <1>0, <1>3, <3>1, HandledByRemoving
  <2>2. CASE mgr.ab # 81
    <3>1. y = s
      BY <1>3, <2>2 DEF Hears, evtMpnEOS
    <3> QED
      BY <1>0, <1>3, <3>1, HandledByIgnoring
  <2> QED
    BY <2>1, <2>2
<1>4. CASE msg.kind = "OK" /\ mgr.app /\ mgr.id = msg.id
  <2>1. y = evtMPNOK(s, n)
    BY <1>4 DEF Hears
  <2> QED
    BY <1>4, <2>1, MPNOKIs
<1>5. CASE msg.kind = "DEL" /\ mpnSubId(mgr) = msg.id
  <2>1. y = evtMPNDEL(s, n)
    BY <1>5 DEF Hears
  <2> QED
    BY <1>5, <2>1, MPNDELIs
<1>6. CASE msg.kind \in {"ADD", "STATUS", "DELETE"} /\ mpnSubId(mgr) = msg.id
  <2>1. y = evtMpnUpdate(s, n, msg.kind)
    BY <1>6 DEF Hears
  <2> QED
    BY <1>6, <2>1, UpdateIs
<1>7. CASE /\ msg.kind \notin {"ACTIVE", "ABORT", "EOS"}
           /\ ~(msg.kind = "OK" /\ mgr.app /\ mgr.id = msg.id)
           /\ ~(msg.kind = "DEL" /\ mpnSubId(mgr) = msg.id)
           /\ ~(msg.kind \in {"ADD", "STATUS", "DELETE"} /\ mpnSubId(mgr) = msg.id)
  <2>1. y = s
    BY <1>7 DEF Hears
  <2> QED
    BY <1>0, <1>7, <2>1, HandledByIgnoring DEF Undisturbed
<1> QED
  BY <1>1, <1>2, <1>3, <1>4, <1>5, <1>6, <1>7

-----------------------------------------------------------------------------
(* All managers hear it, one after the other                               *)

(* What the managers hear and what it makes of manager n.                  *)
Fits(s, y, n, msg) ==
    /\ y.mgr[n].m = 41 => s.mgr[n].m = 41 /\ msg.kind # "ACTIVE"
    /\ msg.kind = "ABORT" => Dormant(y.mgr[n])
    /\ msg.kind \in {"OK", "DEL"} /\ Dormant(s.mgr[n]) => Dormant(y.mgr[n])

(* No manager sends anything before the device is active.                  *)
AllDormant(s) == \A n \in DOMAIN s.mgr : Dormant(s.mgr[n])

(* The first k managers have heard it.                                     *)
Told(s, y, msg, k) ==
    /\ ManagersOK(y) /\ SameDevice(s, y) /\ Untouched(s, y) /\ DOMAIN y.mgr \subseteq DOMAIN s.mgr
    /\ \A n \in DOMAIN s.mgr : PlaceIn(DOMAIN s.mgr, n) > k =>
          n \in DOMAIN y.mgr /\ y.mgr[n] = s.mgr[n]
    /\ \A n \in DOMAIN y.mgr : PlaceIn(DOMAIN s.mgr, n) <= k => Fits(s, y, n, msg)
    /\ \A kind \in Kinds : InAir(s, kind, None) => InAir(y, kind, None)
    /\ s.id # None \/ ~s.up => y.failed = s.failed
    /\ AllDormant(s) /\ msg.kind \in {"OK", "DEL"} => y.failed = s.failed

LEMMA ManagersAre ==
  ASSUME NEW s, ManagersOK(s)
  PROVE  /\ s \in Clients /\ DOMAIN s.mgr \subseteq Numbers /\ DOMAIN s.mgr \in SUBSET Nat
         /\ IsFiniteSet(DOMAIN s.mgr) /\ MaxManagers \in Nat
         /\ \A n \in DOMAIN s.mgr : ManagerIs(s, n)
<1>1. s \in Clients /\ AirOK(s)
  BY DEF ManagersOK
<1>2. DOMAIN s.mgr \subseteq Numbers /\ s.mgr \in [DOMAIN s.mgr -> Managers]
  BY <1>1, TableIs DEF Clients
<1>3. MaxManagers \in Nat /\ IsFiniteSet(Numbers)
  BY MpnAssumption, FS_Interval DEF Numbers
<1>4. DOMAIN s.mgr \in SUBSET Nat /\ IsFiniteSet(DOMAIN s.mgr)
  BY <1>2, <1>3, FS_Subset DEF Numbers
<1>5. ASSUME NEW n \in DOMAIN s.mgr
      PROVE  ManagerIs(s, n)
  BY <1>1, <1>2 DEF ManagersOK, ManagerIs
<1> QED
  BY <1>1, <1>2, <1>3, <1>4, <1>5

(* What a manager does leaves the others as they should be.                *)
LEMMA HandledKeeps ==
  ASSUME NEW x \in Clients, NEW y, NEW n \in DOMAIN x.mgr, Handled(x, y, n),
         \A k \in DOMAIN x.mgr \ {n} : ManagerOK(x.mgr[k]) /\ ManagerSent(x, k)
  PROVE  ManagersOK(y)
<1>1. /\ y \in Clients /\ AirOK(y) /\ SameDevice(x, y)
      /\ DOMAIN y.mgr \cup {n} = DOMAIN x.mgr
      /\ \A k \in DOMAIN y.mgr \ {n} : y.mgr[k] = x.mgr[k]
      /\ \A kind \in Kinds, k \in (0..MaxManagers) \ {n} : InAir(x, kind, k) => InAir(y, kind, k)
  BY DEF Handled, OnlyManager
<1>2. DOMAIN x.mgr \subseteq 0..MaxManagers
  BY TableIs, MpnAssumption DEF Numbers, Clients
<1>3. ASSUME NEW k \in DOMAIN y.mgr
      PROVE  ManagerOK(y.mgr[k]) /\ ManagerSent(y, k)
  <2>1. CASE k = n
    BY <2>1 DEF Handled
  <2>2. CASE k # n
    <3>1. k \in DOMAIN x.mgr \ {n} /\ y.mgr[k] = x.mgr[k] /\ y.up = x.up
      BY <1>1, <2>2 DEF SameDevice
    <3>2. ManagerOK(x.mgr[k]) /\ ManagerSent(x, k)
      BY <3>1
    <3>3. KindOf(x.mgr[k]) \in Kinds /\ k \in (0..MaxManagers) \ {n}
      BY <1>2, <2>2, <3>1 DEF KindOf, Kinds
    <3> QED
      BY <1>1, <3>1, <3>2, <3>3 DEF ManagerSent
  <2> QED
    BY <2>1, <2>2
<1> QED
  BY <1>1, <1>3 DEF ManagersOK

(* One more manager hears it.                                              *)
LEMMA ToldStep ==
  ASSUME NEW s, ManagersOK(s), NEW msg,
         NEW k \in 1..Cardinality(DOMAIN s.mgr), NEW x, Told(s, x, msg, k - 1)
  PROVE  Told(s, Hears(x, Nth(DOMAIN s.mgr, k), msg), msg, k)
<1> DEFINE D == DOMAIN s.mgr
           n == Nth(D, k)
           y == Hears(x, n, msg)
           P(j) == PlaceIn(D, j)
<1>1. D \in SUBSET Nat /\ IsFiniteSet(D) /\ D \subseteq Numbers /\ MaxManagers \in Nat
  BY ManagersAre
<1>2. n \in D /\ P(n) = k /\ Cardinality(D) \in Nat
  BY <1>1, NthIs
<1>3. \A j \in D : P(j) \in 1..Cardinality(D) /\ Nth(D, P(j)) = j
  BY <1>1, NthIs
<1>4. \A j \in D : P(j) = k => j = n
  BY <1>3
<1> HIDE DEF n, P, D
<1>5. /\ ManagersOK(x) /\ SameDevice(s, x) /\ Untouched(s, x) /\ DOMAIN x.mgr \subseteq D
      /\ \A j \in D : P(j) > k - 1 => j \in DOMAIN x.mgr /\ x.mgr[j] = s.mgr[j]
      /\ \A j \in DOMAIN x.mgr : P(j) <= k - 1 => Fits(s, x, j, msg)
      /\ \A kind \in Kinds : InAir(s, kind, None) => InAir(x, kind, None)
      /\ s.id # None \/ ~s.up => x.failed = s.failed
      /\ AllDormant(s) /\ msg.kind \in {"OK", "DEL"} => x.failed = s.failed
  BY DEF Told, D, P
<1>6. n \in DOMAIN x.mgr /\ x.mgr[n] = s.mgr[n]
  BY <1>2, <1>5
<1>7. ManagerIs(x, n)
  BY <1>5, <1>6, ManagersAre
<1>8. /\ Handled(x, y, n)
      /\ n \in DOMAIN y.mgr =>
            /\ y.mgr[n].m = 41 => x.mgr[n].m = 41 /\ msg.kind # "ACTIVE"
            /\ msg.kind = "ABORT" => Dormant(y.mgr[n])
      /\ msg.kind \in {"OK", "DEL"} => Undisturbed(x, y, n)
  BY <1>7, HearsIs
<1> HIDE DEF y
<1>9. ManagersOK(y)
  BY <1>5, <1>6, <1>8, HandledKeeps DEF ManagersOK
<1>10. /\ SameDevice(x, y) /\ Untouched(x, y) /\ DOMAIN y.mgr \cup {n} = DOMAIN x.mgr
       /\ \A j \in DOMAIN y.mgr \ {n} : y.mgr[j] = x.mgr[j]
       /\ \A kind \in Kinds, j \in (0..MaxManagers) \ {n} : InAir(x, kind, j) => InAir(y, kind, j)
       /\ x.id # None \/ ~x.up => y.failed = x.failed
  BY <1>8 DEF Handled, OnlyManager
<1>11. SameDevice(s, y)
  BY <1>5, <1>10, SameDeviceTransitive
<1>12. \A j \in D : P(j) > k => j \in DOMAIN y.mgr /\ y.mgr[j] = s.mgr[j]
  BY <1>2, <1>3, <1>5, <1>10
<1>13. ASSUME NEW j \in DOMAIN y.mgr, P(j) <= k
       PROVE  Fits(s, y, j, msg)
  <2>1. CASE j = n
    BY <1>6, <1>8, <2>1 DEF Fits, Undisturbed
  <2>2. CASE j # n
    <3>1. j \in D /\ j \in DOMAIN x.mgr /\ y.mgr[j] = x.mgr[j]
      BY <1>5, <1>10, <2>2
    <3>2. P(j) <= k - 1
      BY <1>3, <1>4, <1>13, <2>2, <3>1
    <3> QED
      BY <1>5, <3>1, <3>2 DEF Fits
  <2> QED
    BY <2>1, <2>2
<1>14. ASSUME NEW kind \in Kinds, InAir(s, kind, None)
       PROVE  InAir(y, kind, None)
  <2>1. None \in (0..MaxManagers) \ {n}
    BY <1>1, <1>2 DEF None, Numbers
  <2> QED
    BY <1>5, <1>10, <1>14, <2>1
<1>15. s.id # None \/ ~s.up => y.failed = s.failed
  BY <1>5, <1>10 DEF SameDevice
<1>16. AllDormant(s) /\ msg.kind \in {"OK", "DEL"} => y.failed = s.failed
  BY <1>2, <1>5, <1>6, <1>8 DEF AllDormant, Undisturbed, D
<1>17. Untouched(s, y)
  BY <1>5, <1>10, UntouchedTransitive
<1>18. Told(s, y, msg, k)
  BY <1>5, <1>9, <1>10, <1>11, <1>12, <1>13, <1>14, <1>15, <1>16, <1>17 DEF Told, D, P
<1> QED
  BY <1>18 DEF y, n, D

(* States, each of which follows from the one before.                      *)
LEMMA LoopTold ==
  ASSUME NEW s, ManagersOK(s), NEW msg, NEW f,
         f[0] = s,
         \A k \in 1..Cardinality(DOMAIN s.mgr) :
            Told(s, f[k - 1], msg, k - 1) => f[k] = Hears(f[k - 1], Nth(DOMAIN s.mgr, k), msg)
  PROVE  \A k \in 0..Cardinality(DOMAIN s.mgr) : Told(s, f[k], msg, k)
<1> DEFINE D == DOMAIN s.mgr
           N == Cardinality(D)
           Bad == {k \in 0..N : ~Told(s, f[k], msg, k)}
<1>1. D \in SUBSET Nat /\ IsFiniteSet(D)
  BY ManagersAre
<1>2. N \in Nat /\ \A n \in D : PlaceIn(D, n) \in 1..N
  BY <1>1, NthIs
<1>3. Told(s, s, msg, 0)
  BY <1>2, UntouchedSame DEF Told, SameDevice
<1> SUFFICES ASSUME Bad # {} PROVE FALSE
  OBVIOUS
<1> DEFINE m == Nth(Bad, 1)
<1> HIDE DEF D, N
<1>4. Bad \in SUBSET Nat /\ IsFiniteSet(Bad)
  <2>1. IsFiniteSet(0..N) /\ Bad \in SUBSET (0..N)
    <3>1. IsFiniteSet(0..N)
      BY <1>2, FS_Interval
    <3> QED
      BY <3>1
  <2>2. 0..N \subseteq Nat
    BY <1>2
  <2> QED
    BY <2>1, <2>2, FS_Subset
<1>5. m \in Bad /\ \A h \in Bad : m <= h
  BY <1>4, NthFirst
<1> HIDE DEF m
<1>6. m # 0
  BY <1>3, <1>5
<1>7. m \in 1..N /\ m - 1 \in 0..N /\ m - 1 \notin Bad
  BY <1>2, <1>5, <1>6
<1>8. Told(s, f[m - 1], msg, m - 1)
  BY <1>7
<1>9. f[m] = Hears(f[m - 1], Nth(D, m), msg)
  BY <1>7, <1>8 DEF D, N
<1>10. Told(s, f[m], msg, m)
  BY <1>7, <1>8, <1>9, ToldStep DEF D, N
<1> QED
  BY <1>5, <1>10

(* EachManager is the state after the last manager has heard.              *)
LEMMA EachManagerIs ==
  ASSUME NEW s, ManagersOK(s), NEW msg
  PROVE  Told(s, EachManager(s, msg), msg, Cardinality(DOMAIN s.mgr))
<1> DEFINE D == DOMAIN s.mgr
           N == Cardinality(D)
           ns == InOrder(D)
           H(x, k) == Hears(x, Nth(D, k), msg)
           G == [k \in 1..N |-> [x \in Clients |-> IF H(x, k) \in Clients THEN H(x, k) ELSE x]]
           Body(f) == [k \in 0..Len(ns) |-> IF k = 0 THEN s ELSE Hears(f[k - 1], ns[k], msg)]
           told == CHOOSE f : f = Body(f)
<1>1. D \in SUBSET Nat /\ IsFiniteSet(D) /\ s \in Clients
  BY ManagersAre
<1>2. N \in Nat
  BY <1>1, NthIs
<1>3. Len(ns) = N /\ \A k \in 1..N : ns[k] = Nth(D, k)
  BY <1>2 DEF InOrder
<1>4. EachManager(s, msg) = told[Len(ns)]
  BY DEF EachManager
<1> HIDE DEF D, N, ns
<1>5. G \in [1..N -> [Clients -> Clients]]
  OBVIOUS
<1> HIDE DEF G
<1>6. PICK f \in [0..N -> Clients] : f[0] = s /\ \A k \in 1..N : f[k] = G[k][f[k - 1]]
  <2>1. s \in Clients /\ N \in Nat /\ G \in [1..N -> [Clients -> Clients]]
    BY <1>1, <1>2, <1>5
  <2>2. \E f \in [0..N -> Clients] : f[0] = s /\ \A k \in 1..N : f[k] = G[k][f[k - 1]]
    <3>1. Loops(N, Clients, s, G) # {}
      BY ONLY <2>1, LoopExists
    <3> QED
      BY ONLY <3>1 DEF Loops
  <2> QED
    BY <2>2
<1> USE DEF G
<1>7. ASSUME NEW k \in 1..N, Told(s, f[k - 1], msg, k - 1)
      PROVE  f[k] = H(f[k - 1], k)
  <2>1. Told(s, H(f[k - 1], k), msg, k)
    BY <1>7, ToldStep DEF D, N
  <2>2. H(f[k - 1], k) \in Clients
    BY <2>1 DEF Told, ManagersOK
  <2>3. f[k - 1] \in Clients
    BY <1>2, <1>6
  <2> QED
    BY <1>6, <2>2, <2>3
<1>8. \A k \in 0..N : Told(s, f[k], msg, k)
  BY <1>6, <1>7, LoopTold DEF D, N
<1>9. f = Body(f)
  <2>1. ASSUME NEW k \in 1..N
        PROVE  f[k] = Hears(f[k - 1], ns[k], msg)
    <3>1. Told(s, f[k - 1], msg, k - 1)
      BY <1>2, <1>8
    <3> QED
      BY <1>3, <1>7, <3>1
  <2>2. \A k \in 0..N : k = 0 \/ k \in 1..N
    BY <1>2
  <2>3. \A k \in 0..N : f[k] = IF k = 0 THEN s ELSE Hears(f[k - 1], ns[k], msg)
    BY <1>6, <2>1, <2>2
  <2> QED
    BY <1>3, <1>6, <2>3
<1>10. told = Body(told)
  BY <1>9
<1> HIDE DEF told
<1>11. /\ told[0] = s
       /\ \A k \in 1..N : told[k] = H(told[k - 1], k)
  <2>1. \A k \in 0..N : told[k] = IF k = 0 THEN s ELSE Hears(told[k - 1], ns[k], msg)
    BY <1>3, <1>10
  <2> QED
    BY <1>2, <1>3, <2>1
<1>12. \A k \in 0..N : Told(s, told[k], msg, k)
  BY <1>11, LoopTold DEF D, N
<1> QED
  BY <1>2, <1>3, <1>4, <1>12 DEF D, N, told

(* After EachManager all managers are as they should be, and dormant ones  *)
(* stay so.                                                                *)
LEMMA AllHear ==
  ASSUME NEW s, ManagersOK(s), NEW msg
  PROVE  LET y == EachManager(s, msg) IN
         /\ ManagersOK(y) /\ SameDevice(s, y) /\ Untouched(s, y)
         /\ \A n \in DOMAIN y.mgr : n \in DOMAIN s.mgr /\ Fits(s, y, n, msg)
         /\ \A kind \in Kinds : InAir(s, kind, None) => InAir(y, kind, None)
         /\ s.id # None \/ ~s.up => y.failed = s.failed
         /\ AllDormant(s) /\ msg.kind \in {"OK", "DEL"} => y.failed = s.failed
<1> DEFINE y == EachManager(s, msg)
           N == Cardinality(DOMAIN s.mgr)
<1>1. Told(s, y, msg, N)
  BY EachManagerIs
<1>2. \A n \in DOMAIN s.mgr : PlaceIn(DOMAIN s.mgr, n) \in 1..N
  BY ManagersAre, NthIs
<1>3. N \in Nat
  BY ManagersAre, NthIs
<1> HIDE DEF y, N
<1>4. \A n \in DOMAIN s.mgr : PlaceIn(DOMAIN s.mgr, n) <= N
  BY <1>2, <1>3
<1>5. Told(s, y, msg, N) => DOMAIN y.mgr \subseteq DOMAIN s.mgr
  BY DEF Told
<1> QED
  BY <1>1, <1>4, <1>5 DEF Told, y

-----------------------------------------------------------------------------
(* Replies to the requests of a manager                                    *)

(* PartAnswered: the part is unchanged (0) or changed meanwhile (1).       *)
LEMMA AnsweredIs ==
  ASSUME NEW v \in Managers, ManagerOK(v), NEW ok \in BOOLEAN
  PROVE  LET w == PartAnswered(v, ok) IN
         /\ w \in Managers /\ w.m = v.m /\ w.ct = v.ct /\ w.uu = v.uu
         /\ \A part \in Parts : w.upd[part] \in {0, 1}
         /\ v.ct \notin {73, 74} => ManagerOK(w)
<1> DEFINE parts == {part \in Parts : v.upd[part] = 2}
           u == Cleared(v.upd, parts)
           after == IF ok THEN [v EXCEPT !.upd = u] ELSE ModificationError(v, parts)
           x == [part \in Parts |-> IF v.upd[part] = 3 THEN 1 ELSE u[part]]
           w == PartAnswered(v, ok)
<1>1. v.upd \in [Parts -> 0..3] /\ v.req \in [Parts -> Nat] /\ v.cur \in [Parts -> Nat]
  BY DEF Managers
<1>2. u \in [Parts -> 0..3] /\ \A part \in Parts : u[part] = IF v.upd[part] = 2 THEN 0 ELSE v.upd[part]
  BY <1>1 DEF Cleared, None
<1>3. /\ after \in Managers /\ after.m = v.m /\ after.ct = v.ct /\ after.uu = v.uu
      /\ after.upd = u
  <2>1. CASE ok
    <3> DEFINE q == [v EXCEPT !.upd = u]
    <3> HIDE DEF u
    <3>1. q \in Managers /\ q.m = v.m /\ q.ct = v.ct /\ q.uu = v.uu /\ q.upd = u
      BY <1>2 DEF Managers
    <3> QED
      BY <2>1, <3>1
  <2>2. CASE ~ok
    <3> DEFINE r == Cleared(v.req, parts)
               k == Cleared(v.cur, parts)
               q == [v EXCEPT !.upd = u, !.req = r, !.cur = k]
    <3>1. r \in [Parts -> Nat] /\ k \in [Parts -> Nat]
      BY <1>1 DEF Cleared, None
    <3>2. after = q
      BY <2>2 DEF ModificationError
    <3> HIDE DEF u, r, k, after
    <3>3. q \in Managers /\ q.m = v.m /\ q.ct = v.ct /\ q.uu = v.uu /\ q.upd = u
      BY <1>2, <3>1 DEF Managers
    <3> QED
      BY <3>2, <3>3
  <2> QED
    BY <2>1, <2>2
<1>4. w = [after EXCEPT !.upd = [part \in Parts |-> IF v.upd[part] = 3 THEN 1 ELSE after.upd[part]]]
  BY DEF PartAnswered
<1>5. x \in [Parts -> 0..3] /\ \A part \in Parts : x[part] \in {0, 1} /\ (v.upd[part] \in {0, 1} => x[part] = v.upd[part])
  BY <1>1, <1>2
<1> HIDE DEF u, after, w
<1>6. w = [after EXCEPT !.upd = x]
  BY <1>3, <1>4
<1> HIDE DEF x
<1>7. w \in Managers /\ w.m = v.m /\ w.ct = v.ct /\ w.uu = v.uu /\ w.upd = x
  BY <1>3, <1>5, <1>6 DEF Managers
<1>8. ASSUME v.ct \notin {73, 74}
      PROVE  ManagerOK(w)
  <2>1. \A part \in Parts : v.upd[part] \in {0, 1}
    BY <1>1, <1>8 DEF ManagerOK
  <2>2. \A part \in Parts : w.upd[part] = v.upd[part]
    BY <1>5, <1>7, <2>1
  <2> QED
    BY <1>7, <2>2 DEF ManagerOK
<1> QED
  BY <1>5, <1>7, <1>8 DEF w

(* Reply r was taken from the air: that to the current request of a        *)
(* manager, or to another one.                                             *)
Taken(s, r) ==
    /\ s \in Clients /\ AirOK(s) /\ r \in Replies /\ r.n \in DOMAIN s.mgr
    /\ s.mgr[r.n] \in Managers /\ ManagerOK(s.mgr[r.n])
    /\ s.up /\ isPending(s.mgr[r.n]) /\ KindOf(s.mgr[r.n]) # r.kind =>
          InAir(s, KindOf(s.mgr[r.n]), r.n)

(* A pn_reconf was answered: the next change is sent, or none is left.     *)
LEMMA ConfiguredIs ==
  ASSUME NEW s, NEW r, Taken(s, r), r.kind = "configure", NEW ok \in BOOLEAN
  PROVE  LET y == Configured(s, r.n, ok) IN
         /\ Handled(s, y, r.n) /\ Undisturbed(s, y, r.n)
         /\ r.n \in DOMAIN y.mgr /\ y.mgr[r.n].m = s.mgr[r.n].m
<1> DEFINE n == r.n
           mgr == s.mgr[n]
           w == PartAnswered(mgr, ok)
           y == Configured(s, n, ok)
<1>1. s \in Clients /\ AirOK(s) /\ n \in DOMAIN s.mgr /\ mgr \in Managers /\ ManagerOK(mgr)
      /\ (s.up /\ isPending(mgr) /\ KindOf(mgr) # "configure" => InAir(s, KindOf(mgr), n))
  BY DEF Taken
<1>2. /\ w \in Managers /\ w.m = mgr.m /\ w.ct = mgr.ct /\ w.uu = mgr.uu
      /\ \A part \in Parts : w.upd[part] \in {0, 1}
      /\ mgr.ct \notin {73, 74} => ManagerOK(w)
  BY <1>1, AnsweredIs
<1>3. y = IF w.ct \in {73, 74} THEN evtCheck(s, n, w) ELSE Becomes(s, n, w)
  BY DEF Configured
<1> HIDE DEF w, y, n
<1>4. CASE mgr.ct \in {73, 74}
  <2>1. mgr.m = 44
    BY <1>1, <1>4 DEF ManagerOK, None
  <2>2. Confirmed(w)
    BY <1>2, <2>1 DEF Confirmed
  <2>3. y = evtCheck(s, n, w)
    BY <1>2, <1>3, <1>4
  <2>4. Handled(s, y, n) /\ n \in DOMAIN y.mgr /\ y.mgr[n].m = 44
    BY <1>1, <2>2, <2>3, CheckIs
  <2> QED
    BY <1>4, <2>1, <2>4 DEF Undisturbed, Dormant, y, n
<1>5. CASE mgr.ct \notin {73, 74}
  <2>1. y = Becomes(s, n, w)
    BY <1>2, <1>3, <1>5
  <2>2. s.up /\ isPending(w) => InAir(s, KindOf(w), n)
    BY <1>1, <1>2, <1>5 DEF isPending, KindOf
  <2>3. Handled(s, y, n) /\ n \in DOMAIN y.mgr /\ y.mgr[n] = w /\ y.failed = s.failed
    BY <1>1, <1>2, <1>5, <2>1, <2>2, HandledByBecoming
  <2> QED
    BY <1>2, <2>3 DEF Undisturbed, Dormant, y, n
<1> QED
  BY <1>4, <1>5

(* Nothing is done about a reply that was not awaited.                     *)
LEMMA IgnoredIs ==
  ASSUME NEW s, NEW r, Taken(s, r),
         isPending(s.mgr[r.n]) => KindOf(s.mgr[r.n]) # r.kind
  PROVE  Handled(s, s, r.n) /\ Undisturbed(s, s, r.n)
<1>1. ManagerSent(s, r.n)
  BY DEF Taken, ManagerSent
<1> QED
  BY <1>1, HandledByIgnoring DEF Taken, Undisturbed

(* evtREQOK of a manager.                                                  *)
LEMMA REQOKIs ==
  ASSUME NEW s, NEW r, Taken(s, r)
  PROVE  LET y == ManagerREQOK(s, r) IN
         /\ Handled(s, y, r.n) /\ Undisturbed(s, y, r.n)
         /\ r.n \in DOMAIN y.mgr => (y.mgr[r.n].m = 41 => s.mgr[r.n].m = 41)
<1> DEFINE n == r.n
           mgr == s.mgr[n]
           y == ManagerREQOK(s, r)
<1>1. s \in Clients /\ AirOK(s) /\ n \in DOMAIN s.mgr /\ mgr \in Managers /\ ManagerOK(mgr)
  BY DEF Taken
<1>2. CASE r.kind = "activate" /\ mgr.m = 42
  <2> DEFINE v == [mgr EXCEPT !.m = 43]
  <2>1. y = Becomes(s, n, v)
    BY <1>2 DEF ManagerREQOK
  <2>2. v \in Managers /\ v.m = 43 /\ v.ct = mgr.ct /\ v.upd = mgr.upd
    BY <1>1 DEF Managers
  <2> HIDE DEF v
  <2>3. ManagerOK(v) /\ ~isPending(v)
    BY <1>1, <1>2, <2>2 DEF ManagerOK, isPending, None
  <2>4. Handled(s, y, n) /\ n \in DOMAIN y.mgr /\ y.mgr[n] = v /\ y.failed = s.failed
    BY <1>1, <2>1, <2>2, <2>3, HandledByBecoming
  <2> QED
    BY <1>2, <2>2, <2>4 DEF Undisturbed, Dormant
<1>3. CASE r.kind = "deactivate" /\ mgr.ct = 72
  <2>1. y = Unsubscribed(s, n)
    BY <1>3 DEF ManagerREQOK
  <2> QED
    BY <1>1, <2>1, HandledByRemoving DEF Undisturbed
<1>4. CASE r.kind = "configure"
  <2>1. y = Configured(s, n, TRUE)
    BY <1>4 DEF ManagerREQOK
  <2> QED
    BY <1>4, <2>1, ConfiguredIs
<1>5. CASE ~(r.kind = "activate" /\ mgr.m = 42) /\ ~(r.kind = "deactivate" /\ mgr.ct = 72)
           /\ r.kind # "configure"
  <2>1. y = s
    BY <1>5 DEF ManagerREQOK
  <2>2. isPending(mgr) => KindOf(mgr) # r.kind
    BY <1>5 DEF isPending, KindOf
  <2> QED
    BY <2>1, <2>2, IgnoredIs
<1> QED
  BY <1>2, <1>3, <1>4, <1>5

(* evtREQERR of a manager.                                                 *)
LEMMA REQERRIs ==
  ASSUME NEW s, NEW r, Taken(s, r)
  PROVE  LET y == ManagerREQERR(s, r) IN
         /\ Handled(s, y, r.n) /\ Undisturbed(s, y, r.n)
         /\ r.n \in DOMAIN y.mgr => (y.mgr[r.n].m = 41 => s.mgr[r.n].m = 41)
<1> DEFINE n == r.n
           mgr == s.mgr[n]
           y == ManagerREQERR(s, r)
           x == IF mgr.uu = 11 THEN 12 ELSE mgr.uu
           v == UnsubscribeFailed(mgr)
<1>1. s \in Clients /\ AirOK(s) /\ n \in DOMAIN s.mgr /\ mgr \in Managers /\ ManagerOK(mgr)
  BY DEF Taken
<1>2. v \in Managers /\ v.m = mgr.m /\ v.ct = mgr.ct /\ v.upd = mgr.upd /\ v.uu # 11
  <2>1. v = [mgr EXCEPT !.uu = x] /\ x \in {10, 12}
    BY <1>1 DEF UnsubscribeFailed, Managers
  <2> HIDE DEF x, v
  <2> QED
    BY <1>1, <2>1 DEF Managers
<1> HIDE DEF v
<1>3. CASE r.kind = "activate" /\ mgr.m = 42
  <2>1. y = finalize(s, n)
    BY <1>3 DEF ManagerREQERR
  <2> QED
    BY <1>1, <2>1, HandledByRemoving DEF Undisturbed
<1>4. CASE r.kind = "deactivate" /\ mgr.ct = 72
  <2>1. y = evtCheck(s, n, v)
    BY <1>4 DEF ManagerREQERR, v
  <2>2. mgr.m = 44 /\ \A part \in Parts : mgr.upd[part] \in {0, 1}
    BY <1>1, <1>4 DEF ManagerOK, Managers, None
  <2>3. Confirmed(v)
    BY <1>2, <2>2 DEF Confirmed
  <2>4. Handled(s, y, n) /\ n \in DOMAIN y.mgr /\ y.mgr[n].m = 44
    BY <1>1, <2>1, <2>3, CheckIs
  <2> QED
    BY <1>4, <2>2, <2>4 DEF Undisturbed, Dormant
<1>5. CASE r.kind = "deactivate" /\ mgr.ct # 72
  <2>1. y = Becomes(s, n, v)
    BY <1>5 DEF ManagerREQERR, v
  <2>2. ManagerOK(v)
    BY <1>1, <1>2 DEF ManagerOK
  <2>3. s.up /\ isPending(v) => InAir(s, KindOf(v), n)
    BY <1>2, <1>5 DEF isPending, KindOf, Taken
  <2>4. Handled(s, y, n) /\ n \in DOMAIN y.mgr /\ y.mgr[n] = v /\ y.failed = s.failed
    BY <1>1, <1>2, <2>1, <2>2, <2>3, HandledByBecoming
  <2> QED
    BY <1>2, <2>4 DEF Undisturbed, Dormant
<1>6. CASE r.kind = "configure"
  <2>1. y = Configured(s, n, FALSE)
    BY <1>6 DEF ManagerREQERR
  <2> QED
    BY <1>6, <2>1, ConfiguredIs
<1>7. CASE ~(r.kind = "activate" /\ mgr.m = 42) /\ r.kind # "deactivate" /\ r.kind # "configure"
  <2>1. y = s
    BY <1>7 DEF ManagerREQERR
  <2>2. isPending(mgr) => KindOf(mgr) # r.kind
    BY <1>7 DEF isPending, KindOf
  <2> QED
    BY <2>1, <2>2, IgnoredIs
<1> QED
  BY <1>3, <1>4, <1>5, <1>6, <1>7

-----------------------------------------------------------------------------
(* The device                                                              *)

(* The registration of a device (m, tk): a pending one is in the air, and  *)
(* with nothing to do there is no candidate.                               *)
RegisterAir(s) == s.up /\ isPendingRegister(s) => InAir(s, "register", None)
RegisterState(s) ==
    /\ s.m \in {400, 401, 403, 404, 405, 406, 407}
    /\ IF s.m = 405 THEN s.tk \in {451, 453, 454} /\ s.id # None ELSE s.tk = None
    /\ s.tk = 451 => s.candidates = <<>>
RegisterOK(s) == RegisterState(s) /\ RegisterAir(s)

(* The requests of unsubscription by status (ft).                          *)
FilterState(s) ==
    /\ IF s.m = 405 THEN s.ft \in {431, 432} ELSE s.ft = None
    /\ s.ft = 431 => s.filters = 0
    /\ s.ft = 432 => s.filters # 0
FilterOK(s) == FilterState(s) /\ (s.up /\ s.ft = 432 => InAir(s, "filter", None))

(* The reset of the badge (bg).                                            *)
BadgeState(s) ==
    /\ IF s.m = 405 THEN s.bg \in {441, 442} ELSE s.bg = None
    /\ s.bg = 441 => ~s.badge
BadgeOK(s) == BadgeState(s) /\ (s.up /\ s.bg = 442 => InAir(s, "badge", None))

ItemOK(s) == s.m # 405 => s.sbs = None

(* The four regions of the device.                                         *)
DeviceOK(s) == RegisterOK(s) /\ FilterOK(s) /\ BadgeOK(s) /\ ItemOK(s)

(* No manager changes and no request is lost.                              *)
DeviceStep(x, y) ==
    /\ y \in Clients /\ AirOK(y) /\ y.mgr = x.mgr /\ y.up = x.up
    /\ \A kind, n : InAir(x, kind, n) => InAir(y, kind, n)

LEMMA DeviceStepQuiet ==
  ASSUME NEW x, NEW y \in Clients, AirOK(x), y.mgr = x.mgr, y.up = x.up, y.out = x.out,
         y.replies = x.replies
  PROVE  DeviceStep(x, y)
<1>1. \A kind, n : InAir(y, kind, n) <=> InAir(x, kind, n)
  BY InAirSame
<1> QED
  BY <1>1 DEF DeviceStep, AirOK

LEMMA DeviceStepTransitive ==
  ASSUME NEW x, NEW y, NEW z, DeviceStep(x, y), DeviceStep(y, z)
  PROVE  DeviceStep(x, z)
  BY DEF DeviceStep

(* Managers do not notice.                                                 *)
LEMMA DeviceStepKeeps ==
  ASSUME NEW x, NEW y, ManagersOK(x), DeviceStep(x, y)
  PROVE  ManagersOK(y)
  BY DEF ManagersOK, DeviceStep, ManagerSent

DeviceKinds == {"register", "filter", "badge"}

(* The device sends a request of its own.                                  *)
LEMMA DeviceSends ==
  ASSUME NEW s \in Clients, AirOK(s), NEW kind \in DeviceKinds
  PROVE  LET y == evtSendControl(s, Request(s, kind, None)) IN
         /\ DeviceStep(s, y) /\ SameDevice(s, y)
         /\ s.up => InAir(y, kind, None)
         /\ kind = "register" \/ s.id # None \/ ~s.up => y.failed = s.failed
         /\ kind # "register" => Aside(s, y)
<1> DEFINE req == Request(s, kind, None)
           y == evtSendControl(s, req)
<1>1. kind \in Kinds /\ kind \notin ManagerKinds
  BY DEF DeviceKinds, Kinds, ManagerKinds
<1>2. req \in Requests /\ req.kind = kind /\ req.n = None /\ req.last
  BY <1>1, RequestIs
<1> HIDE DEF req
<1>3. /\ y \in Clients /\ SameDevice(s, y) /\ y.mgr = s.mgr
      /\ \A k, n : InAir(s, k, n) => InAir(y, k, n)
      /\ s.up => InAir(y, req.kind, req.n)
      /\ \A k, n : InAir(y, k, n) => InAir(s, k, n) \/ (req.kind = k /\ req.n = n)
      /\ req.kind = "register" \/ s.id # None \/ ~s.up => y.failed = s.failed
      /\ req.kind # "register" => Untouched(s, y)
  BY <1>2, ControlIs
<1> HIDE DEF y
<1>4. AirOK(y)
  BY <1>1, <1>2, <1>3 DEF AirOK
<1>5. kind # "register" => Aside(s, y)
  BY <1>2, <1>3, SameDeviceAside
<1> QED
  BY <1>2, <1>3, <1>4, <1>5 DEF DeviceStep, SameDevice, y, req

(* The regions of an active device but that of its registration.           *)
SameActive(x, y) ==
    /\ y.m = 405 /\ x.m = 405 /\ y.sbs = x.sbs /\ y.ft = x.ft /\ y.bg = x.bg
    /\ y.filters = x.filters /\ y.badge = x.badge /\ y.id = x.id
(* Without an active device no other region is there.                      *)
Inactive(s) == s.m # 405 /\ s.sbs = None /\ s.ft = None /\ s.bg = None

LEMMA ActiveKept ==
  ASSUME NEW x, NEW y, DeviceStep(x, y), SameActive(x, y) \/ Inactive(y),
         FilterOK(x), BadgeOK(x), ItemOK(x)
  PROVE  FilterOK(y) /\ BadgeOK(y) /\ ItemOK(y)
<1>1. CASE SameActive(x, y)
  BY <1>1 DEF SameActive, DeviceStep, FilterOK, FilterState, BadgeOK, BadgeState, ItemOK
<1>2. CASE Inactive(y)
  BY <1>2 DEF Inactive, FilterOK, FilterState, BadgeOK, BadgeState, ItemOK, None
<1> QED
  BY <1>1, <1>2

(* The next registration is sent, or there is none to send.                *)
LEMMA LeaveActiveIs ==
  ASSUME NEW s \in Clients, NEW m \in Nat
  PROVE  LET y == LeaveActive(s, m) IN
         /\ y \in Clients /\ y.m = m /\ y.tk = None /\ y.sbs = None /\ y.ft = None /\ y.bg = None
         /\ y.mgr = s.mgr /\ y.up = s.up /\ y.out = s.out /\ y.replies = s.replies
         /\ y.failed = s.failed /\ y.id = s.id /\ y.candidates = s.candidates
         /\ y.device = s.device
<1> DEFINE y == LeaveActive(s, m)
<1>1. NoItem \in SpecialItems /\ None \in Nat
  BY DEF NoItem, SpecialItems, None
<1>2. y = [s EXCEPT !.m = m, !.tk = None, !.sbs = None, !.ft = None, !.bg = None, !.item = NoItem]
  BY DEF LeaveActive
<1> HIDE DEF y
<1>3. y \in Clients
  BY <1>1, <1>2 DEF Clients
<1>4. /\ y.m = m /\ y.tk = None /\ y.sbs = None /\ y.ft = None /\ y.bg = None
      /\ y.mgr = s.mgr /\ y.up = s.up /\ y.out = s.out /\ y.replies = s.replies
      /\ y.failed = s.failed /\ y.id = s.id /\ y.candidates = s.candidates
      /\ y.device = s.device
  BY <1>2 DEF Clients
<1> QED
  BY <1>3, <1>4 DEF y

(* doResetMpnDevice: the other regions are left.                           *)
LEMMA ResetIs ==
  ASSUME NEW s \in Clients
  PROVE  LET y == doResetMpnDevice(s) IN
         /\ y \in Clients /\ y.m = 401 /\ y.tk = s.tk /\ y.sbs = s.sbs /\ y.ft = s.ft /\ y.bg = s.bg
         /\ y.mgr = s.mgr /\ y.up = s.up /\ y.out = s.out /\ y.replies = s.replies
         /\ y.failed = s.failed /\ y.candidates = s.candidates
<1> DEFINE m == 401
           zero == 0
           no == FALSE
           y == doResetMpnDevice(s)
<1>1. None \in Nat /\ m \in Nat /\ zero \in Nat /\ {} \in SUBSET Nat /\ no \in BOOLEAN
  BY DEF None
<1>2. y = [s EXCEPT !.m = m, !.id = None, !.token = None, !.snapshot = {}, !.filters = zero,
                    !.badge = no]
  BY DEF doResetMpnDevice
<1> HIDE DEF y, m, zero, no
<1>3. y \in Clients
  BY <1>1, <1>2 DEF Clients
<1>4. /\ y.m = m /\ y.tk = s.tk /\ y.sbs = s.sbs /\ y.ft = s.ft /\ y.bg = s.bg
      /\ y.mgr = s.mgr /\ y.up = s.up /\ y.out = s.out /\ y.replies = s.replies
      /\ y.failed = s.failed /\ y.candidates = s.candidates
  BY <1>2 DEF Clients
<1> QED
  BY <1>3, <1>4 DEF y, m

(* The device is given up.                                                 *)
LEMMA GiveUpIs ==
  ASSUME NEW s \in Clients, AirOK(s)
  PROVE  LET y == doResetMpnDevice(LeaveActive(s, 401)) IN
         DeviceStep(s, y) /\ RegisterOK(y) /\ Inactive(y) /\ y.m = 401 /\ y.failed = s.failed
<1> DEFINE x == LeaveActive(s, 401)
           y == doResetMpnDevice(x)
<1>1. /\ x \in Clients /\ x.m = 401 /\ x.tk = None /\ x.sbs = None /\ x.ft = None /\ x.bg = None
      /\ x.mgr = s.mgr /\ x.up = s.up /\ x.out = s.out /\ x.replies = s.replies
      /\ x.failed = s.failed
  BY LeaveActiveIs
<1> HIDE DEF x
<1>2. /\ y \in Clients /\ y.m = 401 /\ y.tk = x.tk /\ y.sbs = x.sbs /\ y.ft = x.ft /\ y.bg = x.bg
      /\ y.mgr = x.mgr /\ y.up = x.up /\ y.out = x.out /\ y.replies = x.replies
      /\ y.failed = x.failed
  BY <1>1, ResetIs
<1> HIDE DEF y
<1>3. DeviceStep(s, y)
  BY <1>1, <1>2, DeviceStepQuiet
<1> QED
  BY <1>1, <1>2, <1>3 DEF RegisterOK, RegisterState, RegisterAir, isPendingRegister, Inactive, None, x, y

(* Only the registration changes.                                          *)
Stays(x, y) ==
    /\ y.sbs = x.sbs /\ y.ft = x.ft /\ y.bg = x.bg /\ y.filters = x.filters /\ y.badge = x.badge
    /\ y.id = x.id /\ y.mgr = x.mgr /\ y.up = x.up /\ y.out = x.out /\ y.replies = x.replies
    /\ y.failed = x.failed

(* The next device of the application becomes the one to register.         *)
LEMMA NextDeviceIs ==
  ASSUME NEW s \in Clients, s.candidates # <<>>
  PROVE  LET y == doRegisterMpnDevice(s) IN
         /\ y \in Clients /\ Stays(s, y) /\ y.m = s.m /\ y.tk = s.tk
         /\ y.device = Head(s.candidates) /\ y.candidates = Tail(s.candidates)
<1> DEFINE a == Head(s.candidates)
           b == Tail(s.candidates)
           y == doRegisterMpnDevice(s)
<1>1. s.candidates \in Seq(Nat)
  BY DEF Clients
<1>2. a \in Nat /\ b \in Seq(Nat)
  BY <1>1
<1>3. y = [s EXCEPT !.device = a, !.candidates = b]
  BY DEF doRegisterMpnDevice
<1> HIDE DEF a, b, y
<1>4. y \in Clients
  BY <1>2, <1>3 DEF Clients
<1>5. Stays(s, y) /\ y.m = s.m /\ y.tk = s.tk /\ y.device = a /\ y.candidates = b
  BY <1>3 DEF Clients, Stays
<1> QED
  BY <1>4, <1>5 DEF y, a, b

LEMMA SetM ==
  ASSUME NEW s \in Clients, NEW v \in Nat
  PROVE  LET y == [s EXCEPT !.m = v] IN
         /\ y \in Clients /\ Stays(s, y) /\ y.m = v /\ y.tk = s.tk
         /\ y.candidates = s.candidates /\ y.device = s.device /\ y.token = s.token
<1>1. [s EXCEPT !.m = v] \in Clients
  BY DEF Clients
<1>2. LET y == [s EXCEPT !.m = v] IN
      /\ Stays(s, y) /\ y.m = v /\ y.tk = s.tk
      /\ y.candidates = s.candidates /\ y.device = s.device /\ y.token = s.token
  BY DEF Clients, Stays
<1> QED
  BY <1>1, <1>2

LEMMA SetTk ==
  ASSUME NEW s \in Clients, NEW v \in Nat
  PROVE  LET y == [s EXCEPT !.tk = v] IN
         /\ y \in Clients /\ Stays(s, y) /\ y.tk = v /\ y.m = s.m
         /\ y.candidates = s.candidates /\ y.device = s.device /\ y.token = s.token
<1>1. [s EXCEPT !.tk = v] \in Clients
  BY DEF Clients
<1>2. LET y == [s EXCEPT !.tk = v] IN
      /\ Stays(s, y) /\ y.tk = v /\ y.m = s.m
      /\ y.candidates = s.candidates /\ y.device = s.device /\ y.token = s.token
  BY DEF Clients, Stays
<1> QED
  BY <1>1, <1>2

LEMMA StaysStep ==
  ASSUME NEW x, NEW y \in Clients, AirOK(x), Stays(x, y)
  PROVE  DeviceStep(x, y)
  BY DeviceStepQuiet DEF Stays

(* A registration is sent: of a device that is not active, or of one that  *)
(* is.                                                                     *)
LEMMA RegisterIs ==
  ASSUME NEW s \in Clients, AirOK(s),
         \/ s.m \in {403, 406} /\ s.tk = None /\ Inactive(s)
         \/ s.m = 405 /\ s.tk = 453 /\ s.id # None
  PROVE  LET y == Register(s) IN
         /\ DeviceStep(s, y) /\ SameDevice(s, y) /\ RegisterOK(y) /\ y.failed = s.failed
<1> DEFINE y == Register(s)
<1>1. "register" \in DeviceKinds
  BY DEF DeviceKinds
<1>2. y = evtSendControl(s, Request(s, "register", None))
  BY DEF Register
<1> HIDE DEF y
<1>3. DeviceStep(s, y) /\ SameDevice(s, y) /\ (s.up => InAir(y, "register", None))
      /\ y.failed = s.failed
  BY <1>1, <1>2, DeviceSends
<1>4. RegisterOK(y)
  BY <1>3 DEF SameDevice, RegisterOK, RegisterState, RegisterAir, None
<1> QED
  BY <1>3, <1>4 DEF y

(* evtMpnCheckNext: another device is registered, or none.                 *)
LEMMA CheckNextIs ==
  ASSUME NEW s \in Clients, AirOK(s),
         \/ s.m \in {402, 408} /\ s.tk = None /\ Inactive(s)
         \/ s.m = 405 /\ s.tk = 452 /\ s.id # None
  PROVE  LET y == evtMpnCheckNext(s) IN
         /\ DeviceStep(s, y) /\ RegisterOK(y) /\ y.failed = s.failed
         /\ SameActive(s, y) \/ Inactive(y)
         /\ s.m = 405 /\ s.candidates # <<>> => SameActive(s, y)
         /\ s.m # 405 => y.m # 405
         /\ s.m = 405 /\ y.m # 405 => y.m = 401
<1> DEFINE y == evtMpnCheckNext(s)
           next == doRegisterMpnDevice(s)
<1>1. CASE s.m \in {402, 408} /\ s.tk = None /\ Inactive(s) /\ s.candidates = <<>>
  <2>1. y = doResetMpnDevice(s)
    BY <1>1 DEF evtMpnCheckNext, None
  <2> HIDE DEF y
  <2>2. /\ y \in Clients /\ y.m = 401 /\ y.tk = s.tk /\ y.sbs = s.sbs /\ y.ft = s.ft /\ y.bg = s.bg
        /\ y.mgr = s.mgr /\ y.up = s.up /\ y.out = s.out /\ y.replies = s.replies
        /\ y.failed = s.failed
    BY <2>1, ResetIs
  <2>3. DeviceStep(s, y)
    BY <2>2, DeviceStepQuiet
  <2> QED
    BY <1>1, <2>2, <2>3 DEF RegisterOK, RegisterState, RegisterAir, isPendingRegister, Inactive, None, y
<1>2. ASSUME NEW k \in {403, 406}, s.tk = None, Inactive(s), s.candidates # <<>>,
             y = Register([next EXCEPT !.m = k])
      PROVE  DeviceStep(s, y) /\ RegisterOK(y) /\ y.failed = s.failed /\ Inactive(y)
  <2> DEFINE x == [next EXCEPT !.m = k]
  <2>1. next \in Clients /\ Stays(s, next) /\ next.tk = s.tk
    BY <1>2, NextDeviceIs
  <2>2. k \in Nat
    OBVIOUS
  <2> HIDE DEF next
  <2>3. x \in Clients /\ Stays(next, x) /\ x.m = k /\ x.tk = next.tk
    BY <2>1, <2>2, SetM
  <2> HIDE DEF x
  <2>4. Stays(s, x)
    BY <2>1, <2>3 DEF Stays
  <2>5. DeviceStep(s, x)
    BY <2>3, <2>4, StaysStep
  <2>6. AirOK(x) /\ x.tk = None /\ Inactive(x)
    BY <1>2, <2>1, <2>3, <2>4, <2>5 DEF DeviceStep, Inactive, Stays
  <2>9. x.m \in {403, 406} /\ y = Register(x)
    BY <1>2, <2>3 DEF x
  <2> HIDE DEF y
  <2>7. DeviceStep(x, y) /\ SameDevice(x, y) /\ RegisterOK(y) /\ y.failed = x.failed
    BY <2>3, <2>6, <2>9, RegisterIs
  <2>8. DeviceStep(s, y)
    BY <2>5, <2>7, DeviceStepTransitive
  <2> QED
    BY <2>4, <2>6, <2>7, <2>8 DEF Stays, SameDevice, Inactive
<1>3. CASE s.m \in {402, 408} /\ s.tk = None /\ Inactive(s) /\ s.candidates # <<>>
  <2>1. CASE s.m = 402
    <3>1. y = Register([next EXCEPT !.m = 403])
      BY <1>3, <2>1 DEF evtMpnCheckNext, None
    <3> QED
      BY <1>2, <1>3, <3>1 DEF Inactive
  <2>2. CASE s.m = 408
    <3>1. y = Register([next EXCEPT !.m = 406])
      BY <1>3, <2>2 DEF evtMpnCheckNext, None
    <3> QED
      BY <1>2, <1>3, <3>1 DEF Inactive
  <2> QED
    BY <1>3, <2>1, <2>2
<1>4. CASE s.m = 405 /\ s.tk = 452 /\ s.id # None /\ s.candidates = <<>>
  <2>1. y = doResetMpnDevice(LeaveActive(s, 401))
    BY <1>4 DEF evtMpnCheckNext
  <2> QED
    BY <1>4, <2>1, GiveUpIs
<1>5. CASE s.m = 405 /\ s.tk = 452 /\ s.id # None /\ s.candidates # <<>>
  <2> DEFINE x == [next EXCEPT !.tk = 453]
             k == 453
  <2>1. next \in Clients /\ Stays(s, next) /\ next.m = s.m
    BY <1>5, NextDeviceIs
  <2>2. k \in Nat /\ x = [next EXCEPT !.tk = k] /\ y = Register(x)
    BY <1>5 DEF evtMpnCheckNext
  <2> HIDE DEF next, x, k
  <2>3. x \in Clients /\ Stays(next, x) /\ x.m = next.m /\ x.tk = k
    BY <2>1, <2>2, SetTk
  <2>4. Stays(s, x)
    BY <2>1, <2>3 DEF Stays
  <2>5. DeviceStep(s, x)
    BY <2>3, <2>4, StaysStep
  <2>6. AirOK(x) /\ x.m = 405 /\ x.tk = 453 /\ x.id # None
    BY <1>5, <2>1, <2>3, <2>4, <2>5 DEF DeviceStep, Stays, k
  <2> HIDE DEF y
  <2>7. DeviceStep(x, y) /\ SameDevice(x, y) /\ RegisterOK(y) /\ y.failed = x.failed
    <3>1. x \in Clients /\ y = Register(x)
      BY <2>2, <2>3
    <3> QED
      BY <2>6, <3>1, RegisterIs
  <2>8. DeviceStep(s, y)
    BY <2>5, <2>7, DeviceStepTransitive
  <2>9. SameActive(s, y)
    BY <1>5, <2>4, <2>6, <2>7 DEF Stays, SameDevice, SameActive
  <2> QED
    BY <1>5, <2>4, <2>7, <2>8, <2>9 DEF Stays, SameActive, y
<1> QED
  BY <1>1, <1>3, <1>4, <1>5 DEF Inactive

(* evtMpnCheckPending: a token that changed meanwhile is registered.       *)
LEMMA CheckPendingIs ==
  ASSUME NEW s \in Clients, AirOK(s), s.m = 405, s.tk = 450, s.id # None
  PROVE  LET y == evtMpnCheckPending(s) IN
         DeviceStep(s, y) /\ RegisterOK(y) /\ SameActive(s, y) /\ y.failed = s.failed
<1> DEFINE y == evtMpnCheckPending(s)
           k == IF s.candidates = <<>> THEN 451 ELSE 452
           x == [s EXCEPT !.tk = k]
<1>1. k \in Nat
  OBVIOUS
<1>2. y = IF s.candidates = <<>> THEN x ELSE evtMpnCheckNext(x)
  BY DEF evtMpnCheckPending
<1> HIDE DEF k, y
<1>3. x \in Clients /\ Stays(s, x) /\ x.m = s.m /\ x.tk = k /\ x.candidates = s.candidates
  BY <1>1, SetTk
<1> HIDE DEF x
<1>4. DeviceStep(s, x)
  BY <1>3, StaysStep
<1>5. SameActive(s, x)
  BY <1>3 DEF Stays, SameActive
<1>6. CASE s.candidates = <<>>
  <2>1. RegisterOK(x)
    BY <1>3, <1>6 DEF RegisterOK, RegisterState, RegisterAir, isPendingRegister, Stays, k
  <2> QED
    BY <1>2, <1>3, <1>4, <1>5, <1>6, <2>1 DEF Stays, y
<1>7. CASE s.candidates # <<>>
  <2>1. x.m = 405 /\ x.tk = 452 /\ x.id # None /\ x.candidates # <<>> /\ AirOK(x)
    BY <1>3, <1>4, <1>7 DEF Stays, DeviceStep, k
  <2>2. y = evtMpnCheckNext(x)
    BY <1>2, <1>7
  <2>3. DeviceStep(x, y) /\ RegisterOK(y) /\ y.failed = x.failed /\ SameActive(x, y)
    BY <1>3, <2>1, <2>2, CheckNextIs
  <2>4. DeviceStep(s, y)
    BY <1>4, <2>3, DeviceStepTransitive
  <2> QED
    BY <1>3, <1>5, <2>3, <2>4 DEF Stays, SameActive, y
<1> QED
  BY <1>6, <1>7

(* Another region of the device changes.                                   *)
Core(x, y) ==
    /\ DeviceStep(x, y) /\ y.m = x.m /\ y.tk = x.tk /\ y.candidates = x.candidates
    /\ y.id = x.id /\ y.sbs = x.sbs /\ y.failed = x.failed

LEMMA CoreKeeps ==
  ASSUME NEW x, NEW y, Core(x, y)
  PROVE  /\ RegisterOK(x) => RegisterOK(y)
         /\ FilterOK(x) /\ y.ft = x.ft /\ y.filters = x.filters => FilterOK(y)
         /\ BadgeOK(x) /\ y.bg = x.bg /\ y.badge = x.badge => BadgeOK(y)
         /\ ItemOK(x) => ItemOK(y)
<1>1. RegisterOK(x) => RegisterOK(y)
  BY DEF Core, DeviceStep, RegisterOK, RegisterState, RegisterAir, isPendingRegister
<1>2. FilterOK(x) /\ y.ft = x.ft /\ y.filters = x.filters => FilterOK(y)
  BY DEF Core, DeviceStep, FilterOK, FilterState
<1>3. BadgeOK(x) /\ y.bg = x.bg /\ y.badge = x.badge => BadgeOK(y)
  BY DEF Core, DeviceStep, BadgeOK, BadgeState
<1>4. ItemOK(x) => ItemOK(y)
  BY DEF Core, ItemOK
<1> QED
  BY <1>1, <1>2, <1>3, <1>4

(* evtMpnCheckFilter: the next unsubscription by status is sent.           *)
LEMMA CheckFilterIs ==
  ASSUME NEW s \in Clients, AirOK(s), s.m = 405, s.ft = 430, s.id # None
  PROVE  LET y == evtMpnCheckFilter(s) IN
         Core(s, y) /\ FilterOK(y) /\ y.bg = s.bg /\ y.badge = s.badge /\ Aside(s, y)
<1> DEFINE y == evtMpnCheckFilter(s)
           k == IF s.filters = 0 THEN 431 ELSE 432
           x == [s EXCEPT !.ft = k]
<1>1. k \in Nat /\ s.filters \in Nat
  BY DEF Clients
<1>2. y = IF s.filters = 0 THEN x ELSE evtSendControl(x, Request(x, "filter", None))
  BY <1>1 DEF evtMpnCheckFilter
<1> HIDE DEF k, y
<1>3. x \in Clients
  BY <1>1 DEF Clients
<1>4. /\ x.m = s.m /\ x.tk = s.tk /\ x.candidates = s.candidates /\ x.id = s.id /\ x.sbs = s.sbs
      /\ x.failed = s.failed /\ x.ft = k /\ x.filters = s.filters /\ x.bg = s.bg /\ x.badge = s.badge
      /\ x.mgr = s.mgr /\ x.up = s.up /\ x.out = s.out /\ x.replies = s.replies
      /\ x.token = s.token /\ x.device = s.device
  BY DEF Clients
<1> HIDE DEF x
<1>5. DeviceStep(s, x)
  BY <1>3, <1>4, DeviceStepQuiet
<1>8. Aside(s, x)
  BY <1>4, AsideSame
<1>6. CASE s.filters = 0
  BY <1>2, <1>4, <1>5, <1>6, <1>8 DEF Core, FilterOK, FilterState, k, y
<1>7. CASE s.filters # 0
  <2>1. y = evtSendControl(x, Request(x, "filter", None)) /\ "filter" \in DeviceKinds
    BY <1>2, <1>7 DEF DeviceKinds
  <2>2. AirOK(x) /\ x.id # None
    BY <1>4, <1>5 DEF DeviceStep
  <2>3. DeviceStep(x, y) /\ SameDevice(x, y) /\ (x.up => InAir(y, "filter", None))
        /\ y.failed = x.failed /\ Aside(x, y)
    BY <1>3, <2>1, <2>2, DeviceSends
  <2>4. DeviceStep(s, y)
    BY <1>5, <2>3, DeviceStepTransitive
  <2>5. Core(s, y) /\ y.bg = s.bg /\ y.badge = s.badge
    BY <1>4, <2>3, <2>4 DEF Core, SameDevice
  <2>6. FilterOK(y)
    BY <1>4, <1>7, <2>3 DEF FilterOK, FilterState, SameDevice, k
  <2>7. Aside(s, y)
    BY <1>8, <2>3, AsideTransitive
  <2> QED
    BY <2>5, <2>6, <2>7 DEF y
<1> QED
  BY <1>6, <1>7

(* evtMpnCheckReset: a reset asked for meanwhile is sent.                  *)
LEMMA CheckResetIs ==
  ASSUME NEW s \in Clients, AirOK(s), s.m = 405, s.bg = 440, s.id # None
  PROVE  LET y == evtMpnCheckReset(s) IN
         Core(s, y) /\ BadgeOK(y) /\ y.ft = s.ft /\ y.filters = s.filters /\ Aside(s, y)
<1> DEFINE y == evtMpnCheckReset(s)
           k == IF s.badge THEN 442 ELSE 441
           x == [s EXCEPT !.bg = k]
<1>1. k \in Nat
  OBVIOUS
<1>2. y = IF s.badge THEN evtSendControl(x, Request(x, "badge", None)) ELSE x
  BY DEF evtMpnCheckReset
<1> HIDE DEF k, y
<1>3. x \in Clients
  BY <1>1 DEF Clients
<1>4. /\ x.m = s.m /\ x.tk = s.tk /\ x.candidates = s.candidates /\ x.id = s.id /\ x.sbs = s.sbs
      /\ x.failed = s.failed /\ x.ft = s.ft /\ x.filters = s.filters /\ x.bg = k /\ x.badge = s.badge
      /\ x.mgr = s.mgr /\ x.up = s.up /\ x.out = s.out /\ x.replies = s.replies
      /\ x.token = s.token /\ x.device = s.device
  BY DEF Clients
<1> HIDE DEF x
<1>5. DeviceStep(s, x)
  BY <1>3, <1>4, DeviceStepQuiet
<1>8. Aside(s, x)
  BY <1>4, AsideSame
<1>6. CASE ~s.badge
  BY <1>2, <1>4, <1>5, <1>6, <1>8 DEF Core, BadgeOK, BadgeState, k, y
<1>7. CASE s.badge
  <2>1. y = evtSendControl(x, Request(x, "badge", None)) /\ "badge" \in DeviceKinds
    BY <1>2, <1>7 DEF DeviceKinds
  <2>2. AirOK(x) /\ x.id # None
    BY <1>4, <1>5 DEF DeviceStep
  <2>3. DeviceStep(x, y) /\ SameDevice(x, y) /\ (x.up => InAir(y, "badge", None))
        /\ y.failed = x.failed /\ Aside(x, y)
    BY <1>3, <2>1, <2>2, DeviceSends
  <2>4. DeviceStep(s, y)
    BY <1>5, <2>3, DeviceStepTransitive
  <2>5. Core(s, y) /\ y.ft = s.ft /\ y.filters = s.filters
    BY <1>4, <2>3, <2>4 DEF Core, SameDevice
  <2>6. BadgeOK(y)
    BY <1>4, <1>7, <2>3 DEF BadgeOK, BadgeState, SameDevice, k
  <2>7. Aside(s, y)
    BY <1>8, <2>3, AsideTransitive
  <2> QED
    BY <2>5, <2>6, <2>7 DEF y
<1> QED
  BY <1>6, <1>7

(* While the device is active no manager waits for it.                     *)
NoneWaits(s) == \A n \in DOMAIN s.mgr : s.mgr[n].m # 41

(* doMPNREG_Register: token and device of the notification are stored.     *)
LEMMA ActivatedIs ==
  ASSUME NEW s \in Clients, AirOK(s), NEW dev \in Nat
  PROVE  LET y == Activated(s, dev) IN
         /\ DeviceStep(s, y) /\ y.failed = s.failed
         /\ y.m = 405 /\ y.ft = 430 /\ y.bg = 440 /\ y.tk = 450 /\ y.id = dev
         /\ y.out = s.out /\ y.replies = s.replies /\ y.candidates = s.candidates
         /\ y.device = s.device /\ y.token = s.device
<1> DEFINE y == Activated(s, dev)
           k1 == 405
           k2 == 420
           k3 == 430
           k4 == 440
           k5 == 450
<1>1. k1 \in Nat /\ k2 \in Nat /\ k3 \in Nat /\ k4 \in Nat /\ k5 \in Nat
  OBVIOUS
<1>2. y = [s EXCEPT !.id = dev, !.token = s.device, !.m = k1, !.sbs = k2, !.ft = k3, !.bg = k4,
                    !.tk = k5]
  BY DEF Activated
<1>3. s.device \in Nat
  BY DEF Clients
<1> HIDE DEF y, k1, k2, k3, k4, k5
<1>4. y \in Clients
  BY <1>1, <1>2, <1>3 DEF Clients
<1>5. /\ y.m = k1 /\ y.ft = k3 /\ y.bg = k4 /\ y.tk = k5 /\ y.id = dev
      /\ y.mgr = s.mgr /\ y.up = s.up /\ y.out = s.out /\ y.replies = s.replies
      /\ y.failed = s.failed /\ y.candidates = s.candidates
      /\ y.device = s.device /\ y.token = s.device
  BY <1>2 DEF Clients
<1>6. DeviceStep(s, y)
  BY <1>4, <1>5, DeviceStepQuiet
<1> QED
  BY <1>5, <1>6 DEF y, k1, k3, k4, k5

LEMMA SetItem ==
  ASSUME NEW s \in Clients, AirOK(s), NEW v \in SpecialItems
  PROVE  LET y == [s EXCEPT !.item = v] IN
         /\ Core(s, y) /\ y.ft = s.ft /\ y.filters = s.filters /\ y.bg = s.bg /\ y.badge = s.badge
         /\ Aside(s, y)
<1> DEFINE y == [s EXCEPT !.item = v]
<1>1. y \in Clients
  BY DEF Clients
<1>2. /\ y.mgr = s.mgr /\ y.up = s.up /\ y.out = s.out /\ y.replies = s.replies
      /\ y.failed = s.failed /\ y.m = s.m /\ y.tk = s.tk /\ y.candidates = s.candidates
      /\ y.id = s.id /\ y.sbs = s.sbs
      /\ y.ft = s.ft /\ y.filters = s.filters /\ y.bg = s.bg /\ y.badge = s.badge
      /\ y.token = s.token /\ y.device = s.device
  BY DEF Clients
<1> HIDE DEF y
<1>3. DeviceStep(s, y)
  BY <1>1, <1>2, DeviceStepQuiet
<1>4. Aside(s, y)
  BY <1>2, AsideSame
<1> QED
  BY <1>2, <1>3, <1>4 DEF Core, y

(* The region of the special item and what the snapshot has.               *)
SubsOnly(x, y) ==
    /\ DeviceStep(x, y) /\ y.failed = x.failed /\ y.m = x.m /\ y.tk = x.tk /\ y.candidates = x.candidates
    /\ y.id = x.id /\ y.ft = x.ft /\ y.filters = x.filters /\ y.bg = x.bg /\ y.badge = x.badge
    /\ Aside(x, y)

LEMMA SetSubs ==
  ASSUME NEW s \in Clients, AirOK(s), NEW v \in Nat, NEW set \in SUBSET Nat
  PROVE  SubsOnly(s, [s EXCEPT !.snapshot = set, !.sbs = v])
<1> DEFINE y == [s EXCEPT !.snapshot = set, !.sbs = v]
<1>1. y \in Clients
  BY DEF Clients
<1>2. /\ y.mgr = s.mgr /\ y.up = s.up /\ y.out = s.out /\ y.replies = s.replies
      /\ y.failed = s.failed /\ y.m = s.m /\ y.tk = s.tk /\ y.candidates = s.candidates
      /\ y.id = s.id /\ y.token = s.token /\ y.device = s.device
      /\ y.ft = s.ft /\ y.filters = s.filters /\ y.bg = s.bg /\ y.badge = s.badge
  BY DEF Clients
<1> HIDE DEF y
<1>3. DeviceStep(s, y)
  BY <1>1, <1>2, DeviceStepQuiet
<1>4. Aside(s, y)
  BY <1>2, AsideSame
<1> QED
  BY <1>2, <1>3, <1>4 DEF SubsOnly, y

(* The region of the special item is moved, of an active device.           *)
LEMMA SubsKeeps ==
  ASSUME NEW x, NEW y, SubsOnly(x, y)
  PROVE  /\ RegisterOK(x) => RegisterOK(y)
         /\ FilterOK(x) => FilterOK(y)
         /\ BadgeOK(x) => BadgeOK(y)
         /\ x.m = 405 => ItemOK(y)
  BY DEF SubsOnly, DeviceStep, RegisterOK, RegisterState, RegisterAir, isPendingRegister, FilterOK,
         FilterState, BadgeOK, BadgeState, ItemOK

(* A device becomes active: each manager is activated and each region      *)
(* starts.                                                                 *)
LEMMA BecomeActiveIs ==
  ASSUME NEW s, ManagersOK(s), NEW dev \in Nat \ {0}
  PROVE  LET y == BecomeActive(s, dev) IN
         /\ ManagersOK(y) /\ DeviceOK(y) /\ NoneWaits(y)
         /\ y.m = 405 /\ y.up = s.up /\ y.failed = s.failed
<1> DEFINE a == Activated(s, dev)
           msg == Item("ACTIVE", None)
           b == EachManager(a, msg)
           v == [NoItem EXCEPT !.state = "asked"]
           d == [b EXCEPT !.item = v]
           e == evtMpnCheckPending(d)
           f == evtSUBS_Init(e)
           g == evtMpnCheckFilter(f)
           y == evtMpnCheckReset(g)
<1>1. BecomeActive(s, dev) = y
  BY DEF BecomeActive
<1>2. /\ DeviceStep(s, a) /\ a.failed = s.failed
      /\ a.m = 405 /\ a.ft = 430 /\ a.bg = 440 /\ a.tk = 450 /\ a.id = dev
  BY ActivatedIs DEF ManagersOK
<1>3. ManagersOK(a) /\ a.id # None /\ a.up = s.up
  BY <1>2, DeviceStepKeeps DEF None, DeviceStep
<1> HIDE DEF a
<1>4. /\ ManagersOK(b) /\ SameDevice(a, b) /\ b.failed = a.failed
      /\ \A n \in DOMAIN b.mgr : Fits(a, b, n, msg)
  BY <1>3, AllHear
<1>5. NoneWaits(b)
  BY <1>4 DEF Fits, NoneWaits, Item
<1> HIDE DEF b
<1>6. b \in Clients /\ AirOK(b)
  BY <1>4 DEF ManagersOK
<1>7. v \in SpecialItems
  <2>1. v = [state |-> "asked", queue |-> <<>>, second |-> {}]
    BY DEF NoItem
  <2>2. <<>> \in Seq(Messages) /\ {} \in SUBSET Nat
    OBVIOUS
  <2> HIDE DEF v
  <2> QED
    BY <2>1, <2>2 DEF SpecialItems
<1> HIDE DEF v
<1>8. Core(b, d) /\ d.ft = b.ft /\ d.filters = b.filters /\ d.bg = b.bg /\ d.badge = b.badge
  BY <1>6, <1>7, SetItem
<1>9. d.m = 405 /\ d.tk = 450 /\ d.id = dev /\ d.id # None /\ d.ft = 430 /\ d.bg = 440
      /\ d.up = s.up /\ d.failed = s.failed
  BY <1>2, <1>3, <1>4, <1>8 DEF Core, SameDevice, DeviceStep
<1> HIDE DEF d
<1>10. DeviceStep(b, d) /\ d \in Clients /\ AirOK(d)
  BY <1>8 DEF Core, DeviceStep
<1>11. DeviceStep(d, e) /\ RegisterOK(e) /\ SameActive(d, e) /\ e.failed = d.failed
  BY <1>9, <1>10, CheckPendingIs
<1> HIDE DEF e
<1>12. e \in Clients /\ AirOK(e)
  BY <1>11 DEF DeviceStep
<1>13. SubsOnly(e, f)
  <2> DEFINE k == 421
  <2>1. k \in Nat /\ {} \in SUBSET Nat
    OBVIOUS
  <2>2. f = [e EXCEPT !.snapshot = {}, !.sbs = k]
    BY DEF evtSUBS_Init
  <2> HIDE DEF k, f
  <2> QED
    BY <1>12, <2>1, <2>2, SetSubs
<1> HIDE DEF f
<1>14. RegisterOK(f) /\ ItemOK(f)
  BY <1>11, <1>13, SubsKeeps DEF SameActive
<1>15. f.m = 405 /\ f.id # None /\ f.ft = 430 /\ f.bg = 440 /\ f.failed = s.failed
  BY <1>9, <1>11, <1>13 DEF SubsOnly, SameActive
<1>16. f \in Clients /\ AirOK(f)
  BY <1>13 DEF SubsOnly, DeviceStep
<1>17. Core(f, g) /\ FilterOK(g) /\ g.bg = f.bg /\ g.badge = f.badge
  BY <1>15, <1>16, CheckFilterIs
<1> HIDE DEF g
<1>18. RegisterOK(g) /\ ItemOK(g)
  BY <1>14, <1>17, CoreKeeps
<1>19. g.m = 405 /\ g.id # None /\ g.bg = 440 /\ g.failed = s.failed /\ g \in Clients /\ AirOK(g)
  BY <1>15, <1>17 DEF Core, DeviceStep
<1>20. Core(g, y) /\ BadgeOK(y) /\ y.ft = g.ft /\ y.filters = g.filters
  BY <1>19, CheckResetIs
<1> HIDE DEF y
<1>21. DeviceOK(y) /\ y.m = 405 /\ y.failed = s.failed
  BY <1>17, <1>18, <1>19, <1>20, CoreKeeps DEF DeviceOK, Core
<1>22. ManagersOK(d) /\ ManagersOK(e) /\ ManagersOK(f) /\ ManagersOK(g) /\ ManagersOK(y)
  BY <1>4, <1>10, <1>11, <1>13, <1>17, <1>20, DeviceStepKeeps DEF Core, SubsOnly
<1>23. y.mgr = b.mgr /\ y.up = s.up
  BY <1>9, <1>10, <1>11, <1>13, <1>17, <1>20 DEF Core, SubsOnly, DeviceStep
<1>24. NoneWaits(y)
  BY <1>5, <1>23 DEF NoneWaits
<1> QED
  BY <1>1, <1>21, <1>22, <1>23, <1>24

(* What holds of the client between two handlers: managers, device, and    *)
(* that no manager waits for a device that is active.                      *)
Steady(s) == ManagersOK(s) /\ DeviceOK(s) /\ (s.m = 405 => NoneWaits(s))

(* Nothing was lost and no manager changed, unless the device is active.   *)
Moves(x, y) ==
    /\ Steady(y) /\ y.up = x.up /\ y.failed = x.failed
    /\ y.m # 405 => y.mgr = x.mgr /\ (x.m = 405 => y.m = 401)

(* The registration is about to do something.                              *)
RegisterRegion(s) ==
    /\ s.m \in {400, 401, 403, 404, 405, 406, 407}
    /\ IF s.m = 405 THEN s.tk \in {451, 453, 454} /\ s.id # None ELSE s.tk = None
Loose(s) ==
    /\ ManagersOK(s) /\ RegisterRegion(s) /\ FilterOK(s) /\ BadgeOK(s) /\ ItemOK(s)
    /\ s.m = 405 => NoneWaits(s)

LEMMA LooseIs ==
  ASSUME NEW s
  PROVE  Loose(s) /\ RegisterOK(s) <=> Steady(s)
  BY DEF Loose, Steady, DeviceOK, RegisterOK, RegisterState, RegisterRegion

LEMMA LooseInactive ==
  ASSUME NEW s, Loose(s), s.m # 405
  PROVE  s.tk = None /\ Inactive(s)
  BY DEF Loose, RegisterRegion, FilterOK, FilterState, BadgeOK, BadgeState, ItemOK, Inactive

(* A step of the registration.                                             *)
LEMMA RegistrationMoves ==
  ASSUME NEW s, Loose(s),
         NEW y, DeviceStep(s, y), RegisterOK(y), SameActive(s, y) \/ Inactive(y),
         s.m = 405 /\ y.m # 405 => y.m = 401, y.failed = s.failed
  PROVE  Moves(s, y) /\ (y.m = 405 => s.m = 405)
<1>1. ManagersOK(y)
  BY DeviceStepKeeps DEF Loose
<1>2. FilterOK(y) /\ BadgeOK(y) /\ ItemOK(y)
  BY ActiveKept DEF Loose
<1>3. y.mgr = s.mgr /\ y.up = s.up
  BY DEF DeviceStep
<1>4. y.m = 405 => s.m = 405
  BY DEF SameActive, Inactive
<1> QED
  BY <1>1, <1>2, <1>3, <1>4 DEF Moves, Steady, DeviceOK, NoneWaits, Loose

(* The next token, for a device that is not active.                        *)
LEMMA StartNext ==
  ASSUME NEW s, Loose(s), s.m # 405, NEW k \in Nat, k = 402 \/ k = 408
  PROVE  LET y == evtMpnCheckNext([s EXCEPT !.m = k]) IN
         Moves(s, y) /\ y.m # 405
<1> DEFINE x == [s EXCEPT !.m = k]
           y == evtMpnCheckNext(x)
<1>1. s \in Clients /\ AirOK(s) /\ s.tk = None /\ Inactive(s) /\ k \in Nat
  BY LooseInactive DEF Loose, ManagersOK
<1>2. x \in Clients /\ Stays(s, x) /\ x.m = k /\ x.tk = s.tk
  BY <1>1, SetM
<1> HIDE DEF x
<1>3. DeviceStep(s, x)
  BY <1>1, <1>2, StaysStep
<1>4. AirOK(x) /\ x.m \in {402, 408} /\ x.tk = None /\ Inactive(x) /\ x.m # 405
  BY <1>1, <1>2, <1>3 DEF DeviceStep, Stays, Inactive
<1>5. DeviceStep(x, y) /\ RegisterOK(y) /\ y.failed = x.failed /\ (SameActive(x, y) \/ Inactive(y))
      /\ y.m # 405
  BY <1>2, <1>4, CheckNextIs
<1> HIDE DEF y
<1>6. DeviceStep(s, y) /\ Inactive(y) /\ y.failed = s.failed
  BY <1>2, <1>3, <1>5, DeviceStepTransitive DEF SameActive, Stays
<1>7. Moves(s, y)
  BY <1>5, <1>6, RegistrationMoves
<1> QED
  BY <1>5, <1>7 DEF x, y

(* The next token of a device that is active.                              *)
LEMMA RenewNext ==
  ASSUME NEW s, Loose(s), s.m = 405
  PROVE  LET y == evtMpnCheckNext([s EXCEPT !.tk = 452]) IN
         Moves(s, y) /\ (s.candidates # <<>> => y.m = 405)
<1> DEFINE k == 452
           x == [s EXCEPT !.tk = k]
           y == evtMpnCheckNext(x)
<1>1. s \in Clients /\ AirOK(s) /\ s.id # None /\ k \in Nat
  BY DEF Loose, ManagersOK, RegisterRegion
<1>2. [s EXCEPT !.tk = 452] = x
  OBVIOUS
<1>3. x \in Clients /\ Stays(s, x) /\ x.tk = k /\ x.m = s.m /\ x.candidates = s.candidates
  BY <1>1, SetTk
<1> HIDE DEF x
<1>4. DeviceStep(s, x)
  BY <1>1, <1>3, StaysStep
<1>5. AirOK(x) /\ x.m = 405 /\ x.tk = 452 /\ x.id # None
  BY <1>1, <1>3, <1>4 DEF DeviceStep, Stays
<1>6. DeviceStep(x, y) /\ RegisterOK(y) /\ y.failed = x.failed /\ (SameActive(x, y) \/ Inactive(y))
      /\ (x.candidates # <<>> => SameActive(x, y)) /\ (y.m # 405 => y.m = 401)
  BY <1>3, <1>5, CheckNextIs
<1> HIDE DEF y, k
<1>7. DeviceStep(s, y) /\ y.failed = s.failed
  BY <1>3, <1>4, <1>6, DeviceStepTransitive DEF Stays
<1>8. SameActive(x, y) => SameActive(s, y)
  BY <1>3 DEF SameActive, Stays
<1>9. Moves(s, y)
  BY <1>6, <1>7, <1>8, RegistrationMoves
<1>10. s.candidates # <<>> => y.m = 405
  BY <1>3, <1>6 DEF SameActive
<1> QED
  BY <1>2, <1>9, <1>10 DEF y

(* The token that was sent is registered and the next one is looked for.   *)
LEMMA RenewedIs ==
  ASSUME NEW s, Loose(s), s.m = 405
  PROVE  LET y == evtMpnCheckPending([s EXCEPT !.token = s.device, !.tk = 450]) IN
         Moves(s, y) /\ y.m = 405
<1> DEFINE k == 450
           d == s.device
           x == [s EXCEPT !.token = d, !.tk = k]
           y == evtMpnCheckPending(x)
<1>1. s \in Clients /\ AirOK(s) /\ s.id # None /\ k \in Nat /\ d \in Nat
  BY DEF Loose, ManagersOK, RegisterRegion, Clients
<1>2. [s EXCEPT !.token = s.device, !.tk = 450] = x
  OBVIOUS
<1> HIDE DEF k, d
<1>3. x \in Clients
  BY <1>1 DEF Clients
<1>4. Stays(s, x) /\ x.tk = k /\ x.m = s.m
  BY <1>1 DEF Stays, Clients
<1> HIDE DEF x
<1>5. DeviceStep(s, x)
  BY <1>1, <1>3, <1>4, StaysStep
<1>6. AirOK(x) /\ x.m = 405 /\ x.tk = 450 /\ x.id # None
  BY <1>1, <1>4, <1>5 DEF DeviceStep, Stays, k
<1>7. DeviceStep(x, y) /\ RegisterOK(y) /\ SameActive(x, y) /\ y.failed = x.failed
  BY <1>3, <1>6, CheckPendingIs
<1> HIDE DEF y
<1>8. DeviceStep(s, y) /\ y.failed = s.failed /\ SameActive(s, y)
  BY <1>4, <1>5, <1>7, DeviceStepTransitive DEF Stays, SameActive
<1>9. Moves(s, y) /\ y.m = 405
  BY <1>7, <1>8, RegistrationMoves DEF SameActive
<1> QED
  BY <1>2, <1>9 DEF y

LEMMA StayStill ==
  ASSUME NEW s, Steady(s)
  PROVE  Moves(s, s)
  BY DEF Moves

(* evtMPNREG: the device becomes active, or its token is refreshed.        *)
LEMMA MPNREGIs ==
  ASSUME NEW s, Steady(s), NEW dev \in Nat \ {0}
  PROVE  Moves(s, evtMPNREG(s, dev))
<1> DEFINE y == evtMPNREG(s, dev)
<1>1. Loose(s) /\ ManagersOK(s)
  BY LooseIs DEF Loose
<1>2. s.m # 405 => s.tk = None
  BY <1>1, LooseInactive
<1>3. CASE s.m \in {403, 404} \/ (s.m \in {406, 407} /\ dev = s.id)
  <2>1. y = BecomeActive(s, dev)
    BY <1>2, <1>3 DEF evtMPNREG, None
  <2> QED
    BY <1>1, <2>1, BecomeActiveIs DEF Moves, Steady
<1>4. CASE s.m \in {406, 407} /\ dev # s.id
  <2> DEFINE k == 408
  <2>1. y = evtMpnCheckNext([s EXCEPT !.m = k])
    BY <1>2, <1>4 DEF evtMPNREG, None
  <2>2. k \in {402, 408} /\ s.m # 405
    BY <1>4
  <2> HIDE DEF k, y
  <2>3. Moves(s, evtMpnCheckNext([s EXCEPT !.m = k]))
    <3>1. Loose(s) /\ s.m # 405 /\ k \in Nat /\ (k = 402 \/ k = 408)
      BY <1>1, <2>2
    <3> QED
      BY ONLY <3>1, StartNext
  <2> QED
    BY <2>1, <2>3 DEF y
<1>5. CASE s.m \notin {403, 404, 406, 407} /\ s.tk \in {453, 454} /\ dev = s.id
  <2>1. y = evtMpnCheckPending([s EXCEPT !.token = s.device, !.tk = 450]) /\ s.m = 405
    BY <1>2, <1>5 DEF evtMPNREG, None
  <2>2. Moves(s, evtMpnCheckPending([s EXCEPT !.token = s.device, !.tk = 450]))
    BY <1>1, <2>1, RenewedIs
  <2> QED
    BY <2>1, <2>2
<1>6. CASE s.m \notin {403, 404, 406, 407} /\ s.tk \in {453, 454} /\ dev # s.id
  <2>1. y = evtMpnCheckNext([s EXCEPT !.tk = 452]) /\ s.m = 405
    BY <1>2, <1>6 DEF evtMPNREG, None
  <2>2. Moves(s, evtMpnCheckNext([s EXCEPT !.tk = 452]))
    BY <1>1, <2>1, RenewNext
  <2> QED
    BY <2>1, <2>2
<1>7. CASE s.m \notin {403, 404, 406, 407} /\ s.tk \notin {453, 454}
  <2>1. y = s
    BY <1>7 DEF evtMPNREG
  <2> QED
    BY <2>1, StayStill
<1> QED
  BY <1>3, <1>4, <1>5, <1>6, <1>7
-----------------------------------------------------------------------------
(* Replies                                                                 *)

(* Neither the regions of the device nor the managers change.              *)
Alike(x, y) ==
    /\ Core(x, y) /\ y.ft = x.ft /\ y.filters = x.filters /\ y.bg = x.bg /\ y.badge = x.badge

LEMMA AlikeMoves ==
  ASSUME NEW x, NEW y, Steady(x), Alike(x, y)
  PROVE  Moves(x, y) /\ y.m = x.m /\ y.mgr = x.mgr
<1>1. Core(x, y) /\ DeviceStep(x, y) /\ y.mgr = x.mgr /\ y.m = x.m /\ y.up = x.up /\ y.failed = x.failed
  BY DEF Alike, Core, DeviceStep
<1>2. ManagersOK(y)
  BY <1>1, DeviceStepKeeps DEF Steady
<1>3. DeviceOK(y)
  BY <1>1, CoreKeeps DEF Steady, DeviceOK, Alike
<1>4. y.m = 405 => NoneWaits(y)
  BY <1>1 DEF Steady, NoneWaits
<1>5. x.m = 405 => y.m = 405
  BY <1>1
<1> QED
  BY <1>1, <1>2, <1>3, <1>4, <1>5 DEF Moves, Steady

(* Reply r is taken.                                                       *)
WithoutReply(s, r) == [s EXCEPT !.replies = @ \ {r}]

(* A reply is read, and what it was about is no more in the air.           *)
LEMMA WithoutReplyIs ==
  ASSUME NEW s \in Clients, AirOK(s), NEW r \in s.replies
  PROVE  LET x == WithoutReply(s, r) IN
         /\ x \in Clients /\ AirOK(x) /\ SameDevice(s, x) /\ x.mgr = s.mgr /\ x.failed = s.failed
         /\ r \in Replies /\ x.out = s.out /\ x.replies = s.replies \ {r}
         /\ \A kind, n : InAir(s, kind, n) /\ (kind # r.kind \/ n # r.n) => InAir(x, kind, n)
<1> DEFINE rest == s.replies \ {r}
           x == WithoutReply(s, r)
<1>1. x = [s EXCEPT !.replies = rest]
  BY DEF WithoutReply
<1>2. s.replies \subseteq Replies /\ rest \subseteq Replies
  BY DEF Clients
<1>3. \A q \in s.replies : q = r \/ q \in rest
  OBVIOUS
<1>4. rest \subseteq s.replies
  OBVIOUS
<1> HIDE DEF rest, x
<1>5. x \in Clients
  BY <1>1, <1>2 DEF Clients
<1>6. SameDevice(s, x) /\ x.mgr = s.mgr /\ x.failed = s.failed /\ x.out = s.out /\ x.replies = rest
  BY <1>1 DEF SameDevice, Clients
<1>7. \A kind, n : InAir(x, kind, n) => InAir(s, kind, n)
  BY <1>4, <1>6 DEF InAir
<1>8. \A kind, n : InAir(s, kind, n) /\ (kind # r.kind \/ n # r.n) => InAir(x, kind, n)
  BY <1>3, <1>6 DEF InAir
<1>9. AirOK(x)
  BY <1>6, <1>7 DEF AirOK
<1> QED
  BY <1>2, <1>5, <1>6, <1>8, <1>9 DEF x, rest

(* A reply to a request of the device.                                     *)
LEMMA ManagersWithout ==
  ASSUME NEW s, ManagersOK(s), NEW r \in s.replies, r.kind \in DeviceKinds
  PROVE  ManagersOK(WithoutReply(s, r))
<1> DEFINE x == WithoutReply(s, r)
<1>1. s \in Clients /\ AirOK(s)
  BY DEF ManagersOK
<1>2. /\ x \in Clients /\ AirOK(x) /\ SameDevice(s, x) /\ x.mgr = s.mgr
      /\ \A kind, n : InAir(s, kind, n) /\ (kind # r.kind \/ n # r.n) => InAir(x, kind, n)
  BY <1>1, WithoutReplyIs
<1> HIDE DEF x
<1>3. ASSUME NEW n \in DOMAIN x.mgr
      PROVE  ManagerOK(x.mgr[n]) /\ ManagerSent(x, n)
  <2>1. ManagerOK(s.mgr[n]) /\ ManagerSent(s, n)
    BY <1>2 DEF ManagersOK
  <2>2. KindOf(s.mgr[n]) # r.kind
    BY DEF KindOf, DeviceKinds
  <2> QED
    BY <1>2, <2>1, <2>2 DEF ManagerSent, SameDevice
<1> QED
  BY <1>2, <1>3 DEF ManagersOK, x

(* A reply REQOK to a request of the device.                               *)
LEMMA DeviceREQOKIs ==
  ASSUME NEW s, Loose(s), RegisterState(s)
  PROVE  Moves(s, DeviceREQOK(s)) /\ (DeviceREQOK(s).m = 405 => s.m = 405)
<1> DEFINE y == DeviceREQOK(s)
<1>1. s \in Clients /\ AirOK(s)
  BY DEF Loose, ManagersOK
<1>2. s.m # 405 => s.tk = None /\ Inactive(s)
  BY LooseInactive
<1>3. ASSUME NEW m \in Nat, y = [s EXCEPT !.m = m], s.m # 405, m = 404 \/ m = 407
      PROVE  Moves(s, y) /\ (y.m = 405 => s.m = 405)
  <2> HIDE DEF y
  <2>1. y \in Clients /\ Stays(s, y) /\ y.m = m /\ y.tk = s.tk
    BY <1>1, <1>3, SetM
  <2>2. DeviceStep(s, y)
    BY <1>1, <2>1, StaysStep
  <2>3. RegisterOK(y) /\ Inactive(y)
    BY <1>2, <1>3, <2>1 DEF RegisterOK, RegisterState, RegisterAir, isPendingRegister, Stays, Inactive,
                            None
  <2>4. y.failed = s.failed
    BY <2>1 DEF Stays
  <2>5. s.m # 405
    BY <1>3
  <2> QED
    BY <2>2, <2>3, <2>4, <2>5, RegistrationMoves
<1>4. CASE s.m = 403
  <2> DEFINE m == 404
  <2>1. y = [s EXCEPT !.m = m] /\ m \in Nat /\ (m = 404 \/ m = 407)
    BY <1>2, <1>4 DEF DeviceREQOK, None
  <2> QED
    BY ONLY <1>3, <1>4, <2>1
<1>5. CASE s.m = 406
  <2> DEFINE m == 407
  <2>1. y = [s EXCEPT !.m = m] /\ m \in Nat /\ (m = 404 \/ m = 407)
    BY <1>2, <1>5 DEF DeviceREQOK, None
  <2> QED
    BY ONLY <1>3, <1>5, <2>1
<1>6. CASE s.m \notin {403, 406} /\ s.tk = 453
  <2> DEFINE k == 454
  <2>1. y = [s EXCEPT !.tk = k] /\ k \in Nat
    BY <1>6 DEF DeviceREQOK
  <2>2. s.m = 405
    BY <1>2, <1>6 DEF None
  <2> HIDE DEF y, k
  <2>3. y \in Clients /\ Stays(s, y) /\ y.tk = k /\ y.m = s.m
    BY <1>1, <2>1, SetTk
  <2>4. DeviceStep(s, y)
    BY <1>1, <2>3, StaysStep
  <2>5. RegisterOK(y)
    BY <2>2, <2>3 DEF RegisterOK, RegisterState, RegisterAir, isPendingRegister, Stays, k, Loose,
                      RegisterRegion
  <2>6. SameActive(s, y) /\ y.failed = s.failed
    BY <2>2, <2>3 DEF SameActive, Stays
  <2>7. Moves(s, y)
    BY <2>2, <2>3, <2>4, <2>5, <2>6, RegistrationMoves
  <2> QED
    BY <2>2, <2>7 DEF y
<1>7. CASE s.m \notin {403, 406} /\ s.tk # 453
  <2>1. y = s
    BY <1>7 DEF DeviceREQOK
  <2>2. RegisterOK(s)
    BY <1>7 DEF RegisterOK, RegisterAir, isPendingRegister
  <2> QED
    BY <2>1, <2>2, LooseIs, StayStill
<1> QED
  BY <1>4, <1>5, <1>6, <1>7

(* A reply REQERR to a registration: the next device is tried.             *)
LEMMA DeviceREQERRIs ==
  ASSUME NEW s, Loose(s), RegisterState(s)
  PROVE  Moves(s, DeviceREQERR(s)) /\ (DeviceREQERR(s).m = 405 => s.m = 405)
<1> DEFINE y == DeviceREQERR(s)
<1>1. s.m # 405 => s.tk = None
  BY LooseInactive
<1>2. ASSUME NEW k \in Nat, k = 402 \/ k = 408, y = evtMpnCheckNext([s EXCEPT !.m = k]), s.m # 405
      PROVE  Moves(s, y) /\ (y.m = 405 => s.m = 405)
  <2>1. Moves(s, evtMpnCheckNext([s EXCEPT !.m = k])) /\ evtMpnCheckNext([s EXCEPT !.m = k]).m # 405
    <3>1. Loose(s) /\ s.m # 405 /\ k \in Nat /\ (k = 402 \/ k = 408)
      BY <1>2
    <3> QED
      BY ONLY <3>1, StartNext
  <2> QED
    BY <1>2, <2>1
<1>3. CASE s.m = 403
  <2> DEFINE k == 402
  <2>1. y = evtMpnCheckNext([s EXCEPT !.m = k]) /\ k \in Nat /\ (k = 402 \/ k = 408)
    BY <1>1, <1>3 DEF DeviceREQERR, None
  <2> QED
    BY ONLY <1>2, <1>3, <2>1
<1>4. CASE s.m = 406
  <2> DEFINE k == 408
  <2>1. y = evtMpnCheckNext([s EXCEPT !.m = k]) /\ k \in Nat /\ (k = 402 \/ k = 408)
    BY <1>1, <1>4 DEF DeviceREQERR, None
  <2> QED
    BY ONLY <1>2, <1>4, <2>1
<1>5. CASE s.m \notin {403, 406} /\ s.tk = 453
  <2>1. y = evtMpnCheckNext([s EXCEPT !.tk = 452]) /\ s.m = 405
    BY <1>1, <1>5 DEF DeviceREQERR, None
  <2>2. Moves(s, evtMpnCheckNext([s EXCEPT !.tk = 452]))
    BY <2>1, RenewNext
  <2> QED
    BY <2>1, <2>2
<1>6. CASE s.m \notin {403, 406} /\ s.tk # 453
  <2>1. y = s
    BY <1>6 DEF DeviceREQERR
  <2>2. RegisterOK(s)
    BY <1>6 DEF RegisterOK, RegisterAir, isPendingRegister
  <2> QED
    BY <2>1, <2>2, LooseIs, StayStill
<1> QED
  BY <1>3, <1>4, <1>5, <1>6
(* Every region but that of the requests to be unsubscribed, or that of    *)
(* the badge, is as it should be.                                          *)
LEMMA RegionMoves ==
  ASSUME NEW s, ManagersOK(s), s.m = 405 => NoneWaits(s), NEW y, DeviceStep(s, y), DeviceOK(y),
         y.m = s.m, y.failed = s.failed
  PROVE  Moves(s, y)
<1>1. ManagersOK(y) /\ y.mgr = s.mgr /\ y.up = s.up
  BY DeviceStepKeeps DEF DeviceStep
<1> QED
  BY <1>1 DEF Moves, Steady, NoneWaits

(* An unsubscription by status was answered.                               *)
LEMMA FilterDoneIs ==
  ASSUME NEW s, ManagersOK(s), RegisterOK(s), FilterState(s), BadgeOK(s), ItemOK(s),
         s.m = 405 => NoneWaits(s)
  PROVE  LET y == FilterDone(s) IN
         Moves(s, y) /\ y.m = s.m /\ Aside(s, y)
<1> DEFINE k == 430
           left == s.filters - 1
           x == [s EXCEPT !.ft = k, !.filters = left]
           y == FilterDone(s)
<1>1. s \in Clients /\ AirOK(s) /\ s.filters \in Nat
  BY DEF ManagersOK, Clients
<1>2. CASE s.ft = 432
  <2>1. y = evtMpnCheckFilter(x) /\ k \in Nat
    BY <1>2 DEF FilterDone
  <2>2. left \in Nat
    BY <1>1, <1>2 DEF FilterState
  <2>3. s.m = 405 /\ s.id # None
    BY <1>2 DEF FilterState, None, RegisterOK, RegisterState
  <2> HIDE DEF k, left, y
  <2>4. x \in Clients
    BY <1>1, <2>1, <2>2 DEF Clients
  <2>5. /\ x.m = s.m /\ x.tk = s.tk /\ x.candidates = s.candidates /\ x.id = s.id /\ x.sbs = s.sbs
        /\ x.failed = s.failed /\ x.ft = k /\ x.bg = s.bg /\ x.badge = s.badge
        /\ x.mgr = s.mgr /\ x.up = s.up /\ x.out = s.out /\ x.replies = s.replies
        /\ x.token = s.token /\ x.device = s.device
    BY <1>1 DEF Clients
  <2> HIDE DEF x
  <2>6. DeviceStep(s, x)
    BY <1>1, <2>4, <2>5, DeviceStepQuiet
  <2>7. Core(s, x)
    BY <2>5, <2>6 DEF Core
  <2>8. RegisterOK(x) /\ BadgeOK(x) /\ ItemOK(x)
    BY <2>5, <2>7, CoreKeeps
  <2>9. AirOK(x) /\ x.m = 405 /\ x.ft = 430 /\ x.id # None
    BY <2>3, <2>5, <2>6 DEF DeviceStep, k
  <2>10. /\ Core(x, y) /\ FilterOK(y) /\ y.bg = x.bg /\ y.badge = x.badge
         /\ Aside(x, y)
    BY <2>1, <2>4, <2>9, CheckFilterIs
  <2>11. DeviceOK(y)
    BY <2>8, <2>10, CoreKeeps DEF DeviceOK
  <2>12. DeviceStep(s, y) /\ y.m = s.m /\ y.failed = s.failed
    BY <2>5, <2>6, <2>10, DeviceStepTransitive DEF Core
  <2>13. Aside(s, y)
    BY <2>5, <2>10, AsideSame, AsideTransitive
  <2> QED
    BY <2>11, <2>12, <2>13, RegionMoves DEF y
<1>3. CASE s.ft # 432
  <2>1. y = s
    BY <1>3 DEF FilterDone
  <2>2. FilterOK(s)
    BY <1>3 DEF FilterOK
  <2> QED
    BY <2>1, <2>2, StayStill, AsideSame DEF Steady, DeviceOK
<1> QED
  BY <1>2, <1>3

(* A reset of the badge was answered.                                      *)
LEMMA BadgeDoneIs ==
  ASSUME NEW s, ManagersOK(s), RegisterOK(s), FilterOK(s), BadgeState(s), ItemOK(s),
         s.m = 405 => NoneWaits(s)
  PROVE  LET y == BadgeDone(s) IN
         Moves(s, y) /\ y.m = s.m /\ Aside(s, y)
<1> DEFINE k == 440
           no == FALSE
           x == [s EXCEPT !.bg = k, !.badge = no]
           y == BadgeDone(s)
<1>1. s \in Clients /\ AirOK(s) /\ k \in Nat /\ no \in BOOLEAN
  BY DEF ManagersOK, Clients
<1>2. CASE s.bg = 442
  <2>1. y = evtMpnCheckReset(x)
    BY <1>2 DEF BadgeDone
  <2>3. s.m = 405 /\ s.id # None
    BY <1>2 DEF BadgeState, None, RegisterOK, RegisterState
  <2> HIDE DEF k, no, y
  <2>4. x \in Clients
    BY <1>1 DEF Clients
  <2>5. /\ x.m = s.m /\ x.tk = s.tk /\ x.candidates = s.candidates /\ x.id = s.id /\ x.sbs = s.sbs
        /\ x.failed = s.failed /\ x.bg = k /\ x.ft = s.ft /\ x.filters = s.filters
        /\ x.mgr = s.mgr /\ x.up = s.up /\ x.out = s.out /\ x.replies = s.replies
        /\ x.token = s.token /\ x.device = s.device
    BY <1>1 DEF Clients
  <2> HIDE DEF x
  <2>6. DeviceStep(s, x)
    BY <1>1, <2>4, <2>5, DeviceStepQuiet
  <2>7. Core(s, x)
    BY <2>5, <2>6 DEF Core
  <2>8. RegisterOK(x) /\ FilterOK(x) /\ ItemOK(x)
    BY <2>5, <2>7, CoreKeeps
  <2>9. AirOK(x) /\ x.m = 405 /\ x.bg = 440 /\ x.id # None
    BY <2>3, <2>5, <2>6 DEF DeviceStep, k
  <2>10. /\ Core(x, y) /\ BadgeOK(y) /\ y.ft = x.ft /\ y.filters = x.filters
         /\ Aside(x, y)
    BY <2>1, <2>4, <2>9, CheckResetIs
  <2>11. DeviceOK(y)
    BY <2>8, <2>10, CoreKeeps DEF DeviceOK
  <2>12. DeviceStep(s, y) /\ y.m = s.m /\ y.failed = s.failed
    BY <2>5, <2>6, <2>10, DeviceStepTransitive DEF Core
  <2>13. Aside(s, y)
    BY <2>5, <2>10, AsideSame, AsideTransitive
  <2> QED
    BY <2>11, <2>12, <2>13, RegionMoves DEF y
<1>3. CASE s.bg # 442
  <2>1. y = s
    BY <1>3 DEF BadgeDone
  <2>2. BadgeOK(s)
    BY <1>3 DEF BadgeOK
  <2> QED
    BY <2>1, <2>2, StayStill, AsideSame DEF Steady, DeviceOK
<1> QED
  BY <1>2, <1>3

(* What managers do leaves the device as it is.                            *)
LEMMA DeviceKept ==
  ASSUME NEW x, NEW y, SameDevice(x, y), DeviceOK(x),
         \A kind \in Kinds : InAir(x, kind, None) => InAir(y, kind, None)
  PROVE  DeviceOK(y)
<1>1. "register" \in Kinds /\ "filter" \in Kinds /\ "badge" \in Kinds
  BY DEF Kinds
<1> QED
  BY <1>1 DEF DeviceOK, SameDevice, RegisterOK, RegisterState, RegisterAir, isPendingRegister,
              FilterOK, FilterState, BadgeOK, BadgeState, ItemOK

(* A step of the managers, with nothing done about the device.             *)
Works(x, y) ==
    /\ Steady(y) /\ SameDevice(x, y) /\ Untouched(x, y)
    /\ x.id # None \/ ~x.up => y.failed = x.failed

LEMMA WorksAside ==
  ASSUME NEW x, NEW y, Works(x, y)
  PROVE  Aside(x, y)
  BY DEF Works, Aside, SameDevice

LEMMA HandledWorks ==
  ASSUME NEW x \in Clients, DeviceOK(x), NEW n \in DOMAIN x.mgr, NEW y, Handled(x, y, n),
         \A k \in DOMAIN x.mgr \ {n} : ManagerOK(x.mgr[k]) /\ ManagerSent(x, k),
         x.m = 405 => NoneWaits(x), n \in DOMAIN y.mgr => (y.mgr[n].m = 41 => x.mgr[n].m = 41)
  PROVE  Works(x, y)
<1>1. ManagersOK(y)
  BY HandledKeeps
<1>2. OnlyManager(x, y, n)
  BY DEF Handled
<1>3. n # None
  BY TableIs DEF Clients, Numbers, None
<1>4. \A kind \in Kinds : InAir(x, kind, None) => InAir(y, kind, None)
  BY <1>2, <1>3, MpnAssumption DEF OnlyManager, None
<1>5. DeviceOK(y)
  BY <1>2, <1>4, DeviceKept DEF OnlyManager
<1>6. y.m = 405 => NoneWaits(y)
  BY <1>2 DEF OnlyManager, SameDevice, NoneWaits
<1> QED
  BY <1>1, <1>2, <1>5, <1>6 DEF Works, Steady, OnlyManager

LEMMA HearWorks ==
  ASSUME NEW s, Steady(s), NEW msg
  PROVE  Works(s, EachManager(s, msg))
<1> DEFINE y == EachManager(s, msg)
<1>1. /\ ManagersOK(y) /\ SameDevice(s, y) /\ Untouched(s, y)
      /\ \A n \in DOMAIN y.mgr : n \in DOMAIN s.mgr /\ Fits(s, y, n, msg)
      /\ \A kind \in Kinds : InAir(s, kind, None) => InAir(y, kind, None)
      /\ s.id # None \/ ~s.up => y.failed = s.failed
  BY AllHear DEF Steady
<1> HIDE DEF y
<1>2. DeviceOK(y)
  BY <1>1, DeviceKept DEF Steady
<1>3. y.m = 405 => NoneWaits(y)
  BY <1>1 DEF SameDevice, Steady, NoneWaits, Fits
<1> QED
  BY <1>1, <1>2, <1>3 DEF Works, Steady, y
(* A step of the client: of a device that is active or, when all managers  *)
(* are dormant, of one that is not.                                        *)
Progress(x, y) ==
    /\ Steady(y) /\ y.up = x.up
    /\ x.m = 405 \/ AllDormant(x) => y.failed = x.failed
    /\ x.m # 405 /\ y.m # 405 /\ AllDormant(x) => AllDormant(y)
    /\ x.m = 405 /\ y.m # 405 => y.m = 401 /\ y.mgr = x.mgr

LEMMA MovesProgress ==
  ASSUME NEW x, NEW y, Moves(x, y)
  PROVE  Progress(x, y)
  BY DEF Moves, Progress, AllDormant

LEMMA WorksProgress ==
  ASSUME NEW x, NEW y, Works(x, y), x.m = 405 => x.id # None,
         AllDormant(x) => y.failed = x.failed /\ (x.m # 405 => AllDormant(y))
  PROVE  Progress(x, y)
  BY DEF Works, Progress, SameDevice

(* x has the state of s, but for what is in the air.                       *)
LEMMA ProgressFrom ==
  ASSUME NEW s, NEW x, NEW y, Progress(x, y), x.m = s.m, x.mgr = s.mgr, x.up = s.up,
         x.failed = s.failed
  PROVE  Progress(s, y)
  BY DEF Progress, AllDormant

LEMMA SteadyId ==
  ASSUME NEW s, Steady(s), s.m = 405
  PROVE  s.id # None
  BY DEF Steady, DeviceOK, RegisterOK, RegisterState

(* A reply to the device, in all.                                          *)
LEMMA DeviceReplyIs ==
  ASSUME NEW s, Steady(s), NEW r \in s.replies, r.kind \in DeviceKinds
  PROVE  LET y == evtReply(WithoutReply(s, r), r) IN
         /\ Progress(s, y) /\ (y.m = 405 => s.m = 405)
         /\ r.kind # "register" => Aside(WithoutReply(s, r), y)
<1> DEFINE x == WithoutReply(s, r)
           y == evtReply(x, r)
<1>1. s \in Clients /\ AirOK(s) /\ ManagersOK(s)
  BY DEF Steady, ManagersOK
<1>2. /\ x \in Clients /\ AirOK(x) /\ SameDevice(s, x) /\ x.mgr = s.mgr /\ x.failed = s.failed
      /\ r \in Replies
      /\ \A kind, n : InAir(s, kind, n) /\ (kind # r.kind \/ n # r.n) => InAir(x, kind, n)
  BY <1>1, WithoutReplyIs
<1>3. ManagersOK(x)
  BY <1>1, ManagersWithout
<1> HIDE DEF x
<1>4. x.m = 405 => NoneWaits(x)
  BY <1>2 DEF Steady, NoneWaits, SameDevice
<1>5. RegisterState(x) /\ FilterState(x) /\ BadgeState(x) /\ ItemOK(x)
  BY <1>2 DEF Steady, DeviceOK, RegisterOK, FilterOK, BadgeOK, SameDevice, RegisterState, FilterState,
              BadgeState, ItemOK
<1>6. r.kind # "register" => RegisterOK(x)
  BY <1>2, <1>5 DEF Steady, DeviceOK, RegisterOK, RegisterAir, isPendingRegister, SameDevice
<1>7. r.kind # "filter" => FilterOK(x)
  BY <1>2, <1>5 DEF Steady, DeviceOK, FilterOK, SameDevice
<1>8. r.kind # "badge" => BadgeOK(x)
  BY <1>2, <1>5 DEF Steady, DeviceOK, BadgeOK, SameDevice
<1>9. Moves(x, y) /\ (y.m = 405 => x.m = 405) /\ (r.kind # "register" => Aside(x, y))
  <2>1. CASE r.kind = "register"
    <3>1. Loose(x)
      BY <1>3, <1>4, <1>5, <1>7, <1>8, <2>1 DEF Loose, RegisterState, RegisterRegion
    <3>2. CASE r.ok
      <4>1. y = DeviceREQOK(x)
        BY <2>1, <3>2 DEF evtReply
      <4> QED
        BY <1>5, <2>1, <3>1, <4>1, DeviceREQOKIs
    <3>3. CASE ~r.ok
      <4>1. y = DeviceREQERR(x)
        BY <2>1, <3>3 DEF evtReply
      <4> QED
        BY <1>5, <2>1, <3>1, <4>1, DeviceREQERRIs
    <3> QED
      BY <3>2, <3>3
  <2>2. CASE r.kind = "filter"
    <3>1. y = FilterDone(x)
      BY <2>2 DEF evtReply
    <3> QED
      BY <1>3, <1>4, <1>5, <1>6, <1>8, <2>2, <3>1, FilterDoneIs
  <2>3. CASE r.kind = "badge"
    <3>1. y = BadgeDone(x)
      BY <2>3 DEF evtReply
    <3> QED
      BY <1>3, <1>4, <1>5, <1>6, <1>7, <2>3, <3>1, BadgeDoneIs
  <2> QED
    BY <2>1, <2>2, <2>3 DEF DeviceKinds
<1> HIDE DEF y
<1>10. Progress(s, y)
  BY <1>2, <1>9, MovesProgress, ProgressFrom DEF SameDevice
<1> QED
  BY <1>2, <1>9, <1>10 DEF SameDevice, x, y

(* A reply to a manager, in all.                                           *)
LEMMA ManagerReplyIs ==
  ASSUME NEW s, Steady(s), NEW r \in s.replies, r.kind \notin DeviceKinds
  PROVE  LET y == evtReply(WithoutReply(s, r), r) IN
         Progress(s, y) /\ (y.m = 405 => s.m = 405) /\ Aside(WithoutReply(s, r), y)
<1> DEFINE x == WithoutReply(s, r)
           y == evtReply(x, r)
           n == r.n
<1>1. s \in Clients /\ AirOK(s) /\ ManagersOK(s)
  BY DEF Steady, ManagersOK
<1>2. /\ x \in Clients /\ AirOK(x) /\ SameDevice(s, x) /\ x.mgr = s.mgr /\ x.failed = s.failed
      /\ r \in Replies
      /\ \A kind, k : InAir(s, kind, k) /\ (kind # r.kind \/ k # r.n) => InAir(x, kind, k)
  BY <1>1, WithoutReplyIs
<1> HIDE DEF x
<1>3. r.kind \in ManagerKinds /\ n \in 0..MaxManagers /\ r.ok \in BOOLEAN
  BY <1>2 DEF Replies, Kinds, DeviceKinds, ManagerKinds
<1>4. n \in DOMAIN s.mgr
  BY <1>1, <1>3 DEF AirOK, InAir
<1>5. DOMAIN s.mgr \subseteq Numbers /\ s.mgr \in [DOMAIN s.mgr -> Managers]
  BY <1>1, TableIs DEF Clients
<1>6. \A k \in DOMAIN x.mgr : ManagerOK(x.mgr[k])
  BY <1>1, <1>2 DEF ManagersOK
<1>7. \A k \in DOMAIN x.mgr \ {n} : ManagerSent(x, k)
  BY <1>1, <1>2 DEF ManagersOK, ManagerSent, SameDevice
<1>8. Taken(x, r)
  <2>1. x.up /\ isPending(x.mgr[n]) /\ KindOf(x.mgr[n]) # r.kind => InAir(x, KindOf(x.mgr[n]), n)
    BY <1>1, <1>2, <1>4 DEF ManagersOK, ManagerSent, SameDevice
  <2> QED
    BY <1>2, <1>4, <1>5, <1>6, <2>1 DEF Taken
<1>9. /\ Handled(x, y, n) /\ Undisturbed(x, y, n)
      /\ n \in DOMAIN y.mgr => (y.mgr[n].m = 41 => x.mgr[n].m = 41)
  <2>1. CASE r.ok
    <3>1. y = ManagerREQOK(x, r)
      BY <1>3, <2>1 DEF evtReply, ManagerKinds
    <3> QED
      BY <1>8, <3>1, REQOKIs
  <2>2. CASE ~r.ok
    <3>1. y = ManagerREQERR(x, r)
      BY <1>3, <2>2 DEF evtReply, ManagerKinds
    <3> QED
      BY <1>8, <3>1, REQERRIs
  <2> QED
    BY <2>1, <2>2
<1> HIDE DEF y
<1>10. DeviceOK(x)
  <2>1. \A kind \in DeviceKinds : InAir(s, kind, None) => InAir(x, kind, None)
    BY <1>2
  <2>2. "register" \in DeviceKinds /\ "filter" \in DeviceKinds /\ "badge" \in DeviceKinds
    BY DEF DeviceKinds
  <2> QED
    BY <1>2, <2>1, <2>2 DEF Steady, DeviceOK, SameDevice, RegisterOK, RegisterState, RegisterAir,
              isPendingRegister, FilterOK, FilterState, BadgeOK, BadgeState, ItemOK
<1>11. x.m = 405 => NoneWaits(x) /\ x.id # None
  <2>1. x.m = s.m /\ x.id = s.id /\ x.mgr = s.mgr
    BY <1>2 DEF SameDevice
  <2>2. s.m = 405 => s.id # None
    BY SteadyId
  <2>3. s.m = 405 => NoneWaits(s)
    BY DEF Steady
  <2> QED
    BY ONLY <2>1, <2>2, <2>3 DEF NoneWaits
<1>12. Works(x, y)
  BY <1>2, <1>4, <1>6, <1>7, <1>9, <1>10, <1>11, HandledWorks
<1>13. AllDormant(x) => y.failed = x.failed /\ AllDormant(y)
  <2>1. /\ DOMAIN y.mgr \cup {n} = DOMAIN x.mgr
        /\ \A k \in DOMAIN y.mgr \ {n} : y.mgr[k] = x.mgr[k]
    BY <1>9 DEF Handled, OnlyManager
  <2>2. AllDormant(x) => Dormant(x.mgr[n])
    BY <1>2, <1>4 DEF AllDormant
  <2> QED
    BY <1>9, <2>1, <2>2 DEF Undisturbed, AllDormant
<1>14. Progress(x, y)
  BY <1>11, <1>12, <1>13, WorksProgress
<1>15. Progress(s, y)
  BY <1>2, <1>14, ProgressFrom DEF SameDevice
<1> QED
  BY <1>2, <1>12, <1>15, WorksAside DEF Works, SameDevice, x, y
(* doREQOK and doREQERR: the client is as it should be after any reply.    *)
LEMMA ReplyIs ==
  ASSUME NEW s, Steady(s), NEW r \in s.replies
  PROVE  LET y == evtReply(WithoutReply(s, r), r) IN
         Progress(s, y) /\ (y.m = 405 => s.m = 405)
<1>1. CASE r.kind \in DeviceKinds
  BY <1>1, DeviceReplyIs
<1>2. CASE r.kind \notin DeviceKinds
  BY <1>2, ManagerReplyIs
<1> QED
  BY <1>1, <1>2

-----------------------------------------------------------------------------
(* The session                                                             *)

(* evtRetry: what was on its way is lost and nothing is sent.              *)
LEMMA NoChannelIs ==
  ASSUME NEW s, Steady(s)
  PROVE  LET y == NoChannel(s) IN
         Steady(y) /\ ~y.up /\ y.m = s.m /\ y.mgr = s.mgr /\ y.failed = s.failed
<1> DEFINE no == FALSE
           y == NoChannel(s)
<1>1. s \in Clients /\ no \in BOOLEAN /\ <<>> \in Seq(Requests) /\ {} \in SUBSET Replies
  BY DEF Steady, ManagersOK
<1>2. y = [s EXCEPT !.up = no, !.out = <<>>, !.replies = {}]
  BY DEF NoChannel
<1> HIDE DEF y, no
<1>3. y \in Clients
  BY <1>1, <1>2 DEF Clients
<1>4. /\ y.m = s.m /\ y.tk = s.tk /\ y.sbs = s.sbs /\ y.ft = s.ft /\ y.bg = s.bg /\ y.id = s.id
      /\ y.candidates = s.candidates /\ y.filters = s.filters /\ y.badge = s.badge
      /\ y.mgr = s.mgr /\ y.failed = s.failed /\ y.up = no /\ y.out = <<>> /\ y.replies = {}
  BY <1>1, <1>2 DEF Clients
<1>5. ~y.up
  BY <1>4 DEF no
<1>6. AirOK(y)
  BY <1>4 DEF AirOK, InAir
<1>7. ManagersOK(y)
  BY <1>3, <1>4, <1>5, <1>6 DEF Steady, ManagersOK, ManagerSent
<1>8. DeviceOK(y)
  BY <1>4, <1>5 DEF Steady, DeviceOK, RegisterOK, RegisterState, RegisterAir, FilterOK, FilterState,
                    BadgeOK, BadgeState, ItemOK
<1>9. y.m = 405 => NoneWaits(y)
  BY <1>4 DEF Steady, NoneWaits
<1> QED
  BY <1>4, <1>5, <1>7, <1>8, <1>9 DEF Steady, y

(* The device of a session that is over: the next session registers it.    *)
LEMMA RetryRegionIs ==
  ASSUME NEW s, Steady(s), ~s.up
  PROVE  LET y == evtRetry_MpnRegion(s) IN
         /\ Steady(y) /\ ~y.up /\ y.m # 405 /\ y.mgr = s.mgr /\ y.failed = s.failed
<1> DEFINE y == evtRetry_MpnRegion(s)
<1>1. s \in Clients /\ AirOK(s) /\ ManagersOK(s)
  BY DEF Steady, ManagersOK
<1>2. Loose(s)
  BY LooseIs
<1>3. s.m # 405 => s.tk = None /\ Inactive(s)
  BY <1>2, LooseInactive
<1>4. ASSUME DeviceStep(s, y), Inactive(y), y.tk = None, y.m \in {403, 406}, y.failed = s.failed
      PROVE  Steady(y) /\ ~y.up /\ y.m # 405 /\ y.mgr = s.mgr
  <2> HIDE DEF y
  <2>1. ManagersOK(y) /\ y.mgr = s.mgr /\ ~y.up
    BY <1>1, <1>4, DeviceStepKeeps DEF DeviceStep
  <2>2. DeviceOK(y)
    BY <1>4, <2>1 DEF DeviceOK, RegisterOK, RegisterState, RegisterAir, FilterOK, FilterState,
                      BadgeOK, BadgeState, ItemOK, Inactive, None
  <2> QED
    BY <1>4, <2>1, <2>2 DEF Steady
<1>5. ASSUME NEW m \in Nat, y = [s EXCEPT !.m = m], s.m # 405, m = 403 \/ m = 406
      PROVE  Steady(y) /\ ~y.up /\ y.m # 405 /\ y.mgr = s.mgr /\ y.failed = s.failed
  <2> HIDE DEF y
  <2>1. y \in Clients /\ Stays(s, y) /\ y.m = m /\ y.tk = s.tk
    BY <1>1, <1>5, SetM
  <2>2. DeviceStep(s, y)
    BY <1>1, <2>1, StaysStep
  <2>3. Inactive(y) /\ y.tk = None /\ y.m \in {403, 406} /\ y.failed = s.failed
    BY <1>3, <1>5, <2>1 DEF Stays, Inactive
  <2> QED
    BY <1>4, <2>2, <2>3
<1>6. CASE s.m \in {403, 404}
  <2> DEFINE m == 403
  <2>1. y = [s EXCEPT !.m = m] /\ m \in Nat /\ (m = 403 \/ m = 406) /\ s.m # 405
    BY <1>6 DEF evtRetry_MpnRegion
  <2> QED
    BY ONLY <1>5, <2>1
<1>7. CASE s.m \in {406, 407}
  <2> DEFINE m == 406
  <2>1. y = [s EXCEPT !.m = m] /\ m \in Nat /\ (m = 403 \/ m = 406) /\ s.m # 405
    BY <1>7 DEF evtRetry_MpnRegion
  <2> QED
    BY ONLY <1>5, <2>1
<1>8. CASE s.m = 405
  <2> DEFINE m == 406
  <2>1. y = LeaveActive(s, m) /\ m \in Nat
    BY <1>8 DEF evtRetry_MpnRegion
  <2> HIDE DEF y, m
  <2>2. /\ y \in Clients /\ y.m = m /\ y.tk = None /\ y.sbs = None /\ y.ft = None /\ y.bg = None
        /\ y.mgr = s.mgr /\ y.up = s.up /\ y.out = s.out /\ y.replies = s.replies
        /\ y.failed = s.failed
    BY <1>1, <2>1, LeaveActiveIs
  <2>3. DeviceStep(s, y)
    BY <1>1, <2>2, DeviceStepQuiet
  <2>4. Inactive(y) /\ y.m \in {403, 406}
    BY <2>2 DEF Inactive, m
  <2> QED
    BY <1>4, <2>2, <2>3, <2>4 DEF y
<1>9. CASE s.m \notin {403, 404, 405, 406, 407}
  BY <1>9 DEF evtRetry_MpnRegion
<1> QED
  BY <1>6, <1>7, <1>8, <1>9

(* The device is given up, from any state.                                 *)
LEMMA GivenUp ==
  ASSUME NEW s, Steady(s)
  PROVE  LET y == doResetMpnDevice(LeaveActive(s, 401)) IN
         Moves(s, y) /\ y.m = 401
<1> DEFINE y == doResetMpnDevice(LeaveActive(s, 401))
<1>1. s \in Clients /\ AirOK(s) /\ Loose(s)
  BY LooseIs DEF Steady, ManagersOK
<1>2. DeviceStep(s, y) /\ RegisterOK(y) /\ Inactive(y) /\ y.m = 401 /\ y.failed = s.failed
  BY <1>1, GiveUpIs
<1> HIDE DEF y
<1>3. Moves(s, y)
  BY <1>1, <1>2, RegistrationMoves
<1> QED
  BY <1>2, <1>3 DEF y

(* evtTerminate_MpnRegion, from each state of the device.                  *)
LEMMA TerminateRegionIs ==
  ASSUME NEW s, Steady(s)
  PROVE  LET y == evtTerminate_MpnRegion(s) IN
         Moves(s, y) /\ y.m # 405
<1> DEFINE y == evtTerminate_MpnRegion(s)
<1>1. CASE s.m \in 403..407
  <2>1. y = doResetMpnDevice(LeaveActive(s, 401))
    BY <1>1 DEF evtTerminate_MpnRegion
  <2>2. Moves(s, doResetMpnDevice(LeaveActive(s, 401)))
        /\ doResetMpnDevice(LeaveActive(s, 401)).m = 401
    BY GivenUp
  <2> QED
    BY <2>1, <2>2
<1>2. CASE s.m \notin 403..407
  <2>1. y = s
    BY <1>2 DEF evtTerminate_MpnRegion
  <2>2. s.m # 405
    BY <1>2
  <2> QED
    BY <2>1, <2>2, StayStill
<1> QED
  BY <1>1, <1>2

(* evtMpnError.                                                            *)
LEMMA MpnErrorIs ==
  ASSUME NEW s, Steady(s)
  PROVE  Moves(s, evtMpnError(s)) /\ (evtMpnError(s).m = 405 => s.m = 405)
<1>1. CASE s.m = 405
  <2>1. evtMpnError(s) = doResetMpnDevice(LeaveActive(s, 401))
    BY <1>1 DEF evtMpnError
  <2>2. Moves(s, doResetMpnDevice(LeaveActive(s, 401)))
    BY GivenUp
  <2> QED
    BY <1>1, <2>1, <2>2
<1>2. CASE s.m # 405
  <2>1. evtMpnError(s) = s
    BY <1>2 DEF evtMpnError
  <2> QED
    BY <2>1, StayStill
<1> QED
  BY <1>1, <1>2

(* All managers are told that the session is over.                         *)
LEMMA AbortSubscriptionsIs ==
  ASSUME NEW s, Steady(s), ~s.up
  PROVE  LET y == AbortSubscriptions(s) IN
         Steady(y) /\ ~y.up /\ y.m = s.m /\ y.failed = s.failed /\ AllDormant(y)
<1> DEFINE msg == Item("ABORT", None)
           y == EachManager(s, msg)
<1>1. AbortSubscriptions(s) = y
  BY DEF AbortSubscriptions
<1>2. \A n \in DOMAIN y.mgr : Fits(s, y, n, msg)
  BY AllHear DEF Steady
<1>3. Works(s, y)
  BY HearWorks
<1>4. msg.kind = "ABORT"
  BY DEF Item
<1> HIDE DEF y, msg
<1>5. AllDormant(y)
  BY <1>2, <1>4 DEF Fits, AllDormant
<1> QED
  BY <1>1, <1>3, <1>5 DEF Works, SameDevice
-----------------------------------------------------------------------------
(* A manager is added, and what the special item lists                     *)

(* A manager that is added has a number of its own.                        *)
LEMMA FreeNumberIs ==
  ASSUME NEW s \in Clients, FreeNumbers(s) # {}
  PROVE  FreeNumber(s) \in Numbers /\ FreeNumber(s) \notin DOMAIN s.mgr
<1> DEFINE F == FreeNumbers(s)
<1>1. F \subseteq Numbers /\ IsFiniteSet(Numbers) /\ Numbers \subseteq Nat
  <2>1. MaxManagers \in Nat /\ IsFiniteSet(Numbers)
    BY MpnAssumption, FS_Interval DEF Numbers
  <2> QED
    BY <2>1 DEF FreeNumbers, Numbers
<1> HIDE DEF F
<1>2. F \in SUBSET Nat /\ IsFiniteSet(F) /\ F # {}
  <2>1. IsFiniteSet(F)
    BY <1>1, FS_Subset
  <2> QED
    BY <1>1, <2>1 DEF F
<1>3. Nth(F, 1) \in F
  BY <1>2, NthFirst
<1> QED
  BY <1>1, <1>3 DEF FreeNumber, FreeNumbers, F

(* The new manager is as it should be, and the others are as they were.    *)
LEMMA AddManagerIs ==
  ASSUME NEW s \in Clients, AirOK(s), FreeNumbers(s) # {}, NEW mgr \in Managers
  PROVE  LET n == FreeNumber(s)
             y == AddManager(s, mgr)
         IN /\ n \in Numbers /\ n \notin DOMAIN s.mgr
            /\ y \in Clients /\ AirOK(y) /\ SameDevice(s, y)
            /\ DOMAIN y.mgr = DOMAIN s.mgr \cup {n} /\ y.mgr[n] = mgr
            /\ \A k \in DOMAIN s.mgr : y.mgr[k] = s.mgr[k]
            /\ y.out = s.out /\ y.replies = s.replies /\ y.failed = s.failed
<1> DEFINE n == FreeNumber(s)
           y == AddManager(s, mgr)
           D == DOMAIN s.mgr \cup {n}
           f == [k \in D |-> IF k = n THEN mgr ELSE s.mgr[k]]
<1>1. n \in Numbers /\ n \notin DOMAIN s.mgr
  BY FreeNumberIs
<1>2. y = [s EXCEPT !.mgr = f]
  BY DEF AddManager
<1>3. DOMAIN s.mgr \in SUBSET Numbers /\ s.mgr \in [DOMAIN s.mgr -> Managers]
  BY TableIs DEF Clients
<1> HIDE DEF n
<1>4. D \in SUBSET Numbers /\ f \in [D -> Managers] /\ DOMAIN f = D
  BY <1>1, <1>3
<1>5. f[n] = mgr /\ \A k \in DOMAIN s.mgr : f[k] = s.mgr[k]
  BY <1>1
<1> HIDE DEF f, y, D
<1>6. f \in Tables
  BY <1>4, IsTable
<1>7. y \in Clients
  BY <1>2, <1>6 DEF Clients
<1>8. /\ y.mgr = f /\ SameDevice(s, y)
      /\ y.out = s.out /\ y.replies = s.replies /\ y.failed = s.failed
  BY <1>2 DEF Clients, SameDevice
<1>9. \A kind, k : InAir(y, kind, k) <=> InAir(s, kind, k)
  BY <1>8, InAirSame
<1>10. AirOK(y)
  BY <1>4, <1>8, <1>9 DEF AirOK, D
<1> QED
  BY <1>1, <1>4, <1>5, <1>7, <1>8, <1>10 DEF n, y, D

(* A manager that waits for something.                                     *)
LEMMA AddedSteady ==
  ASSUME NEW s, Steady(s), FreeNumbers(s) # {}, NEW mgr \in Managers, ManagerOK(mgr),
         Dormant(mgr), s.m = 405 => mgr.m # 41
  PROVE  LET y == AddManager(s, mgr) IN
         Works(s, y) /\ y.failed = s.failed /\ (AllDormant(s) => AllDormant(y))
<1> DEFINE n == FreeNumber(s)
           y == AddManager(s, mgr)
<1>1. s \in Clients /\ AirOK(s) /\ ManagersOK(s)
  BY DEF Steady, ManagersOK
<1>2. /\ y \in Clients /\ AirOK(y) /\ SameDevice(s, y)
      /\ DOMAIN y.mgr = DOMAIN s.mgr \cup {n} /\ y.mgr[n] = mgr
      /\ \A k \in DOMAIN s.mgr : y.mgr[k] = s.mgr[k]
      /\ y.out = s.out /\ y.replies = s.replies /\ y.failed = s.failed
  BY <1>1, AddManagerIs
<1> HIDE DEF y, n
<1>3. \A kind, k : InAir(y, kind, k) <=> InAir(s, kind, k)
  BY <1>2, InAirSame
<1>4. ~isPending(mgr)
  BY DEF Dormant, ManagerOK, isPending, None
<1>5. ManagersOK(y)
  BY <1>1, <1>2, <1>3, <1>4 DEF ManagersOK, ManagerSent, SameDevice
<1>6. DeviceOK(y)
  BY <1>2, <1>3, DeviceKept DEF Steady
<1>7. y.m = 405 => NoneWaits(y)
  BY <1>2 DEF Steady, NoneWaits, SameDevice
<1>8. AllDormant(s) => AllDormant(y)
  BY <1>2 DEF AllDormant
<1> QED
  BY <1>2, <1>5, <1>6, <1>7, <1>8, UntouchedSame DEF Works, Steady, y

(* The device is active and stays so.                                      *)
Lives(x, y) == Steady(y) /\ y.m = 405 /\ y.up = x.up /\ y.failed = x.failed /\ Aside(x, y)

LEMMA WorksLives ==
  ASSUME NEW x, NEW y, Steady(x), x.m = 405, Works(x, y)
  PROVE  Lives(x, y) /\ y.sbs = x.sbs
<1>1. x.id # None
  BY SteadyId
<1> QED
  BY <1>1, WorksAside DEF Works, Lives, SameDevice

LEMMA LivesOn ==
  ASSUME NEW x, NEW y, NEW z, Lives(x, y), Lives(y, z)
  PROVE  Lives(x, z)
  BY AsideTransitive DEF Lives

LEMMA FireLives ==
  ASSUME NEW s, Steady(s), s.m = 405
  PROVE  Lives(s, fireOnSubscriptionsUpdated(s))
<1> DEFINE y == fireOnSubscriptionsUpdated(s)
<1>1. s \in Clients /\ AirOK(s)
  BY DEF Steady, ManagersOK
<1>2. /\ y \in Clients /\ SameDevice(s, y) /\ y.mgr = s.mgr /\ y.failed = s.failed
      /\ y.out = s.out /\ y.replies = s.replies
  BY <1>1, FireIs
<1> HIDE DEF y
<1>3. DeviceStep(s, y)
  BY <1>1, <1>2, DeviceStepQuiet DEF SameDevice
<1>4. Alike(s, y)
  BY <1>2, <1>3 DEF Alike, Core, SameDevice
<1>5. Moves(s, y) /\ y.m = s.m
  BY <1>4, AlikeMoves
<1>6. Aside(s, y)
  BY <1>2, UntouchedSame DEF Aside, SameDevice
<1> QED
  BY <1>5, <1>6 DEF Moves, Lives, y

Surveyed(s, v, set) == [s EXCEPT !.snapshot = set, !.sbs = v]

LEMMA SubsLive ==
  ASSUME NEW s, Steady(s), s.m = 405, NEW v \in Nat, NEW set \in SUBSET Nat
  PROVE  LET y == Surveyed(s, v, set) IN
         Lives(s, y) /\ y.mgr = s.mgr /\ y.sbs = v
<1> DEFINE y == Surveyed(s, v, set)
<1>1. s \in Clients /\ AirOK(s) /\ ManagersOK(s)
  BY DEF Steady, ManagersOK
<1>2. y.sbs = v
  BY <1>1 DEF Clients, Surveyed
<1>3. SubsOnly(s, y)
  BY <1>1, SetSubs DEF Surveyed
<1> HIDE DEF y
<1>7. Aside(s, y)
  BY <1>3 DEF SubsOnly
<1>4. ManagersOK(y) /\ y.mgr = s.mgr /\ y.m = 405 /\ y.up = s.up /\ y.failed = s.failed
  BY <1>1, <1>3, DeviceStepKeeps DEF SubsOnly, DeviceStep
<1>5. DeviceOK(y)
  BY <1>3, SubsKeeps DEF Steady, DeviceOK
<1>6. NoneWaits(y)
  BY <1>4 DEF Steady, NoneWaits
<1> QED
  BY <1>2, <1>4, <1>5, <1>6, <1>7 DEF Steady, Lives, y

(* A push subscription of the past gets its manager (s45).                 *)
LEMMA NewManagerIs ==
  ASSUME NEW m \in 41..45, NEW id \in Nat, NEW app \in BOOLEAN
  PROVE  LET v == Manager(m, id, app) IN
         v \in Managers /\ ManagerOK(v) /\ v.m = m /\ v.ct = None
<1> DEFINE v == Manager(m, id, app)
<1>1. /\ v.m = m /\ v.uu = 10 /\ v.ct = None /\ v.ab = None /\ v.upd = NoValues
      /\ v.req = NoValues /\ v.cur = NoValues /\ v.id = id /\ v.app = app
  BY DEF Manager
<1>2. NoValues \in [Parts -> Nat] /\ NoValues \in [Parts -> 0..3]
      /\ \A part \in Parts : NoValues[part] = 0
  BY DEF NoValues, None
<1>3. 10 \in {10, 11, 12} /\ None \in {None, 71, 72, 73, 74, 76} /\ None \in {None, 80, 81}
  OBVIOUS
<1>4. v \in Managers
  BY <1>2, <1>3 DEF Manager, Managers
<1>5. ManagerOK(v)
  BY <1>1, <1>2 DEF ManagerOK, None
<1> QED
  BY <1>1, <1>4, <1>5

(* ... and hears the update that made it known.                            *)
LEMMA AddedLives ==
  ASSUME NEW s, Steady(s), s.m = 405, FreeNumbers(s) # {}, NEW id \in Nat
  PROVE  Lives(s, Added(s, id))
<1> DEFINE set == s.snapshot \ {id}
           v == s.sbs
           x == Surveyed(s, v, set)
           mgr == Manager(45, id, FALSE)
           y == AddManager(x, mgr)
           z == EachManager(y, Item("STATUS", id))
<1>1. s \in Clients /\ set \in SUBSET Nat /\ v \in Nat
  BY DEF Steady, ManagersOK, Clients
<1>2. [s EXCEPT !.snapshot = @ \ {id}] = x
  BY <1>1 DEF Clients, Surveyed
<1>3. Added(s, id) = z
  BY <1>2 DEF Added, genSUBS_update
<1> HIDE DEF set, v
<1>4. Lives(s, x) /\ x.mgr = s.mgr
  <2>1. Steady(s) /\ s.m = 405 /\ v \in Nat /\ set \in SUBSET Nat
        /\ x = Surveyed(s, v, set)
    BY <1>1
  <2> HIDE DEF x
  <2> QED
    BY ONLY <2>1, SubsLive
<1> HIDE DEF x
<1>5. Steady(x) /\ x.m = 405 /\ FreeNumbers(x) # {}
  BY <1>4 DEF Lives, FreeNumbers
<1>6. mgr \in Managers /\ ManagerOK(mgr) /\ mgr.m = 45
  <2> DEFINE m == 45
             no == FALSE
  <2>1. m \in 41..45 /\ no \in BOOLEAN /\ mgr = Manager(m, id, no) /\ m = 45
    OBVIOUS
  <2> HIDE DEF m, no, mgr
  <2> QED
    BY <2>1, NewManagerIs
<1>7. Dormant(mgr)
  BY <1>6 DEF Dormant
<1> HIDE DEF mgr
<1>8. Works(x, y)
  BY <1>5, <1>6, <1>7, AddedSteady
<1> HIDE DEF y
<1>9. Lives(x, y)
  BY <1>5, <1>8, WorksLives
<1>10. Works(y, z)
  BY <1>9, HearWorks DEF Lives
<1> HIDE DEF z
<1>11. Lives(y, z)
  BY <1>9, <1>10, WorksLives DEF Lives
<1> QED
  BY <1>3, <1>4, <1>9, <1>11, LivesOn
(* The special item is there only while the device is active.              *)
LEMMA ListeningIsActive ==
  ASSUME NEW s, Steady(s), s.sbs # None
  PROVE  s.m = 405 /\ s \in Clients /\ s.snapshot \subseteq Nat /\ s.sbs \in Nat
  BY DEF Steady, DeviceOK, ItemOK, ManagersOK, Clients

LEMMA LivesMoves ==
  ASSUME NEW x, NEW y, Lives(x, y)
  PROVE  Moves(x, y) /\ y.m = 405 /\ Aside(x, y)
  BY DEF Lives, Moves

LEMMA MaybeFired ==
  ASSUME NEW x, NEW y, Lives(x, y), NEW z, z = y \/ z = fireOnSubscriptionsUpdated(y)
  PROVE  Lives(x, z)
<1>1. Lives(y, fireOnSubscriptionsUpdated(y))
  BY FireLives DEF Lives
<1> QED
  BY <1>1, LivesOn

LEMMA SurveyedIs ==
  ASSUME NEW s \in Clients, NEW v, NEW set
  PROVE  /\ Surveyed(s, v, set) = [s EXCEPT !.sbs = v, !.snapshot = set]
         /\ Surveyed(s, v, s.snapshot) = [s EXCEPT !.sbs = v]
         /\ Surveyed(s, s.sbs, set) = [s EXCEPT !.snapshot = set]
<1>1. Surveyed(s, v, set) = [s EXCEPT !.sbs = v, !.snapshot = set]
  BY DEF Surveyed, Clients
<1>2. Surveyed(s, v, s.snapshot) = [s EXCEPT !.sbs = v]
  BY DEF Surveyed, Clients
<1>3. Surveyed(s, s.sbs, set) = [s EXCEPT !.snapshot = set]
  BY DEF Surveyed, Clients
<1> QED
  BY <1>1, <1>2, <1>3

(* evtSUBS_Update: an update of the special item in each of its states.    *)
LEMMA SUBSUpdateIs ==
  ASSUME NEW s, Steady(s), FreeNumbers(s) # {}, NEW id \in Nat, NEW kind
  PROVE  LET y == evtSUBS_Update(s, id, kind) IN
         Moves(s, y) /\ y.m = s.m /\ Aside(s, y)
<1> DEFINE y == evtSUBS_Update(s, id, kind)
           more == s.snapshot \cup {id}
           less == s.snapshot \ {id}
           k == 423
           a == Surveyed(s, k, more)
           b == Surveyed(s, k, s.snapshot)
           d == Surveyed(s, s.sbs, less)
           t == Added(s, id)
<1>1. CASE s.sbs = None
  <2>1. y = s
    BY <1>1 DEF evtSUBS_Update, None
  <2> QED
    BY <2>1, StayStill, AsideSame
<1>2. CASE s.sbs # None /\ exists(s, id)
  <2>1. y = EachManager(s, Item(kind, id))
    BY <1>2 DEF evtSUBS_Update, genSUBS_update
  <2>2. s.m = 405
    BY <1>2, ListeningIsActive
  <2> QED
    BY <2>1, <2>2, HearWorks, WorksLives, LivesMoves
<1>3. CASE s.sbs # None /\ ~exists(s, id)
  <2>1. s.m = 405 /\ s \in Clients /\ s.snapshot \in SUBSET Nat /\ s.sbs \in Nat
    BY <1>3, ListeningIsActive
  <2>2. more \in SUBSET Nat /\ less \in SUBSET Nat /\ k \in Nat
    BY <2>1
  <2> HIDE DEF more, less, k
  <2>3. Lives(s, a)
    BY <2>1, <2>2, SubsLive
  <2>4. Lives(s, b) /\ b.mgr = s.mgr
    BY <2>1, <2>2, SubsLive
  <2>5. Lives(s, d)
    BY <2>1, <2>2, SubsLive
  <2>6. Lives(s, t)
    BY <2>1, AddedLives
  <2>7. Lives(b, Added(b, id))
    <3>1. FreeNumbers(b) # {}
      BY <2>4 DEF FreeNumbers
    <3> QED
      BY <2>4, <3>1, AddedLives DEF Lives
  <2>8. \/ y = a \/ y = Added(b, id)
        \/ y = d \/ y = fireOnSubscriptionsUpdated(d)
        \/ y = t \/ y = fireOnSubscriptionsUpdated(t)
        \/ y = s
    <3>01. a = [s EXCEPT !.sbs = k, !.snapshot = more]
      BY <2>1 DEF Clients, Surveyed
    <3>02. b = [s EXCEPT !.sbs = k]
      BY <2>1, SurveyedIs
    <3>03. d = [s EXCEPT !.snapshot = less]
      BY <2>1, SurveyedIs
    <3> HIDE DEF a, b, d, t
    <3>1. a = [s EXCEPT !.sbs = 423, !.snapshot = s.snapshot \cup {id}]
          /\ b = [s EXCEPT !.sbs = 423]
          /\ d = [s EXCEPT !.snapshot = s.snapshot \ {id}]
      BY <3>01, <3>02, <3>03 DEF more, less, k
    <3>2. CASE s.sbs \in {421, 423}
      <4>1. y = InSnapshot(s, id, kind)
        <5>1. s.sbs # 424
          BY <3>2
        <5> QED
          BY <1>3, <3>2, <5>1 DEF evtSUBS_Update
      <4>2. CASE kind = "ADD"
        BY <3>1, <4>1, <4>2 DEF InSnapshot
      <4>3. CASE kind = "STATUS"
        BY <3>1, <4>1, <4>3 DEF InSnapshot
      <4>4. CASE kind \notin {"ADD", "STATUS"}
        BY <4>1, <4>4 DEF InSnapshot
      <4> QED
        BY <4>2, <4>3, <4>4
    <3>3. CASE s.sbs = 424
      <4>1. y = AfterSnapshot(s, id, kind)
        BY <1>3, <3>3 DEF evtSUBS_Update
      <4>2. CASE kind = "DELETE" /\ id \in s.snapshot
        BY <3>1, <4>1, <4>2 DEF AfterSnapshot
      <4>3. CASE kind = "STATUS"
        BY <4>1, <4>3 DEF AfterSnapshot, t
      <4>4. CASE ~(kind = "DELETE" /\ id \in s.snapshot) /\ kind # "STATUS"
        BY <4>1, <4>4 DEF AfterSnapshot
      <4> QED
        BY <4>2, <4>3, <4>4
    <3>4. CASE s.sbs \notin {421, 423, 424}
      BY <1>3, <3>4 DEF evtSUBS_Update
    <3> QED
      BY <3>2, <3>3, <3>4
  <2> HIDE DEF y, a, b, d, t
  <2>9. Lives(s, s)
    BY <2>1, AsideSame DEF Lives
  <2>10. Lives(s, y)
    BY <2>3, <2>4, <2>5, <2>6, <2>7, <2>8, <2>9, LivesOn, MaybeFired
  <2> QED
    BY <2>1, <2>10, LivesMoves DEF y
<1> QED
  BY <1>1, <1>2, <1>3

(* evtSUBS_EOS: the snapshot of the special item is over.                  *)
LEMMA SUBSEOSIs ==
  ASSUME NEW s, Steady(s)
  PROVE  LET y == evtSUBS_EOS(s) IN
         Moves(s, y) /\ y.m = s.m /\ Aside(s, y)
<1> DEFINE y == evtSUBS_EOS(s)
           k == 424
           a == Surveyed(s, k, s.snapshot)
           t == EachManager(a, Item("EOS", None))
<1>1. CASE s.sbs \notin {421, 423}
  <2>1. y = s
    BY <1>1 DEF evtSUBS_EOS
  <2> QED
    BY <2>1, StayStill, AsideSame
<1>2. CASE s.sbs \in {421, 423}
  <2>1. s.m = 405 /\ s \in Clients /\ s.snapshot \in SUBSET Nat /\ k \in Nat
    BY <1>2, ListeningIsActive DEF None
  <2>2. a = [s EXCEPT !.sbs = 424]
    <3> HIDE DEF k
    <3>1. a = [s EXCEPT !.sbs = k]
      BY <2>1, SurveyedIs
    <3> QED
      BY <3>1 DEF k
  <2>3. y = t \/ y = fireOnSubscriptionsUpdated(t)
    BY <1>2, <2>2 DEF evtSUBS_EOS
  <2> HIDE DEF y, k
  <2>4. Lives(s, a)
    BY <2>1, SubsLive
  <2> HIDE DEF a
  <2>5. Lives(a, t)
    BY <2>4, HearWorks, WorksLives DEF Lives
  <2> HIDE DEF t
  <2>6. Lives(s, y)
    BY <2>3, <2>4, <2>5, LivesOn, MaybeFired
  <2> QED
    BY <2>1, <2>6, LivesMoves DEF y
<1> QED
  BY <1>1, <1>2
-----------------------------------------------------------------------------
(* Calls of the application                                                *)

(* The device is active after the call when it was before.                 *)
Proceeds(x, y) == Progress(x, y) /\ (y.m = 405 <=> x.m = 405)

LEMMA MovesProceeds ==
  ASSUME NEW x, NEW y, Moves(x, y), y.m = 405 <=> x.m = 405
  PROVE  Proceeds(x, y)
  BY MovesProgress DEF Proceeds

LEMMA WorksProceeds ==
  ASSUME NEW x, NEW y, Steady(x), Works(x, y),
         AllDormant(x) => y.failed = x.failed /\ (x.m # 405 => AllDormant(y))
  PROVE  Proceeds(x, y)
<1>1. x.m = 405 => x.id # None
  BY SteadyId
<1>2. Progress(x, y)
  BY <1>1, WorksProgress
<1> QED
  BY <1>2 DEF Proceeds, Works, SameDevice

Offered(s, d) == [s EXCEPT !.candidates = Append(@, d)]

LEMMA OfferedIs ==
  ASSUME NEW s, Steady(s), NEW d \in Nat
  PROVE  LET x == Offered(s, d) IN
         /\ Loose(x) /\ RegisterAir(x) /\ x.m = s.m /\ x.tk = s.tk /\ x.candidates # <<>>
         /\ x.mgr = s.mgr /\ x.failed = s.failed /\ x.up = s.up
<1> DEFINE x == Offered(s, d)
           cs == Append(s.candidates, d)
<1>1. s \in Clients /\ AirOK(s) /\ ManagersOK(s) /\ s.candidates \in Seq(Nat)
  BY DEF Steady, ManagersOK, Clients
<1>2. cs \in Seq(Nat) /\ cs # <<>>
  <2> DEFINE q == s.candidates
  <2>1. q \in Seq(Nat)
    BY <1>1
  <2> HIDE DEF q
  <2>2. Append(q, d) \in Seq(Nat) /\ Append(q, d) # <<>>
    BY <2>1, AppendProperties
  <2> QED
    BY <2>2 DEF q
<1>3. x = [s EXCEPT !.candidates = cs]
  BY DEF Offered
<1> HIDE DEF cs, x
<1>4. x \in Clients
  BY <1>1, <1>2, <1>3 DEF Clients
<1>5. /\ x.m = s.m /\ x.tk = s.tk /\ x.sbs = s.sbs /\ x.ft = s.ft /\ x.bg = s.bg /\ x.id = s.id
      /\ x.candidates = cs /\ x.filters = s.filters /\ x.badge = s.badge
      /\ x.mgr = s.mgr /\ x.failed = s.failed /\ x.up = s.up /\ x.out = s.out
      /\ x.replies = s.replies
  BY <1>1, <1>3 DEF Clients
<1>6. DeviceStep(s, x)
  BY <1>1, <1>4, <1>5, DeviceStepQuiet
<1>7. ManagersOK(x)
  BY <1>1, <1>6, DeviceStepKeeps
<1>8. \A kind, n : InAir(x, kind, n) <=> InAir(s, kind, n)
  BY <1>5, InAirSame
<1>9. RegisterAir(x) /\ FilterOK(x) /\ BadgeOK(x) /\ ItemOK(x) /\ RegisterRegion(x)
  BY <1>5, <1>8 DEF Steady, DeviceOK, RegisterOK, RegisterState, RegisterAir, isPendingRegister,
                    FilterOK, FilterState, BadgeOK, BadgeState, ItemOK, RegisterRegion
<1>10. x.m = 405 => NoneWaits(x)
  BY <1>5 DEF Steady, NoneWaits
<1> QED
  BY <1>2, <1>5, <1>7, <1>9, <1>10 DEF Loose, x

Registering(x) ==
    CASE x.m \in {400, 401} -> evtMpnCheckNext([x EXCEPT !.m = 402])
      [] x.tk = 451         -> evtMpnCheckNext([x EXCEPT !.tk = 452])
      [] OTHER              -> x

(* evtExtMpnRegister: a device is offered.                                 *)
LEMMA RegisterForIs ==
  ASSUME NEW s, Steady(s), NEW d \in Nat
  PROVE  Proceeds(s, Registering(Offered(s, d)))
<1> DEFINE x == Offered(s, d)
           y == Registering(x)
<1>1. /\ Loose(x) /\ RegisterAir(x) /\ x.m = s.m /\ x.tk = s.tk /\ x.candidates # <<>>
      /\ x.mgr = s.mgr /\ x.failed = s.failed /\ x.up = s.up
  BY OfferedIs
<1> HIDE DEF x
<1>2. x.m # 405 => x.tk = None
  BY <1>1 DEF Loose, RegisterRegion
<1>3. Moves(x, y) /\ (y.m = 405 <=> x.m = 405)
  <2>1. CASE x.m \in {400, 401}
    <3> DEFINE k == 402
    <3>1. y = evtMpnCheckNext([x EXCEPT !.m = k]) /\ k \in Nat /\ (k = 402 \/ k = 408) /\ x.m # 405
      BY <1>2, <2>1 DEF Registering, None
    <3> HIDE DEF k, y
    <3>2. Moves(x, y) /\ y.m # 405
      BY ONLY <1>1, <3>1, StartNext
    <3> QED
      BY <3>1, <3>2
  <2>2. CASE x.tk = 451
    <3>1. y = evtMpnCheckNext([x EXCEPT !.tk = 452]) /\ x.m = 405
      BY <1>2, <2>2 DEF Registering, None
    <3> HIDE DEF y
    <3>2. Moves(x, y) /\ y.m = 405
      BY ONLY <1>1, <3>1, RenewNext
    <3> QED
      BY <3>1, <3>2
  <2>3. CASE x.m \notin {400, 401} /\ x.tk # 451
    <3>1. y = x
      BY <2>3 DEF Registering
    <3>2. Steady(x)
      BY <1>1, <2>3, LooseIs DEF RegisterOK, RegisterState, Loose, RegisterRegion
    <3>3. Moves(x, x)
      BY <3>2, StayStill
    <3> QED
      BY <3>1, <3>3
  <2> QED
    BY <2>1, <2>2, <2>3
<1> HIDE DEF y
<1>4. Progress(s, y)
  BY <1>1, <1>3, MovesProgress, ProgressFrom
<1> QED
  BY <1>1, <1>3, <1>4 DEF Proceeds, x, y

(* A new push subscription.                                                *)
Subscribing(s, id) ==
    IF s.m = 405 THEN Sent(AddManager(s, Manager(42, id, TRUE)), FreeNumber(s))
    ELSE AddManager(s, Manager(41, id, TRUE))

(* subscribeMpn: a manager is added and, of an active device, activated.   *)
LEMMA SubscribeIs ==
  ASSUME NEW s, Steady(s), FreeNumbers(s) # {}, NEW id \in Nat
  PROVE  Proceeds(s, Subscribing(s, id)) /\ Aside(s, Subscribing(s, id))
<1> DEFINE n == FreeNumber(s)
           y == Subscribing(s, id)
<1>1. s \in Clients /\ AirOK(s) /\ ManagersOK(s) /\ DeviceOK(s)
  BY DEF Steady, ManagersOK
<1>2. TRUE \in BOOLEAN
  OBVIOUS
<1>3. CASE s.m = 405
  <2> DEFINE m == 42
             mgr == Manager(m, id, TRUE)
             a == AddManager(s, mgr)
  <2>1. m \in 41..45 /\ y = Sent(a, n)
    BY <1>3 DEF Subscribing
  <2>2. mgr \in Managers /\ ManagerOK(mgr) /\ mgr.m = m
    BY <2>1, <1>2, NewManagerIs
  <2> HIDE DEF mgr
  <2>3. /\ a \in Clients /\ AirOK(a) /\ SameDevice(s, a)
        /\ DOMAIN a.mgr = DOMAIN s.mgr \cup {n} /\ a.mgr[n] = mgr /\ n \notin DOMAIN s.mgr
        /\ \A k \in DOMAIN s.mgr : a.mgr[k] = s.mgr[k]
        /\ a.out = s.out /\ a.replies = s.replies /\ a.failed = s.failed
    BY <1>1, <2>2, AddManagerIs
  <2> HIDE DEF a, y, n
  <2>4. \A kind, k : InAir(a, kind, k) <=> InAir(s, kind, k)
    BY <2>3, InAirSame
  <2>5. /\ y \in Clients /\ AirOK(y) /\ SameDevice(a, y) /\ Untouched(a, y) /\ y.mgr = a.mgr
        /\ \A kind, k : InAir(a, kind, k) => InAir(y, kind, k)
        /\ a.up => InAir(y, KindOf(a.mgr[n]), n)
        /\ a.id # None \/ ~a.up => y.failed = a.failed
    BY <2>1, <2>3, SentIs
  <2>6. Handled(a, y, n)
    <3>1. OnlyManager(a, y, n)
      BY <2>3, <2>5 DEF OnlyManager
    <3>2. ManagerOK(y.mgr[n]) /\ ManagerSent(y, n)
      BY <2>2, <2>3, <2>5 DEF ManagerSent, SameDevice
    <3> QED
      BY <3>1, <3>2 DEF Handled
  <2>7. DeviceOK(a)
    BY <1>1, <2>3, <2>4, DeviceKept
  <2>8. \A k \in DOMAIN a.mgr \ {n} : ManagerOK(a.mgr[k]) /\ ManagerSent(a, k)
    BY <1>1, <2>3, <2>4 DEF ManagersOK, ManagerSent, SameDevice
  <2>9. NoneWaits(a) /\ y.mgr[n].m = 42 /\ n \in DOMAIN a.mgr
    BY <1>3, <2>2, <2>3, <2>5 DEF Steady, NoneWaits, m
  <2>10. Works(a, y)
    BY <2>3, <2>6, <2>7, <2>8, <2>9, HandledWorks
  <2>11. Works(s, y)
    <3>1. Untouched(s, y)
      BY <2>3, <2>5, UntouchedSame, UntouchedTransitive
    <3> QED
      BY <2>3, <2>10, <3>1, SameDeviceTransitive DEF Works, SameDevice
  <2>12. y.failed = s.failed
    BY <1>3, <2>11, SteadyId DEF Works
  <2> QED
    BY <1>3, <2>11, <2>12, WorksProceeds, WorksAside DEF y
<1>4. CASE s.m # 405
  <2> DEFINE m == 41
             mgr == Manager(m, id, TRUE)
  <2>1. m \in 41..45 /\ y = AddManager(s, mgr)
    BY <1>4 DEF Subscribing
  <2>2. mgr \in Managers /\ ManagerOK(mgr) /\ mgr.m = m
    BY <2>1, <1>2, NewManagerIs
  <2> HIDE DEF mgr
  <2>3. Dormant(mgr)
    BY <2>2 DEF Dormant, m
  <2>4. Works(s, y) /\ y.failed = s.failed /\ (AllDormant(s) => AllDormant(y))
    BY <1>4, <2>1, <2>2, <2>3, AddedSteady
  <2> QED
    BY <2>4, WorksProceeds, WorksAside
<1> QED
  BY <1>3, <1>4

(* A call for one manager.                                                 *)
LEMMA HandledProceeds ==
  ASSUME NEW s, Steady(s), NEW n \in DOMAIN s.mgr, NEW y, Handled(s, y, n), Undisturbed(s, y, n),
         n \in DOMAIN y.mgr => (y.mgr[n].m = 41 => s.mgr[n].m = 41)
  PROVE  Proceeds(s, y) /\ Aside(s, y)
<1>1. s \in Clients /\ DeviceOK(s) /\ (s.m = 405 => NoneWaits(s))
      /\ \A k \in DOMAIN s.mgr : ManagerOK(s.mgr[k]) /\ ManagerSent(s, k)
  BY DEF Steady, ManagersOK
<1>2. Works(s, y)
  BY <1>1, HandledWorks
<1>3. AllDormant(s) => y.failed = s.failed /\ AllDormant(y)
  <2> SUFFICES ASSUME AllDormant(s) PROVE y.failed = s.failed /\ AllDormant(y)
    OBVIOUS
  <2>1. Dormant(s.mgr[n])
    BY DEF AllDormant
  <2>2. DOMAIN y.mgr \cup {n} = DOMAIN s.mgr /\ \A k \in DOMAIN y.mgr \ {n} : y.mgr[k] = s.mgr[k]
    BY DEF Handled, OnlyManager
  <2> QED
    BY <2>1, <2>2 DEF Undisturbed, AllDormant
<1> QED
  BY <1>2, <1>3, WorksProceeds, WorksAside

LEMMA SteadyManager ==
  ASSUME NEW s, Steady(s), NEW n \in DOMAIN s.mgr
  PROVE  ManagerIs(s, n)
<1>1. ManagersOK(s)
  BY DEF Steady
<1> QED
  BY <1>1, ManagersAre

(* unsubscribeMpn and the setters.                                         *)
LEMMA CallsOfManager ==
  ASSUME NEW s, Steady(s), NEW n \in DOMAIN s.mgr
  PROVE  /\ Proceeds(s, evtExtMpnUnsubscribe(s, n)) /\ Aside(s, evtExtMpnUnsubscribe(s, n))
         /\ \A part \in Parts, value \in Nat :
               LET y == evtExtMpnSet(s, n, part, value) IN Proceeds(s, y) /\ Aside(s, y)
<1>1. ManagerIs(s, n)
  BY SteadyManager
<1>2. Proceeds(s, evtExtMpnUnsubscribe(s, n)) /\ Aside(s, evtExtMpnUnsubscribe(s, n))
  <2> DEFINE y == evtExtMpnUnsubscribe(s, n)
  <2>1. /\ Handled(s, y, n) /\ Undisturbed(s, y, n)
        /\ n \in DOMAIN y.mgr => y.mgr[n].m # 41
    BY <1>1, UnsubscribeIs
  <2> HIDE DEF y
  <2>2. Proceeds(s, y) /\ Aside(s, y)
    BY <2>1, HandledProceeds
  <2> QED
    BY <2>2 DEF y
<1>3. ASSUME NEW part \in Parts, NEW value \in Nat
      PROVE  LET y == evtExtMpnSet(s, n, part, value) IN Proceeds(s, y) /\ Aside(s, y)
  <2> DEFINE y == evtExtMpnSet(s, n, part, value)
  <2>1. /\ Handled(s, y, n) /\ Undisturbed(s, y, n)
        /\ n \in DOMAIN y.mgr /\ y.mgr[n].m = s.mgr[n].m
    BY <1>1, SetIs
  <2> HIDE DEF y
  <2>2. Proceeds(s, y) /\ Aside(s, y)
    BY <2>1, HandledProceeds
  <2> QED
    BY <2>2 DEF y
<1> QED
  BY <1>2, <1>3
(* A call for the filter, and one for the badge.                           *)
Filtering(s) ==
    LET t == [s EXCEPT !.filters = @ + 1]
    IN IF t.ft = 431 THEN evtMpnCheckFilter([t EXCEPT !.ft = 430]) ELSE t

(* unsubscribeMpnSubscriptions.                                            *)
LEMMA FilteringIs ==
  ASSUME NEW s, Steady(s)
  PROVE  Proceeds(s, Filtering(s)) /\ Aside(s, Filtering(s))
<1> DEFINE more == s.filters + 1
           k == IF s.ft = 431 THEN 430 ELSE s.ft
           x == [s EXCEPT !.filters = more, !.ft = k]
           y == Filtering(s)
<1>1. s \in Clients /\ AirOK(s) /\ ManagersOK(s) /\ s.filters \in Nat /\ s.ft \in Nat
      /\ DeviceOK(s) /\ (s.m = 405 => NoneWaits(s))
  BY DEF Steady, ManagersOK, Clients
<1>2. more \in Nat /\ more # 0 /\ k \in Nat
  BY <1>1
<1>3. y = IF s.ft = 431 THEN evtMpnCheckFilter(x) ELSE x
  <2> DEFINE t == [s EXCEPT !.filters = more]
  <2>1. y = IF t.ft = 431 THEN evtMpnCheckFilter([t EXCEPT !.ft = 430]) ELSE t
    BY DEF Filtering
  <2> HIDE DEF y, more
  <2>2. t.ft = s.ft
    BY <1>1 DEF Clients
  <2>3. CASE s.ft = 431
    <3>1. x = [t EXCEPT !.ft = 430]
      BY <2>3, <1>1 DEF Clients
    <3> QED
      BY <2>1, <2>2, <2>3, <3>1
  <2>4. CASE s.ft # 431
    <3>1. x = t
      BY <2>4, <1>1 DEF Clients
    <3> QED
      BY <2>1, <2>2, <2>4, <3>1
  <2> QED
    BY <2>3, <2>4
<1> HIDE DEF more, k, y
<1>4. x \in Clients
  BY <1>1, <1>2 DEF Clients
<1>5. /\ x.m = s.m /\ x.tk = s.tk /\ x.candidates = s.candidates /\ x.id = s.id /\ x.sbs = s.sbs
      /\ x.failed = s.failed /\ x.ft = k /\ x.filters = more /\ x.bg = s.bg /\ x.badge = s.badge
      /\ x.mgr = s.mgr /\ x.up = s.up /\ x.out = s.out /\ x.replies = s.replies
      /\ x.token = s.token /\ x.device = s.device
  BY <1>1 DEF Clients
<1> HIDE DEF x
<1>6. DeviceStep(s, x)
  BY <1>1, <1>4, <1>5, DeviceStepQuiet
<1>7. Core(s, x)
  BY <1>5, <1>6 DEF Core
<1>11. Aside(s, x)
  BY <1>5, AsideSame
<1>8. RegisterOK(x) /\ BadgeOK(x) /\ ItemOK(x)
  BY <1>1, <1>5, <1>7, CoreKeeps DEF DeviceOK
<1>9. CASE s.ft = 431
  <2>1. y = evtMpnCheckFilter(x) /\ x.ft = 430 /\ s.m = 405
    BY <1>1, <1>3, <1>5, <1>9 DEF k, DeviceOK, FilterOK, FilterState, None
  <2>2. AirOK(x) /\ x.m = 405 /\ x.id # None
    BY <1>5, <1>6, <2>1, SteadyId DEF DeviceStep
  <2>3. Core(x, y) /\ FilterOK(y) /\ y.bg = x.bg /\ y.badge = x.badge /\ Aside(x, y)
    BY <1>4, <2>1, <2>2, CheckFilterIs
  <2>4. DeviceOK(y)
    BY <1>8, <2>3, CoreKeeps DEF DeviceOK
  <2>5. DeviceStep(s, y) /\ y.m = s.m /\ y.failed = s.failed
    BY <1>5, <1>6, <2>3, DeviceStepTransitive DEF Core
  <2>6. Moves(s, y)
    BY <1>1, <2>4, <2>5, RegionMoves
  <2>7. Aside(s, y)
    BY <1>11, <2>3, AsideTransitive
  <2> QED
    BY <2>5, <2>6, <2>7, MovesProceeds DEF y
<1>10. CASE s.ft # 431
  <2>1. y = x /\ x.ft = s.ft
    BY <1>3, <1>5, <1>10 DEF k
  <2>2. FilterOK(x)
    <3>1. \A kind, n : InAir(x, kind, n) <=> InAir(s, kind, n)
      BY <1>5, InAirSame
    <3> QED
      BY <1>1, <1>2, <1>5, <1>10, <2>1, <3>1 DEF DeviceOK, FilterOK, FilterState
  <2>3. Moves(s, x)
    BY <1>1, <1>5, <1>6, <1>8, <2>2, RegionMoves DEF DeviceOK
  <2> QED
    BY <1>5, <1>11, <2>1, <2>3, MovesProceeds DEF y
<1> QED
  BY <1>9, <1>10

Badging(s) ==
    LET t == [s EXCEPT !.badge = TRUE]
    IN IF t.bg = 441 THEN evtMpnCheckReset([t EXCEPT !.bg = 440]) ELSE t

(* resetBadge.                                                             *)
LEMMA BadgingIs ==
  ASSUME NEW s, Steady(s)
  PROVE  Proceeds(s, Badging(s)) /\ Aside(s, Badging(s))
<1> DEFINE yes == TRUE
           k == IF s.bg = 441 THEN 440 ELSE s.bg
           x == [s EXCEPT !.badge = yes, !.bg = k]
           y == Badging(s)
<1>1. s \in Clients /\ AirOK(s) /\ ManagersOK(s) /\ s.bg \in Nat
      /\ DeviceOK(s) /\ (s.m = 405 => NoneWaits(s))
  BY DEF Steady, ManagersOK, Clients
<1>2. yes \in BOOLEAN /\ k \in Nat
  BY <1>1
<1>3. y = IF s.bg = 441 THEN evtMpnCheckReset(x) ELSE x
  <2> DEFINE t == [s EXCEPT !.badge = yes]
  <2>1. y = IF t.bg = 441 THEN evtMpnCheckReset([t EXCEPT !.bg = 440]) ELSE t
    BY DEF Badging
  <2> HIDE DEF y, yes
  <2>2. t.bg = s.bg
    BY <1>1 DEF Clients
  <2>3. CASE s.bg = 441
    <3>1. x = [t EXCEPT !.bg = 440]
      BY <2>3, <1>1 DEF Clients
    <3> QED
      BY <2>1, <2>2, <2>3, <3>1
  <2>4. CASE s.bg # 441
    <3>1. x = t
      BY <2>4, <1>1 DEF Clients
    <3> QED
      BY <2>1, <2>2, <2>4, <3>1
  <2> QED
    BY <2>3, <2>4
<1> HIDE DEF yes, k, y
<1>4. x \in Clients
  BY <1>1, <1>2 DEF Clients
<1>5. /\ x.m = s.m /\ x.tk = s.tk /\ x.candidates = s.candidates /\ x.id = s.id /\ x.sbs = s.sbs
      /\ x.failed = s.failed /\ x.ft = s.ft /\ x.filters = s.filters /\ x.bg = k
      /\ x.mgr = s.mgr /\ x.up = s.up /\ x.out = s.out /\ x.replies = s.replies
      /\ x.token = s.token /\ x.device = s.device
  BY <1>1 DEF Clients
<1> HIDE DEF x
<1>6. DeviceStep(s, x)
  BY <1>1, <1>4, <1>5, DeviceStepQuiet
<1>7. Core(s, x)
  BY <1>5, <1>6 DEF Core
<1>11. Aside(s, x)
  BY <1>5, AsideSame
<1>8. RegisterOK(x) /\ FilterOK(x) /\ ItemOK(x)
  BY <1>1, <1>5, <1>7, CoreKeeps DEF DeviceOK
<1>9. CASE s.bg = 441
  <2>1. y = evtMpnCheckReset(x) /\ x.bg = 440 /\ s.m = 405
    BY <1>1, <1>3, <1>5, <1>9 DEF k, DeviceOK, BadgeOK, BadgeState, None
  <2>2. AirOK(x) /\ x.m = 405 /\ x.id # None
    BY <1>5, <1>6, <2>1, SteadyId DEF DeviceStep
  <2>3. Core(x, y) /\ BadgeOK(y) /\ y.ft = x.ft /\ y.filters = x.filters /\ Aside(x, y)
    BY <1>4, <2>1, <2>2, CheckResetIs
  <2>4. DeviceOK(y)
    BY <1>8, <2>3, CoreKeeps DEF DeviceOK
  <2>5. DeviceStep(s, y) /\ y.m = s.m /\ y.failed = s.failed
    BY <1>5, <1>6, <2>3, DeviceStepTransitive DEF Core
  <2>6. Moves(s, y)
    BY <1>1, <2>4, <2>5, RegionMoves
  <2>7. Aside(s, y)
    BY <1>11, <2>3, AsideTransitive
  <2> QED
    BY <2>5, <2>6, <2>7, MovesProceeds DEF y
<1>10. CASE s.bg # 441
  <2>1. y = x /\ x.bg = s.bg
    BY <1>3, <1>5, <1>10 DEF k
  <2>2. BadgeOK(x)
    <3>1. \A kind, n : InAir(x, kind, n) <=> InAir(s, kind, n)
      BY <1>5, InAirSame
    <3> QED
      BY <1>1, <1>5, <1>10, <2>1, <3>1 DEF DeviceOK, BadgeOK, BadgeState
  <2>3. Moves(s, x)
    BY <1>1, <1>5, <1>6, <1>8, <2>2, RegionMoves DEF DeviceOK
  <2> QED
    BY <1>5, <1>11, <2>1, <2>3, MovesProceeds DEF y
<1> QED
  BY <1>9, <1>10

Connecting(s) == IF s.m = 401 /\ s.device # None THEN [s EXCEPT !.m = 403] ELSE s

(* connect: the device offered meanwhile is registered.                    *)
LEMMA ConnectingIs ==
  ASSUME NEW s, Steady(s), ~s.up
  PROVE  Proceeds(s, Connecting(s))
<1> DEFINE y == Connecting(s)
           k == 403
<1>1. s \in Clients /\ AirOK(s) /\ ManagersOK(s) /\ k \in Nat
  BY DEF Steady, ManagersOK
<1>2. CASE s.m = 401 /\ s.device # None
  <2>1. y = [s EXCEPT !.m = k]
    BY <1>2 DEF Connecting
  <2> HIDE DEF y, k
  <2>2. y \in Clients /\ Stays(s, y) /\ y.m = k /\ y.tk = s.tk
    BY <1>1, <2>1, SetM
  <2>3. DeviceStep(s, y)
    BY <1>1, <2>2, StaysStep
  <2>4. Loose(s)
    BY LooseIs
  <2>5. Inactive(y) /\ y.tk = None /\ y.failed = s.failed /\ ~y.up
    BY <1>2, <2>2, <2>4, LooseInactive DEF Stays, Inactive, k
  <2>6. RegisterOK(y)
    BY <2>2, <2>5 DEF RegisterOK, RegisterState, RegisterAir, k, None
  <2>7. Moves(s, y) /\ (y.m = 405 => s.m = 405)
    BY <1>2, <2>3, <2>4, <2>5, <2>6, RegistrationMoves
  <2> QED
    BY <1>2, <2>7, MovesProceeds DEF y
<1>3. CASE ~(s.m = 401 /\ s.device # None)
  BY <1>3, StayStill, MovesProceeds DEF Connecting
<1> QED
  BY <1>2, <1>3
-----------------------------------------------------------------------------
(* A channel is there: all that is pending is sent                         *)

(* getPendingControls, part by part.                                       *)
Among(q, r) == \E j \in DOMAIN q : q[j] = r

LEMMA AmongBoth ==
  ASSUME NEW S, NEW a \in Seq(S), NEW b \in Seq(S)
  PROVE  /\ a \o b \in Seq(S)
         /\ \A r : Among(a \o b, r) <=> Among(a, r) \/ Among(b, r)
<1> DEFINE q == a \o b
<1>1. q \in Seq(S) /\ Len(a) \in Nat /\ Len(b) \in Nat /\ Len(q) = Len(a) + Len(b)
  BY ConcatProperties
<1>2. DOMAIN q = 1..Len(q) /\ DOMAIN a = 1..Len(a) /\ DOMAIN b = 1..Len(b)
  BY <1>1, LenProperties
<1>3. \A i \in 1..Len(a) : q[i] = a[i]
  BY ConcatProperties
<1>4. \A j \in 1..Len(b) : q[Len(a) + j] = b[j]
  BY <1>1
<1> HIDE DEF q
<1>5. ASSUME NEW r, Among(q, r) PROVE Among(a, r) \/ Among(b, r)
  <2>1. PICK i \in 1..Len(q) : q[i] = r
    BY <1>2, <1>5 DEF Among
  <2>2. CASE i <= Len(a)
    <3>1. i \in 1..Len(a) /\ a[i] = r
      BY <1>1, <1>3, <2>1, <2>2
    <3> QED
      BY <1>2, <3>1 DEF Among
  <2>3. CASE i > Len(a)
    <3>1. i - Len(a) \in 1..Len(b) /\ Len(a) + (i - Len(a)) = i
      BY <1>1, <2>1, <2>3
    <3>2. b[i - Len(a)] = r
      BY <1>4, <2>1, <3>1
    <3> QED
      BY <1>2, <3>1, <3>2 DEF Among
  <2> QED
    BY <1>1, <2>2, <2>3
<1>6. ASSUME NEW r, Among(a, r) PROVE Among(q, r)
  <2>1. PICK i \in 1..Len(a) : a[i] = r
    BY <1>2, <1>6 DEF Among
  <2>2. i \in 1..Len(q) /\ q[i] = r
    BY <1>1, <1>3, <2>1
  <2> QED
    BY <1>2, <2>2 DEF Among
<1>7. ASSUME NEW r, Among(b, r) PROVE Among(q, r)
  <2>1. PICK j \in 1..Len(b) : b[j] = r
    BY <1>2, <1>7 DEF Among
  <2>2. Len(a) + j \in 1..Len(q) /\ q[Len(a) + j] = r
    BY <1>1, <1>4, <2>1
  <2> QED
    BY <1>2, <2>2 DEF Among
<1> QED
  BY <1>1, <1>5, <1>6, <1>7 DEF q

Perhaps(cond, req) == IF cond THEN <<req>> ELSE <<>>

LEMMA PerhapsIs ==
  ASSUME NEW S, NEW cond \in BOOLEAN, NEW req \in S
  PROVE  /\ Perhaps(cond, req) \in Seq(S)
         /\ \A r : Among(Perhaps(cond, req), r) <=> cond /\ r = req
<1>1. <<req>> \in Seq(S) /\ <<>> \in Seq(S) /\ DOMAIN <<req>> = {1} /\ <<req>>[1] = req
      /\ DOMAIN <<>> = {}
  OBVIOUS
<1>2. CASE cond
  BY <1>1, <1>2 DEF Perhaps, Among
<1>3. CASE ~cond
  BY <1>1, <1>3 DEF Perhaps, Among
<1> QED
  BY <1>2, <1>3

(* The requests of the managers that have one.                             *)
Asking(s) == {n \in DOMAIN s.mgr : isPending(s.mgr[n])}
ManagerRequests(s) == [i \in DOMAIN InOrder(Asking(s)) |-> ManagerRequest(s, InOrder(Asking(s))[i])]

LEMMA ManagerRequestIs ==
  ASSUME NEW s \in Clients, NEW n \in DOMAIN s.mgr
  PROVE  LET req == ManagerRequest(s, n) IN
         req \in Requests /\ req.kind = KindOf(s.mgr[n]) /\ req.n = n /\ req.last
<1> DEFINE req == ManagerRequest(s, n)
<1>1. KindOf(s.mgr[n]) \in Kinds /\ req = Request(s, KindOf(s.mgr[n]), n)
  BY DEF KindOf, Kinds, ManagerRequest
<1> QED
  BY <1>1, RequestIs

LEMMA ManagerRequestsAre ==
  ASSUME NEW s, ManagersOK(s)
  PROVE  /\ ManagerRequests(s) \in Seq(Requests)
         /\ \A r : Among(ManagerRequests(s), r) <=> \E n \in Asking(s) : r = ManagerRequest(s, n)
<1> DEFINE P == Asking(s)
           N == Cardinality(P)
           q == ManagerRequests(s)
<1>1. s \in Clients /\ DOMAIN s.mgr \in SUBSET Nat /\ IsFiniteSet(DOMAIN s.mgr)
  BY ManagersAre
<1>2. P \in SUBSET Nat /\ P \subseteq DOMAIN s.mgr
  BY <1>1 DEF Asking
<1>3. IsFiniteSet(P)
  BY <1>1, <1>2, FS_Subset
<1> HIDE DEF P
<1>4. /\ N \in Nat
      /\ \A i \in 1..N : Nth(P, i) \in P
      /\ \A n \in P : PlaceIn(P, n) \in 1..N /\ Nth(P, PlaceIn(P, n)) = n
  BY <1>2, <1>3, NthIs
<1>5. DOMAIN InOrder(P) = 1..N /\ \A i \in 1..N : InOrder(P)[i] = Nth(P, i)
  BY DEF InOrder
<1>6. q = [i \in 1..N |-> ManagerRequest(s, Nth(P, i))]
  BY <1>5 DEF ManagerRequests, P
<1> HIDE DEF q, N
<1>7. \A i \in 1..N : ManagerRequest(s, Nth(P, i)) \in Requests
  BY <1>1, <1>2, <1>4, ManagerRequestIs
<1>8. q \in [1..N -> Requests] /\ DOMAIN q = 1..N
  BY <1>6, <1>7
<1>9. q \in Seq(Requests)
  BY <1>4, <1>8
<1>10. ASSUME NEW r, Among(q, r) PROVE \E n \in P : r = ManagerRequest(s, n)
  <2>1. PICK i \in 1..N : q[i] = r
    BY <1>8, <1>10 DEF Among
  <2> QED
    BY <1>4, <1>6, <2>1
<1>11. ASSUME NEW n \in P PROVE Among(q, ManagerRequest(s, n))
  BY <1>4, <1>6, <1>8 DEF Among
<1> QED
  BY <1>9, <1>10, <1>11 DEF q, P

Wanted(s, r) ==
    \/ isPendingRegister(s) /\ r = Request(s, "register", None)
    \/ \E n \in Asking(s) : r = ManagerRequest(s, n)
    \/ s.ft = 432 /\ r = Request(s, "filter", None)
    \/ s.bg = 442 /\ r = Request(s, "badge", None)

(* The requests that are pending, and no others.                           *)
LEMMA PendingControlsAre ==
  ASSUME NEW s, ManagersOK(s)
  PROVE  /\ getPendingControls(s) \in Seq(Requests)
         /\ \A r : Among(getPendingControls(s), r) <=> Wanted(s, r)
<1> DEFINE q1 == Perhaps(isPendingRegister(s), Request(s, "register", None))
           q2 == ManagerRequests(s)
           filter == s.ft = 432
           badge == s.bg = 442
           q3 == Perhaps(filter, Request(s, "filter", None))
           q4 == Perhaps(badge, Request(s, "badge", None))
           q == q1 \o q2 \o q3
<1>1. getPendingControls(s) = q1 \o q2 \o q3 \o q4
  BY DEF getPendingControls, Perhaps, ManagerRequests, Asking
<1>2. \A kind \in {"register", "filter", "badge"} : Request(s, kind, None) \in Requests
  BY RequestIs DEF Kinds, ManagersOK
<1>0. filter \in BOOLEAN /\ badge \in BOOLEAN /\ isPendingRegister(s) \in BOOLEAN
  BY DEF isPendingRegister
<1> HIDE DEF filter, badge
<1>3. q1 \in Seq(Requests) /\ \A r : Among(q1, r) <=> isPendingRegister(s) /\ r = Request(s, "register", None)
  BY <1>0, <1>2, PerhapsIs
<1>4. q2 \in Seq(Requests) /\ \A r : Among(q2, r) <=> \E n \in Asking(s) : r = ManagerRequest(s, n)
  BY ManagerRequestsAre
<1>5. q3 \in Seq(Requests) /\ \A r : Among(q3, r) <=> filter /\ r = Request(s, "filter", None)
  <2>1. Request(s, "filter", None) \in Requests
    BY <1>2
  <2> QED
    BY ONLY <1>0, <2>1, PerhapsIs
<1>6. q4 \in Seq(Requests) /\ \A r : Among(q4, r) <=> badge /\ r = Request(s, "badge", None)
  <2>1. Request(s, "badge", None) \in Requests
    BY <1>2
  <2> QED
    BY ONLY <1>0, <2>1, PerhapsIs
<1> HIDE DEF q1, q2, q3, q4
<1>7. q1 \o q2 \in Seq(Requests) /\ \A r : Among(q1 \o q2, r) <=> Among(q1, r) \/ Among(q2, r)
  BY <1>3, <1>4, AmongBoth
<1>8. q \in Seq(Requests) /\ \A r : Among(q, r) <=> Among(q1 \o q2, r) \/ Among(q3, r)
  BY <1>5, <1>7, AmongBoth
<1>9. getPendingControls(s) = q \o q4
  BY <1>1
<1> HIDE DEF q
<1>10. /\ q \o q4 \in Seq(Requests)
       /\ \A r : Among(q \o q4, r) <=> Among(q, r) \/ Among(q4, r)
  BY <1>6, <1>8, AmongBoth
<1> QED
  BY <1>3, <1>4, <1>5, <1>6, <1>7, <1>8, <1>9, <1>10 DEF Wanted, filter, badge
(* What a pending request says.                                            *)
LEMMA WantedIs ==
  ASSUME NEW s, ManagersOK(s), NEW r, Wanted(s, r)
  PROVE  /\ r \in Requests /\ r.last
         /\ r.kind \in DeviceKinds => r.n = None
         /\ r.kind \notin DeviceKinds => r.n \in Asking(s) /\ r.kind = KindOf(s.mgr[r.n])
         /\ r.kind = "register" => isPendingRegister(s)
         /\ r.kind = "filter" => s.ft = 432
         /\ r.kind = "badge" => s.bg = 442
<1>1. s \in Clients
  BY DEF ManagersOK
<1>2. ASSUME NEW kind \in DeviceKinds, r = Request(s, kind, None)
      PROVE  r \in Requests /\ r.kind = kind /\ r.n = None /\ r.last
  <2>1. kind \in Kinds
    BY DEF DeviceKinds, Kinds
  <2> QED
    BY <1>1, <1>2, <2>1, RequestIs
<1>3. CASE isPendingRegister(s) /\ r = Request(s, "register", None)
  <2>1. "register" \in DeviceKinds
    BY DEF DeviceKinds
  <2> QED
    BY <1>2, <1>3, <2>1
<1>4. CASE \E n \in Asking(s) : r = ManagerRequest(s, n)
  <2>1. PICK n \in Asking(s) : r = ManagerRequest(s, n)
    BY <1>4
  <2>2. n \in DOMAIN s.mgr
    BY DEF Asking
  <2>3. r \in Requests /\ r.kind = KindOf(s.mgr[n]) /\ r.n = n /\ r.last
    BY <1>1, <2>1, <2>2, ManagerRequestIs
  <2>4. r.kind \notin DeviceKinds
    BY <2>3 DEF KindOf, DeviceKinds
  <2> QED
    BY <2>3, <2>4 DEF DeviceKinds
<1>5. CASE s.ft = 432 /\ r = Request(s, "filter", None)
  <2>1. "filter" \in DeviceKinds
    BY DEF DeviceKinds
  <2> QED
    BY <1>2, <1>5, <2>1
<1>6. CASE s.bg = 442 /\ r = Request(s, "badge", None)
  <2>1. "badge" \in DeviceKinds
    BY DEF DeviceKinds
  <2> QED
    BY <1>2, <1>6, <2>1
<1> QED
  BY <1>3, <1>4, <1>5, <1>6 DEF Wanted

(* With a channel every pending request is in the air.                     *)
LEMMA PendingInAir ==
  ASSUME NEW s, Steady(s), s.up
  PROVE  LET pending == getPendingControls(s) IN
         \A i \in DOMAIN pending : InAir(s, pending[i].kind, pending[i].n)
<1> DEFINE q == getPendingControls(s)
<1>1. ManagersOK(s) /\ DeviceOK(s)
  BY DEF Steady
<1>2. \A r : Among(q, r) <=> Wanted(s, r)
  BY <1>1, PendingControlsAre
<1> HIDE DEF q
<1>3. ASSUME NEW i \in DOMAIN q PROVE InAir(s, q[i].kind, q[i].n)
  <2> DEFINE r == q[i]
  <2>1. Wanted(s, r)
    BY <1>2 DEF Among
  <2> HIDE DEF r
  <2>2. /\ r \in Requests /\ r.last
        /\ r.kind \in DeviceKinds => r.n = None
        /\ r.kind \notin DeviceKinds => r.n \in Asking(s) /\ r.kind = KindOf(s.mgr[r.n])
        /\ r.kind = "register" => isPendingRegister(s)
        /\ r.kind = "filter" => s.ft = 432
        /\ r.kind = "badge" => s.bg = 442
    BY <1>1, <2>1, WantedIs
  <2>3. CASE r.kind \in DeviceKinds
    BY <1>1, <2>2, <2>3 DEF DeviceKinds, DeviceOK, RegisterOK, RegisterAir, FilterOK, BadgeOK, r
  <2>4. CASE r.kind \notin DeviceKinds
    BY <1>1, <2>2, <2>4 DEF ManagersOK, ManagerSent, Asking, r
  <2> QED
    BY <2>3, <2>4
<1> QED
  BY <1>3 DEF q

(* evtSendPendingControls: afterwards all that is pending is in the air.   *)
LEMMA ChannelIs ==
  ASSUME NEW s, Steady(s)
  PROVE  LET y == evtSendPendingControls(s) IN
         /\ Steady(y) /\ y.up /\ y.m = s.m /\ y.mgr = s.mgr
         /\ s.m = 405 \/ AllDormant(s) => y.failed = s.failed
<1> DEFINE yes == TRUE
           x == [s EXCEPT !.up = yes]
           q == getPendingControls(s)
           y == evtSendPendingControls(s)
<1>1. s \in Clients /\ AirOK(s) /\ ManagersOK(s) /\ DeviceOK(s) /\ yes \in BOOLEAN
  BY DEF Steady, ManagersOK
<1>2. y = encode(x, q)
  BY DEF evtSendPendingControls
<1>3. q \in Seq(Requests) /\ \A r : Among(q, r) <=> Wanted(s, r)
  BY <1>1, PendingControlsAre
<1> HIDE DEF q, y
<1>4. x \in Clients
  BY <1>1 DEF Clients
<1>5. /\ x.m = s.m /\ x.tk = s.tk /\ x.sbs = s.sbs /\ x.ft = s.ft /\ x.bg = s.bg /\ x.id = s.id
      /\ x.candidates = s.candidates /\ x.filters = s.filters /\ x.badge = s.badge
      /\ x.mgr = s.mgr /\ x.failed = s.failed /\ x.up /\ x.out = s.out /\ x.replies = s.replies
  BY <1>1 DEF Clients
<1> HIDE DEF x, yes
<1>6. \A kind, n : InAir(x, kind, n) <=> InAir(s, kind, n)
  BY <1>5, InAirSame
<1>7. \A j \in DOMAIN q : Wanted(s, q[j])
  BY <1>3 DEF Among
<1>8. \A j \in DOMAIN q :
         /\ q[j].last
         /\ q[j].kind \in DeviceKinds => q[j].n = None
         /\ q[j].kind \notin DeviceKinds =>
               q[j].n \in Asking(s) /\ q[j].kind = KindOf(s.mgr[q[j].n])
         /\ q[j].kind = "filter" => s.ft = 432
         /\ q[j].kind = "badge" => s.bg = 442
  BY <1>1, <1>7, WantedIs
<1>9. /\ y \in Clients /\ SameDevice(x, y) /\ y.mgr = x.mgr
      /\ \A kind, n : InAir(x, kind, n) => InAir(y, kind, n)
      /\ \A j \in DOMAIN q : InAir(y, q[j].kind, q[j].n)
      /\ \A kind, n : InAir(y, kind, n) =>
            InAir(x, kind, n) \/ \E j \in DOMAIN q : q[j].kind = kind /\ q[j].n = n
      /\ y.failed = (x.failed \/ (x.id = None /\ \E j \in DOMAIN q : q[j].kind # "register"))
  BY <1>2, <1>3, <1>4, <1>8, EncodeIs
<1>10. \A r : Wanted(s, r) => InAir(y, r.kind, r.n)
  BY <1>3, <1>9 DEF Among
<1>11. ManagersOK(y)
  <2>1. AirOK(y)
    <3>1. SUFFICES ASSUME NEW kind \in ManagerKinds, NEW n \in 0..MaxManagers, InAir(y, kind, n)
                   PROVE  n \in DOMAIN y.mgr
      BY DEF AirOK
    <3>2. CASE InAir(x, kind, n)
      BY <1>1, <1>5, <1>6, <1>9, <3>2 DEF AirOK
    <3>3. CASE \E j \in DOMAIN q : q[j].kind = kind /\ q[j].n = n
      BY <1>5, <1>8, <1>9, <3>3 DEF ManagerKinds, DeviceKinds, Asking
    <3> QED
      BY <1>9, <3>1, <3>2, <3>3
  <2>2. ASSUME NEW n \in DOMAIN s.mgr, isPending(s.mgr[n])
        PROVE  InAir(y, KindOf(s.mgr[n]), n)
    <3>1. Wanted(s, ManagerRequest(s, n))
      BY <2>2 DEF Wanted, Asking
    <3>2. ManagerRequest(s, n).kind = KindOf(s.mgr[n]) /\ ManagerRequest(s, n).n = n
      BY <1>1, ManagerRequestIs
    <3> QED
      BY <1>10, <3>1, <3>2
  <2> QED
    BY <1>1, <1>5, <1>9, <2>1, <2>2 DEF ManagersOK, ManagerSent
<1>12. DeviceOK(y)
  <2>1. ASSUME NEW kind \in DeviceKinds, Wanted(s, Request(s, kind, None))
        PROVE  InAir(y, kind, None)
    <3>1. kind \in Kinds
      BY DEF DeviceKinds, Kinds
    <3>2. Request(s, kind, None).kind = kind /\ Request(s, kind, None).n = None
      BY <1>1, <3>1, RequestIs
    <3> QED
      BY <1>10, <2>1, <3>2
  <2>2. /\ isPendingRegister(s) => InAir(y, "register", None)
        /\ s.ft = 432 => InAir(y, "filter", None)
        /\ s.bg = 442 => InAir(y, "badge", None)
    BY <2>1 DEF Wanted, DeviceKinds
  <2>3. /\ y.m = s.m /\ y.tk = s.tk /\ y.sbs = s.sbs /\ y.ft = s.ft /\ y.bg = s.bg /\ y.id = s.id
        /\ y.candidates = s.candidates /\ y.filters = s.filters /\ y.badge = s.badge
    BY <1>5, <1>9 DEF SameDevice
  <2>4. RegisterOK(y)
    BY <1>1, <2>2, <2>3 DEF DeviceOK, RegisterOK, RegisterState, RegisterAir, isPendingRegister
  <2>5. FilterOK(y) /\ BadgeOK(y) /\ ItemOK(y)
    BY <1>1, <2>2, <2>3 DEF DeviceOK, FilterOK, FilterState, BadgeOK, BadgeState, ItemOK
  <2> QED
    BY <2>4, <2>5 DEF DeviceOK
<1>13. y.up /\ y.m = s.m /\ y.mgr = s.mgr
  BY <1>5, <1>9 DEF SameDevice
<1>14. Steady(y)
  BY <1>11, <1>12, <1>13 DEF Steady, NoneWaits
<1>15. CASE s.m = 405
  <2>1. x.id # None /\ x.failed \in BOOLEAN
    BY <1>4, <1>5, <1>15, SteadyId DEF Clients
  <2>2. y.failed = s.failed
    BY <1>5, <1>9, <2>1
  <2> QED
    BY <1>13, <1>14, <2>2 DEF y
<1>16. CASE s.m # 405 /\ AllDormant(s)
  <2>1. Asking(s) = {}
    BY <1>1, <1>16 DEF Asking, AllDormant, Dormant, isPending, ManagersOK, ManagerOK, None
  <2>2. s.ft # 432 /\ s.bg # 442
    BY <1>1, <1>16 DEF DeviceOK, FilterOK, FilterState, BadgeOK, BadgeState, None
  <2>3. \A j \in DOMAIN q : q[j].kind = "register"
    BY <1>8, <2>1, <2>2 DEF DeviceKinds
  <2>4. x.failed \in BOOLEAN
    BY <1>4 DEF Clients
  <2>5. y.failed = s.failed
    BY <1>5, <1>9, <2>3, <2>4
  <2> QED
    BY <1>13, <1>14, <2>5 DEF y
<1> QED
  BY <1>13, <1>14, <1>15, <1>16 DEF y
-----------------------------------------------------------------------------
(* The special item and the replies                                        *)

LEMMA AlikeTransitive ==
  ASSUME NEW x, NEW y, NEW z, Alike(x, y), Alike(y, z)
  PROVE  Alike(x, z)
  BY DeviceStepTransitive DEF Alike, Core

LEMMA AlikeProceeds ==
  ASSUME NEW x, NEW y, Steady(x), Alike(x, y)
  PROVE  Proceeds(x, y)
<1>1. Moves(x, y) /\ y.m = x.m
  BY AlikeMoves
<1> QED
  BY <1>1, MovesProceeds

LEMMA ItemChanges ==
  ASSUME NEW s \in Clients, AirOK(s), NEW v \in SpecialItems
  PROVE  LET y == [s EXCEPT !.item = v] IN
         Alike(s, y) /\ y.item = v /\ Aside(s, y)
<1> DEFINE y == [s EXCEPT !.item = v]
<1>1. /\ Core(s, y) /\ y.ft = s.ft /\ y.filters = s.filters /\ y.bg = s.bg /\ y.badge = s.badge
      /\ Aside(s, y)
  BY SetItem
<1>2. y.item = v
  BY DEF Clients
<1> QED
  BY <1>1, <1>2 DEF Alike

(* What follows a step that the client does not notice.                    *)
LEMMA AfterAlike ==
  ASSUME NEW s, Steady(s), NEW x, Alike(s, x), NEW y, Moves(x, y), y.m = x.m
  PROVE  Proceeds(s, y)
<1>1. Moves(s, x) /\ x.m = s.m /\ x.mgr = s.mgr
  BY AlikeMoves
<1>2. Progress(x, y)
  BY MovesProgress
<1>3. Progress(s, y)
  BY <1>1, <1>2, ProgressFrom DEF Moves
<1> QED
  BY <1>1, <1>3 DEF Proceeds

(* The first key of the item is taken.                                     *)
Listened(s) ==
    LET msg == Head(s.item.queue)
    IN [s EXCEPT !.item.queue = Tail(@),
                 !.item.second = IF msg.kind = "ADD" THEN @ \cup {msg.id} ELSE @ \ {msg.id}]

LEMMA ListenedIs ==
  ASSUME NEW s \in Clients, AirOK(s), s.item.queue # <<>>
  PROVE  Alike(s, Listened(s)) /\ Aside(s, Listened(s)) /\ Head(s.item.queue) \in Messages
<1> DEFINE q == s.item.queue
           msg == Head(q)
           rest == Tail(q)
           second == IF msg.kind = "ADD" THEN s.item.second \cup {msg.id}
                     ELSE s.item.second \ {msg.id}
           v == [s.item EXCEPT !.queue = rest, !.second = second]
<1>1. s.item \in SpecialItems /\ q \in Seq(Messages) /\ s.item.second \subseteq Nat
  BY DEF Clients, SpecialItems
<1> HIDE DEF q
<1>2. msg \in Messages /\ rest \in Seq(Messages)
  BY <1>1, HeadTailProperties DEF q
<1>3. msg.id \in Nat
  BY <1>2 DEF Messages
<1> HIDE DEF msg, rest
<1>4. second \in SUBSET Nat
  BY <1>1, <1>3
<1> HIDE DEF second
<1>5. v \in SpecialItems
  BY <1>1, <1>2, <1>4 DEF SpecialItems
<1>6. Listened(s) = [s EXCEPT !.item = v]
  BY <1>1 DEF Listened, q, msg, rest, second, SpecialItems, Clients
<1> HIDE DEF v
<1>7. Alike(s, [s EXCEPT !.item = v]) /\ Aside(s, [s EXCEPT !.item = v])
  BY <1>5, ItemChanges
<1> QED
  BY <1>2, <1>6, <1>7 DEF msg, q

(* An update of the special item without the status.                       *)
LEMMA KeyListenedIs ==
  ASSUME NEW s, Steady(s), s.item.queue # <<>>, FreeNumbers(s) # {}
  PROVE  LET msg == Head(s.item.queue) IN
         /\ Proceeds(s, evtSUBS_EOS(Listened(s))) /\ Aside(s, evtSUBS_EOS(Listened(s)))
         /\ Proceeds(s, evtSUBS_Update(Listened(s), msg.id, msg.kind))
         /\ Aside(s, evtSUBS_Update(Listened(s), msg.id, msg.kind))
<1> DEFINE msg == Head(s.item.queue)
           x == Listened(s)
<1>1. s \in Clients /\ AirOK(s)
  BY DEF Steady, ManagersOK
<1>2. Alike(s, x) /\ Aside(s, x) /\ msg \in Messages
  BY <1>1, ListenedIs
<1>3. msg.id \in Nat
  BY <1>2 DEF Messages
<1> HIDE DEF x, msg
<1>4. Steady(x) /\ x.mgr = s.mgr
  BY <1>2, AlikeMoves DEF Moves
<1>5. FreeNumbers(x) # {}
  BY <1>4 DEF FreeNumbers
<1>6. Moves(x, evtSUBS_EOS(x)) /\ evtSUBS_EOS(x).m = x.m /\ Aside(x, evtSUBS_EOS(x))
  BY <1>4, SUBSEOSIs
<1>7. /\ Moves(x, evtSUBS_Update(x, msg.id, msg.kind)) /\ evtSUBS_Update(x, msg.id, msg.kind).m = x.m
      /\ Aside(x, evtSUBS_Update(x, msg.id, msg.kind))
  BY <1>3, <1>4, <1>5, SUBSUpdateIs
<1>8. Proceeds(s, evtSUBS_EOS(x))
  BY <1>2, <1>6, AfterAlike
<1>9. Proceeds(s, evtSUBS_Update(x, msg.id, msg.kind))
  BY <1>2, <1>7, AfterAlike
<1>10. Aside(s, evtSUBS_EOS(x)) /\ Aside(s, evtSUBS_Update(x, msg.id, msg.kind))
  BY <1>2, <1>6, <1>7, AsideTransitive
<1> QED
  BY <1>8, <1>9, <1>10 DEF x, msg

Reported(s, id) == [s EXCEPT !.item.second = @ \ {id}]

(* An update of the item of one push subscription, with the status.        *)
LEMMA StatusListenedIs ==
  ASSUME NEW s, Steady(s), NEW id \in s.item.second, FreeNumbers(s) # {}
  PROVE  LET y == evtSUBS_Update(Reported(s, id), id, "STATUS") IN
         Proceeds(s, y) /\ Aside(s, y)
<1> DEFINE second == s.item.second \ {id}
           v == [s.item EXCEPT !.second = second]
           x == Reported(s, id)
<1>1. s \in Clients /\ AirOK(s)
  BY DEF Steady, ManagersOK
<1>2. s.item \in SpecialItems /\ second \in SUBSET Nat /\ id \in Nat
  BY <1>1 DEF Clients, SpecialItems
<1> HIDE DEF second
<1>3. v \in SpecialItems
  BY <1>2 DEF SpecialItems
<1>4. x = [s EXCEPT !.item = v]
  BY <1>1, <1>2 DEF Reported, second, SpecialItems, Clients
<1> HIDE DEF v, x
<1>5. Alike(s, x) /\ Aside(s, x)
  BY <1>1, <1>3, <1>4, ItemChanges
<1>6. Steady(x) /\ x.mgr = s.mgr
  BY <1>5, AlikeMoves DEF Moves
<1>7. FreeNumbers(x) # {}
  BY <1>6 DEF FreeNumbers
<1>8. /\ Moves(x, evtSUBS_Update(x, id, "STATUS")) /\ evtSUBS_Update(x, id, "STATUS").m = x.m
      /\ Aside(x, evtSUBS_Update(x, id, "STATUS"))
  BY <1>2, <1>6, <1>7, SUBSUpdateIs
<1>9. Proceeds(s, evtSUBS_Update(x, id, "STATUS"))
  BY <1>5, <1>8, AfterAlike
<1>10. Aside(s, evtSUBS_Update(x, id, "STATUS"))
  BY <1>5, <1>8, AsideTransitive
<1> QED
  BY <1>9, <1>10 DEF x

(* More is said by the item.                                               *)
LEMMA ListenIs ==
  ASSUME NEW s \in Clients, AirOK(s), NEW msgs \in Seq(Messages)
  PROVE  Alike(s, Listen(s, msgs)) /\ Aside(s, Listen(s, msgs))
<1> DEFINE more == s.item.queue \o msgs
           v == [s.item EXCEPT !.queue = more]
<1>1. s.item \in SpecialItems /\ s.item.queue \in Seq(Messages)
  BY DEF Clients, SpecialItems
<1>2. more \in Seq(Messages)
  BY <1>1, ConcatProperties
<1> HIDE DEF more
<1>3. v \in SpecialItems
  BY <1>1, <1>2 DEF SpecialItems
<1>4. CASE s.item.state = "live"
  <2>1. Listen(s, msgs) = [s EXCEPT !.item = v]
    BY <1>1, <1>4 DEF Listen, more, SpecialItems, Clients
  <2> HIDE DEF v
  <2>2. Alike(s, [s EXCEPT !.item = v]) /\ Aside(s, [s EXCEPT !.item = v])
    BY <1>3, ItemChanges
  <2> QED
    BY <2>1, <2>2
<1>5. CASE s.item.state # "live"
  <2>1. Listen(s, msgs) = s
    BY <1>5 DEF Listen
  <2>2. Alike(s, s) /\ Aside(s, s)
    BY DeviceStepQuiet, AsideSame DEF Alike, Core
  <2> QED
    BY <2>1, <2>2
<1> QED
  BY <1>4, <1>5

(* The first request is handled and its reply, if it is read, is sent.     *)
Answered(x, y, ok) ==
    /\ Len(x.out) \in Nat \ {0} /\ DOMAIN x.out = 1..Len(x.out) /\ Head(x.out) = x.out[1]
    /\ DOMAIN y.out = 1..(Len(x.out) - 1) /\ \A i \in DOMAIN y.out : y.out[i] = x.out[i + 1]
    /\ y.replies = IF x.out[1].last
                     THEN x.replies \cup {[kind |-> x.out[1].kind, n |-> x.out[1].n, ok |-> ok]}
                     ELSE x.replies
LEMMA AnswerIs ==
  ASSUME Steady(c), c.out # <<>>, NEW ok \in BOOLEAN
  PROVE  LET y == Answer(Head(c.out), ok) IN
         /\ Alike(c, y) /\ y \in Clients /\ AirOK(y) /\ Head(c.out) \in Requests
         /\ y.token = c.token /\ y.device = c.device
         /\ Answered(c, y, ok)
<1> DEFINE q == c.out
           rest == Tail(q)
           req == Head(q)
           r == [kind |-> req.kind, n |-> req.n, ok |-> ok]
           rs == IF req.last THEN c.replies \cup {r} ELSE c.replies
           y == Answer(Head(c.out), ok)
<1>1. c \in Clients /\ AirOK(c) /\ ManagersOK(c)
  BY DEF Steady, ManagersOK
<1>2. q \in Seq(Requests) /\ c.replies \subseteq Replies /\ q # <<>>
  BY <1>1 DEF Clients
<1>3. y = [c EXCEPT !.out = rest, !.replies = rs]
  <2>1. CASE req.last
    BY <1>1, <2>1 DEF Answer, Clients
  <2>2. CASE ~req.last
    BY <1>1, <2>2 DEF Answer, Clients
  <2> QED
    BY <2>1, <2>2
<1> HIDE DEF y
<1>4. q = c.out
  OBVIOUS
<1> HIDE DEF q
<1>5. /\ req \in Requests /\ rest \in Seq(Requests) /\ Len(rest) = Len(q) - 1
      /\ \A i \in 1..Len(rest) : rest[i] = q[i + 1]
  BY <1>2, HeadTailProperties
<1>6. /\ Len(q) \in Nat \ {0} /\ DOMAIN q = 1..Len(q) /\ req = q[1]
      /\ Len(rest) \in Nat /\ DOMAIN rest = 1..Len(rest)
  BY <1>2, <1>5
<1>16. r = [kind |-> q[1].kind, n |-> q[1].n, ok |-> ok]
       /\ rs = IF q[1].last THEN c.replies \cup {r} ELSE c.replies
  BY <1>6
<1> HIDE DEF rest, req
<1>7. r \in Replies /\ r.kind = req.kind /\ r.n = req.n
  BY <1>5 DEF Requests, Replies
<1> HIDE DEF r
<1>8. rs \in SUBSET Replies
  BY <1>2, <1>7
<1>9. c.replies \subseteq rs /\ (req.last => r \in rs) /\ \A p \in rs : p \in c.replies \/ (req.last /\ p = r)
  OBVIOUS
<1> HIDE DEF rs
<1>10. y \in Clients
  BY <1>1, <1>3, <1>5, <1>8 DEF Clients
<1>11. /\ y.m = c.m /\ y.tk = c.tk /\ y.sbs = c.sbs /\ y.ft = c.ft /\ y.bg = c.bg /\ y.id = c.id
       /\ y.candidates = c.candidates /\ y.filters = c.filters /\ y.badge = c.badge
       /\ y.mgr = c.mgr /\ y.failed = c.failed /\ y.up = c.up /\ y.out = rest /\ y.replies = rs
       /\ y.token = c.token /\ y.device = c.device
  BY <1>1, <1>3 DEF Clients
<1>12. ASSUME NEW kind, NEW n, InAir(c, kind, n) PROVE InAir(y, kind, n)
  <2>1. CASE \E i \in DOMAIN q : q[i].last /\ q[i].kind = kind /\ q[i].n = n
    <3>1. PICK i \in 1..Len(q) : q[i].last /\ q[i].kind = kind /\ q[i].n = n
      BY <1>6, <2>1
    <3>2. CASE i = 1
      BY <1>6, <1>7, <1>9, <1>11, <3>1, <3>2 DEF InAir
    <3>3. CASE i # 1
      <4>1. i - 1 \in 1..Len(rest) /\ (i - 1) + 1 = i
        BY <1>5, <1>6, <3>3
      <4>2. rest[i - 1] = q[i]
        BY <1>5, <4>1
      <4> QED
        BY <1>6, <1>11, <3>1, <4>1, <4>2 DEF InAir
    <3> QED
      BY <3>2, <3>3
  <2>2. CASE \E p \in c.replies : p.kind = kind /\ p.n = n
    BY <1>9, <1>11, <2>2 DEF InAir
  <2> QED
    BY <1>4, <1>12, <2>1, <2>2 DEF InAir
<1>13. ASSUME NEW kind, NEW n, InAir(y, kind, n) PROVE InAir(c, kind, n)
  <2>1. CASE \E i \in DOMAIN rest : rest[i].last /\ rest[i].kind = kind /\ rest[i].n = n
    <3>1. PICK i \in 1..Len(rest) : rest[i].last /\ rest[i].kind = kind /\ rest[i].n = n
      BY <1>6, <2>1
    <3>2. i + 1 \in 1..Len(q) /\ rest[i] = q[i + 1]
      BY <1>5, <1>6
    <3> QED
      BY <1>4, <1>6, <3>1, <3>2 DEF InAir
  <2>2. CASE \E p \in rs : p.kind = kind /\ p.n = n
    <3>1. PICK p \in rs : p.kind = kind /\ p.n = n
      BY <2>2
    <3>2. CASE p \in c.replies
      BY <3>1, <3>2 DEF InAir
    <3>3. CASE req.last /\ p = r
      <4>1. 1 \in DOMAIN q
        BY <1>6
      <4> QED
        BY <1>4, <1>6, <1>7, <3>1, <3>3, <4>1 DEF InAir
    <3> QED
      BY <1>9, <3>2, <3>3
  <2> QED
    BY <1>11, <1>13, <2>1, <2>2 DEF InAir
<1>14. AirOK(y)
  BY <1>1, <1>11, <1>13 DEF AirOK
<1>15. DeviceStep(c, y)
  BY <1>10, <1>11, <1>12, <1>14 DEF DeviceStep
<1>17. Answered(c, y, ok)
  BY <1>4, <1>5, <1>6, <1>11, <1>16 DEF Answered, req, q
<1> QED
  BY <1>5, <1>10, <1>11, <1>14, <1>15, <1>17 DEF Alike, Core, y, req, q
-----------------------------------------------------------------------------
(* The invariant                                                           *)

(* A notification, and what the server has.                                *)
Notices == {msg \in Messages : msg.kind \in {"REG", "OK", "DEL"} /\ (msg.kind = "REG" => msg.id # 0)}
Catalogues == UNION {[D -> [Parts -> Nat]] : D \in {S \in SUBSET Nat : IsFiniteSet(S)}}
Servers ==
    [token : Nat, dev : Nat \ {0}, subs : Catalogues, seen : SUBSET Nat, registered : Nat]
Uses == [devices : Nat, subscribes : Nat, events : Nat]

(* Managers wait for the device when there is none, and send nothing.      *)
Sound(s) == ~s.failed /\ (s.m # 405 => AllDormant(s))

(* Client and session: a channel when there is one, no active device       *)
(* without a session and, where the device is never lost, nothing to write *)
(* without an identifier.                                                  *)
Agrees(s, session) ==
    /\ session \in {"off", "retry", "down", "up"}
    /\ s.up <=> session = "up"
    /\ session \in {"off", "retry"} => s.m # 405
    /\ "device_lost" \in Avoided => Sound(s)

(* The inductive invariant.                                                *)
Inv ==
    /\ Steady(c) /\ Agrees(c, conn)
    /\ server \in Servers /\ push \in Seq(Notices) /\ used \in Uses

(* A device is given up only while no manager depends on it.               *)
Abandons(x, y) ==
    "device_lost" \in Avoided =>
        (x.m = 405 /\ y.m = 401 => \A n \in DOMAIN x.mgr : x.mgr[n].m = 41)

(* A step that gives no device up under its managers keeps Sound.          *)
LEMMA SoundKept ==
  ASSUME NEW x, Sound(x), NEW y, Progress(x, y),
         x.m = 405 /\ y.m = 401 => \A n \in DOMAIN x.mgr : x.mgr[n].m = 41
  PROVE  Sound(y)
<1>1. y.failed = x.failed
  BY DEF Sound, Progress
<1>2. ASSUME y.m # 405 PROVE AllDormant(y)
  <2>1. CASE x.m = 405
    BY <1>2, <2>1 DEF Progress, AllDormant, Dormant
  <2>2. CASE x.m # 405
    BY <1>2, <2>2 DEF Progress, Sound
  <2> QED
    BY <2>1, <2>2
<1> QED
  BY <1>1, <1>2 DEF Sound

LEMMA ProgressAgrees ==
  ASSUME NEW x, NEW y, NEW session, Agrees(x, session), Progress(x, y), Abandons(x, y),
         y.m = 405 => x.m = 405 \/ session \in {"down", "up"}
  PROVE  Steady(y) /\ Agrees(y, session)
<1>1. Steady(y) /\ y.up = x.up
  BY DEF Progress
<1>2. "device_lost" \in Avoided => Sound(y)
  BY SoundKept DEF Agrees, Abandons
<1> QED
  BY <1>1, <1>2 DEF Agrees

LEMMA ProceedsAgrees ==
  ASSUME NEW x, NEW y, NEW session, Agrees(x, session), Proceeds(x, y)
  PROVE  Steady(y) /\ Agrees(y, session)
<1>1. Progress(x, y) /\ (y.m = 405 <=> x.m = 405)
  BY DEF Proceeds
<1>2. Abandons(x, y)
  BY <1>1 DEF Abandons
<1> QED
  BY <1>1, <1>2, ProgressAgrees

(* A step of the client.                                                   *)
LEMMA ClientProceeds ==
  ASSUME Inv, Proceeds(c, c'), conn' = conn,
         server' \in Servers, push' \in Seq(Notices), used' \in Uses
  PROVE  Inv'
<1>1. Agrees(c, conn)
  BY DEF Inv
<1>2. Steady(c') /\ Agrees(c', conn)
  BY <1>1, ProceedsAgrees
<1> QED
  BY <1>2 DEF Inv

(* The bounds of a behaviour are counted in natural numbers.               *)
LEMMA UseIs ==
  ASSUME used \in Uses, NEW what \in {"devices", "subscribes", "events"}, NEW max, Use(what, max)
  PROVE  used' \in Uses
<1>1. used' = [used EXCEPT ![what] = @ + 1]
  BY DEF Use
<1>2. used.devices + 1 \in Nat /\ used.subscribes + 1 \in Nat /\ used.events + 1 \in Nat
  BY DEF Uses
<1>3. CASE what = "devices"
  <2>1. used' = [used EXCEPT !.devices = used.devices + 1]
    BY <1>1, <1>3
  <2> QED
    BY <1>2, <2>1 DEF Uses
<1>4. CASE what = "subscribes"
  <2>1. used' = [used EXCEPT !.subscribes = used.subscribes + 1]
    BY <1>1, <1>4
  <2> QED
    BY <1>2, <2>1 DEF Uses
<1>5. CASE what = "events"
  <2>1. used' = [used EXCEPT !.events = used.events + 1]
    BY <1>1, <1>5
  <2> QED
    BY <1>2, <2>1 DEF Uses
<1> QED
  BY <1>3, <1>4, <1>5

(* Each call of the application.                                           *)
LEMMA CallsKeep ==
  ASSUME Inv,
         \/ registerForMpn \/ subscribeMpn \/ unsubscribeMpn \/ setProperty
         \/ unsubscribeMpnSubscriptions \/ resetBadge
  PROVE  Inv'
<1>1. Steady(c) /\ server \in Servers /\ push \in Seq(Notices) /\ used \in Uses
  BY DEF Inv
<1>2. ASSUME UNCHANGED Outside, used' \in Uses, Proceeds(c, c')
      PROVE  Inv'
  <2>1. conn' = conn /\ server' \in Servers /\ push' \in Seq(Notices)
    BY <1>1, <1>2 DEF Outside
  <2> QED
    BY <1>2, <2>1, ClientProceeds
<1>3. CASE registerForMpn
  <2>1. used' \in Uses
    <3>1. Use("devices", MaxDevices)
      BY <1>3 DEF registerForMpn
    <3> QED
      BY <1>1, <3>1, UseIs
  <2>2. used'.devices \in Nat
    BY <2>1 DEF Uses
  <2>3. c' = Registering(Offered(c, used'.devices)) /\ UNCHANGED Outside
    BY <1>3 DEF registerForMpn, Registering, Offered
  <2>4. Proceeds(c, c')
    BY <1>1, <2>2, <2>3, RegisterForIs
  <2> QED
    BY <1>2, <2>1, <2>3, <2>4
<1>4. CASE subscribeMpn
  <2>1. used' \in Uses
    <3>1. Use("subscribes", MaxSubscribes)
      BY <1>4 DEF subscribeMpn
    <3> QED
      BY <1>1, <3>1, UseIs
  <2>2. used'.subscribes \in Nat
    BY <2>1 DEF Uses
  <2>3. c' = Subscribing(c, used'.subscribes) /\ UNCHANGED Outside /\ FreeNumbers(c) # {}
    BY <1>4 DEF subscribeMpn, Subscribing
  <2>4. Proceeds(c, c')
    BY <1>1, <2>2, <2>3, SubscribeIs
  <2> QED
    BY <1>2, <2>1, <2>3, <2>4
<1>5. ASSUME Use("events", MaxEvents) PROVE used' \in Uses
  BY <1>1, <1>5, UseIs
<1>6. CASE unsubscribeMpn
  <2>1. used' \in Uses /\ UNCHANGED Outside
    BY <1>5, <1>6 DEF unsubscribeMpn
  <2>2. PICK n \in DOMAIN c.mgr : c' = evtExtMpnUnsubscribe(c, n)
    BY <1>6 DEF unsubscribeMpn
  <2>3. Proceeds(c, c')
    BY <1>1, <2>2, CallsOfManager
  <2> QED
    BY <1>2, <2>1, <2>3
<1>7. CASE setProperty
  <2>1. used' \in Uses /\ UNCHANGED Outside
    BY <1>5, <1>7 DEF setProperty
  <2>2. PICK n \in DOMAIN c.mgr, part \in Parts : c' = evtExtMpnSet(c, n, part, used'.events)
    BY <1>7 DEF setProperty
  <2>3. used'.events \in Nat
    BY <2>1 DEF Uses
  <2>4. Proceeds(c, c')
    BY <1>1, <2>2, <2>3, CallsOfManager
  <2> QED
    BY <1>2, <2>1, <2>4
<1>8. CASE unsubscribeMpnSubscriptions
  <2>1. used' \in Uses /\ UNCHANGED Outside /\ c' = Filtering(c)
    BY <1>5, <1>8 DEF unsubscribeMpnSubscriptions, Filtering
  <2>2. Proceeds(c, c')
    BY <1>1, <2>1, FilteringIs
  <2> QED
    BY <1>2, <2>1, <2>2
<1>9. CASE resetBadge
  <2>1. used' \in Uses /\ UNCHANGED Outside /\ c' = Badging(c)
    BY <1>5, <1>9 DEF resetBadge, Badging
  <2>2. Proceeds(c, c')
    BY <1>1, <2>1, BadgingIs
  <2> QED
    BY <1>2, <2>1, <2>2
<1> QED
  BY <1>3, <1>4, <1>6, <1>7, <1>8, <1>9
(* The session.                                                            *)
LEMMA ServerForgets ==
  ASSUME server \in Servers, NEW v, v = [server EXCEPT !.seen = {}, !.registered = None]
  PROVE  v \in Servers
<1>1. None \in Nat /\ {} \in SUBSET Nat
  BY DEF None
<1> QED
  BY <1>1 DEF Servers

LEMMA ChannelAgrees ==
  ASSUME Inv
  PROVE  Steady(evtSendPendingControls(c)) /\ Agrees(evtSendPendingControls(c), "up")
<1> DEFINE y == evtSendPendingControls(c)
<1>1. Steady(c) /\ Agrees(c, conn)
  BY DEF Inv
<1>2. /\ Steady(y) /\ y.up /\ y.m = c.m /\ y.mgr = c.mgr
      /\ c.m = 405 \/ AllDormant(c) => y.failed = c.failed
  BY <1>1, ChannelIs
<1> HIDE DEF y
<1>3. "device_lost" \in Avoided => Sound(y)
  BY <1>1, <1>2 DEF Agrees, Sound, AllDormant
<1> QED
  BY <1>2, <1>3 DEF Agrees, y

LEMMA RepeatedIs ==
  ASSUME server \in Servers, NEW again \in Repeated
  PROVE  again \in Seq(Notices)
<1>1. CASE again = <<>>
  BY <1>1
<1>2. CASE again # <<>>
  <2>1. again = <<Item("REG", server.dev)>>
    BY <1>2 DEF Repeated
  <2>2. Item("REG", server.dev) \in Notices
    BY DEF Servers, Notices, Messages, Item
  <2> QED
    BY <2>1, <2>2
<1> QED
  BY <1>1, <1>2

(* Connects, losses and rebinds, and the end of a session.                 *)
LEMMA SessionKeeps ==
  ASSUME Inv, evtExtConnect \/ evtCONOK \/ LoseChannel \/ Rebind \/ evtRetry \/ evtTerminate
  PROVE  Inv'
<1>1. Steady(c) /\ Agrees(c, conn) /\ server \in Servers /\ push \in Seq(Notices) /\ used \in Uses
  BY DEF Inv
<1>2. <<>> \in Seq(Notices)
  OBVIOUS
<1>3. ASSUME Use("events", MaxEvents) PROVE used' \in Uses
  BY <1>1, <1>3, UseIs
<1>4. CASE evtExtConnect
  <2>1. conn = "off" /\ conn' = "retry" /\ UNCHANGED <<server, push, used>> /\ c' = Connecting(c)
    BY <1>4 DEF evtExtConnect, Connecting
  <2>2. ~c.up
    BY <1>1, <2>1 DEF Agrees
  <2>3. Proceeds(c, c')
    BY <1>1, <2>1, <2>2, ConnectingIs
  <2>4. Steady(c') /\ Agrees(c', conn)
    BY <1>1, <2>3, ProceedsAgrees
  <2>5. Agrees(c', conn')
    BY <2>1, <2>4 DEF Agrees
  <2> QED
    BY <1>1, <2>1, <2>4, <2>5 DEF Inv
<1>5. CASE evtCONOK
  <2>1. /\ conn' = "up" /\ UNCHANGED used /\ push' = <<>>
        /\ c' = evtSendPendingControls(c)
        /\ server' = [server EXCEPT !.seen = {}, !.registered = None]
    BY <1>5 DEF evtCONOK
  <2>2. server' \in Servers
    BY <1>1, <2>1, ServerForgets
  <2>3. Steady(c') /\ Agrees(c', conn')
    BY <2>1, ChannelAgrees
  <2> QED
    BY <1>1, <1>2, <2>1, <2>2, <2>3 DEF Inv
<1>6. CASE LoseChannel
  <2>1. conn' = "down" /\ used' \in Uses /\ c' = NoChannel(c) /\ UNCHANGED <<server, push>>
    BY <1>3, <1>6 DEF LoseChannel
  <2>2. Steady(c') /\ ~c'.up /\ c'.m = c.m /\ c'.mgr = c.mgr /\ c'.failed = c.failed
    BY <1>1, <2>1, NoChannelIs
  <2>3. Agrees(c', conn')
    BY <1>1, <2>1, <2>2 DEF Agrees, Sound, AllDormant
  <2> QED
    BY <1>1, <2>1, <2>2, <2>3 DEF Inv
<1>7. CASE Rebind
  <2>1. conn' = "up" /\ c' = evtSendPendingControls(c) /\ UNCHANGED <<server, used>>
    BY <1>7 DEF Rebind
  <2>2. PICK again \in Repeated : push' = again \o push
    BY <1>7 DEF Rebind
  <2>3. again \in Seq(Notices)
    BY <1>1, RepeatedIs
  <2>4. push' \in Seq(Notices)
    BY <1>1, <2>2, <2>3, ConcatProperties
  <2>5. Steady(c') /\ Agrees(c', conn')
    BY <2>1, ChannelAgrees
  <2> QED
    BY <1>1, <2>1, <2>4, <2>5 DEF Inv
<1>8. Steady(NoChannel(c)) /\ ~NoChannel(c).up /\ NoChannel(c).m = c.m /\ NoChannel(c).mgr = c.mgr
      /\ NoChannel(c).failed = c.failed
  BY <1>1, NoChannelIs
<1>9. CASE evtRetry
  <2> DEFINE x == NoChannel(c)
             y == evtRetry_MpnRegion(x)
             z == AbortSubscriptions(y)
  <2>1. conn' = "retry" /\ c' = z /\ push' = <<>> /\ used' \in Uses /\ UNCHANGED server
    BY <1>3, <1>9 DEF evtRetry
  <2>2. Steady(y) /\ ~y.up /\ y.m # 405 /\ y.failed = c.failed
    <3> HIDE DEF x
    <3>1. Steady(x) /\ ~x.up /\ x.failed = c.failed
      BY <1>8 DEF x
    <3> QED
      BY <3>1, RetryRegionIs
  <2> HIDE DEF y
  <2>3. Steady(z) /\ ~z.up /\ z.m = y.m /\ z.failed = y.failed /\ AllDormant(z)
    BY <2>2, AbortSubscriptionsIs
  <2> HIDE DEF z
  <2>4. Agrees(z, "retry")
    BY <1>1, <2>2, <2>3 DEF Agrees, Sound
  <2> QED
    BY <1>1, <1>2, <2>1, <2>3, <2>4 DEF Inv
<1>10. CASE evtTerminate
  <2> DEFINE x == NoChannel(c)
             y == evtTerminate_MpnRegion(x)
             z == AbortSubscriptions(y)
  <2>1. /\ conn' = "off" /\ c' = (IF conn = "retry" THEN y ELSE z) /\ push' = <<>> /\ used' \in Uses
        /\ UNCHANGED server
    BY <1>3, <1>10 DEF evtTerminate
  <2>2. Moves(x, y) /\ y.m # 405 /\ x.m = c.m /\ x.mgr = c.mgr /\ ~x.up /\ x.failed = c.failed
    <3> HIDE DEF x
    <3>1. Steady(x) /\ x.m = c.m /\ x.mgr = c.mgr /\ ~x.up /\ x.failed = c.failed
      BY <1>8 DEF x
    <3> QED
      BY <3>1, TerminateRegionIs
  <2> HIDE DEF x, y
  <2>3. Steady(y) /\ ~y.up /\ y.failed = c.failed /\ y.mgr = c.mgr
    BY <2>2 DEF Moves
  <2>4. Steady(z) /\ ~z.up /\ z.m = y.m /\ z.failed = y.failed /\ AllDormant(z)
    BY <2>3, AbortSubscriptionsIs
  <2> HIDE DEF z
  <2>5. CASE conn = "retry"
    <3>1. Agrees(y, "off")
      BY <1>1, <2>2, <2>3, <2>5 DEF Agrees, Sound, AllDormant
    <3> QED
      BY <1>1, <1>2, <2>1, <2>3, <2>5, <3>1 DEF Inv
  <2>6. CASE conn # "retry"
    <3>1. Agrees(z, "off")
      BY <1>1, <2>2, <2>3, <2>4 DEF Agrees, Sound
    <3> QED
      BY <1>1, <1>2, <2>1, <2>4, <2>6, <3>1 DEF Inv
  <2> QED
    BY <2>5, <2>6
<1> QED
  BY <1>4, <1>5, <1>6, <1>7, <1>9, <1>10
(* What is read and what is listened to.                                   *)
LEMMA ClientProgresses ==
  ASSUME Inv, Progress(c, c'), NoOrphans, c'.m = 405 => c.m = 405 \/ conn = "up", conn' = conn,
         server' \in Servers, push' \in Seq(Notices), used' \in Uses
  PROVE  Inv'
<1>1. Agrees(c, conn)
  BY DEF Inv
<1>2. Abandons(c, c')
  BY DEF NoOrphans, Abandons
<1>3. Steady(c') /\ Agrees(c', conn)
  BY <1>1, <1>2, ProgressAgrees
<1> QED
  BY <1>3 DEF Inv

(* A reply is read.                                                        *)
LEMMA ReplyKeeps ==
  ASSUME Inv, ReplyIsRead
  PROVE  Inv'
<1>1. Steady(c) /\ server \in Servers /\ push \in Seq(Notices) /\ used \in Uses
  BY DEF Inv
<1>2. PICK r \in c.replies :
         /\ c' = evtReply([c EXCEPT !.replies = @ \ {r}], r) /\ NoOrphans
         /\ UNCHANGED <<conn, server, push, used>>
  BY DEF ReplyIsRead
<1>3. c' = evtReply(WithoutReply(c, r), r)
  BY <1>2 DEF WithoutReply
<1>4. Progress(c, c') /\ (c'.m = 405 => c.m = 405)
  BY <1>1, <1>3, ReplyIs
<1> QED
  BY <1>1, <1>2, <1>4, ClientProgresses

LEMMA NoticeHeard ==
  ASSUME NEW s, Steady(s), NEW msg, msg.kind \in {"OK", "DEL"}
  PROVE  Proceeds(s, EachManager(s, msg))
<1> DEFINE y == EachManager(s, msg)
<1>1. ManagersOK(s)
  BY DEF Steady
<1>2. Works(s, y)
  BY HearWorks
<1>3. /\ \A n \in DOMAIN y.mgr : n \in DOMAIN s.mgr /\ Fits(s, y, n, msg)
      /\ AllDormant(s) => y.failed = s.failed
  BY <1>1, AllHear
<1> HIDE DEF y
<1>4. AllDormant(s) => AllDormant(y)
  BY <1>3 DEF AllDormant, Fits
<1>5. Proceeds(s, y)
  BY <1>2, <1>3, <1>4, WorksProceeds
<1> QED
  BY <1>5 DEF y

(* MPNREG, MPNOK or MPNDEL is read.                                        *)
LEMMA NotificationKeeps ==
  ASSUME Inv, NotificationIsRead
  PROVE  Inv'
<1> DEFINE msg == Head(push)
<1>1. Steady(c) /\ server \in Servers /\ push \in Seq(Notices) /\ used \in Uses
  BY DEF Inv
<1>2. /\ conn = "up" /\ push # <<>> /\ push' = Tail(push) /\ NoOrphans
      /\ UNCHANGED <<conn, server, used>>
      /\ msg.kind = "REG" => c' = evtMPNREG(c, msg.id)
      /\ msg.kind # "REG" => c' = EachManager(c, msg)
  BY DEF NotificationIsRead
<1>3. msg \in Notices /\ push' \in Seq(Notices)
  BY <1>1, <1>2, HeadTailProperties
<1> HIDE DEF msg
<1>4. Progress(c, c')
  <2>1. CASE msg.kind = "REG"
    <3>1. msg.id \in Nat \ {0}
      BY <1>3, <2>1 DEF Notices, Messages
    <3>2. Moves(c, evtMPNREG(c, msg.id))
      BY <1>1, <3>1, MPNREGIs
    <3> QED
      BY <1>2, <2>1, <3>2, MovesProgress
  <2>2. CASE msg.kind # "REG"
    <3>1. msg.kind \in {"OK", "DEL"}
      BY <1>3, <2>2 DEF Notices
    <3>2. Proceeds(c, EachManager(c, msg))
      BY <1>1, <3>1, NoticeHeard
    <3> QED
      BY <1>2, <2>2, <3>2 DEF Proceeds
  <2> QED
    BY <2>1, <2>2
<1> QED
  BY <1>1, <1>2, <1>3, <1>4, ClientProgresses

(* The items are listened to.                                              *)
LEMMA ListenersKeep ==
  ASSUME Inv, KeyIsListened \/ StatusIsListened
  PROVE  Inv'
<1>1. Steady(c) /\ server \in Servers /\ push \in Seq(Notices) /\ used \in Uses
  BY DEF Inv
<1>2. UNCHANGED <<conn, server, push, used>>
  BY DEF KeyIsListened, StatusIsListened
<1>3. CASE KeyIsListened
  <2> DEFINE msg == Head(c.item.queue)
  <2>1. /\ c.item.queue # <<>> /\ FreeNumbers(c) # {}
        /\ c' = IF msg.kind = "EOS" THEN evtSUBS_EOS(Listened(c))
                ELSE evtSUBS_Update(Listened(c), msg.id, msg.kind)
    BY <1>3 DEF KeyIsListened, Listened
  <2>2. /\ Proceeds(c, evtSUBS_EOS(Listened(c)))
        /\ Proceeds(c, evtSUBS_Update(Listened(c), msg.id, msg.kind))
    BY <1>1, <2>1, KeyListenedIs
  <2>3. Proceeds(c, c')
    BY <2>1, <2>2
  <2> QED
    BY <1>1, <1>2, <2>3, ClientProceeds
<1>4. CASE StatusIsListened
  <2>1. FreeNumbers(c) # {}
    BY <1>4 DEF StatusIsListened
  <2>2. PICK id \in c.item.second : c' = evtSUBS_Update(Reported(c, id), id, "STATUS")
    BY <1>4 DEF StatusIsListened, Reported
  <2>3. Proceeds(c, c')
    BY <1>1, <2>1, <2>2, StatusListenedIs
  <2> QED
    BY <1>1, <1>2, <2>3, ClientProceeds
<1> QED
  BY <1>3, <1>4

(* The special item fails.                                                 *)
LEMMA SpecialItemKeeps ==
  ASSUME Inv, SpecialItemFails
  PROVE  Inv'
<1>1. Steady(c) /\ server \in Servers /\ push \in Seq(Notices) /\ used \in Uses
  BY DEF Inv
<1>2. c' = evtMpnError(c) /\ NoOrphans /\ UNCHANGED Outside
  BY DEF SpecialItemFails
<1>3. used' \in Uses
  <2>1. Use("events", MaxEvents)
    BY DEF SpecialItemFails
  <2> QED
    BY <1>1, <2>1, UseIs
<1>4. Progress(c, c') /\ (c'.m = 405 => c.m = 405)
  BY <1>1, <1>2, MpnErrorIs, MovesProgress
<1>5. conn' = conn /\ server' \in Servers /\ push' \in Seq(Notices)
  BY <1>1, <1>2 DEF Outside
<1> QED
  BY <1>2, <1>3, <1>4, <1>5, ClientProgresses
-----------------------------------------------------------------------------
(* The server                                                              *)

LEMMA CatalogueIs ==
  ASSUME NEW f \in Catalogues
  PROVE  /\ DOMAIN f \in SUBSET Nat /\ IsFiniteSet(DOMAIN f)
         /\ f \in [DOMAIN f -> [Parts -> Nat]]
  BY DEF Catalogues

LEMMA IsCatalogue ==
  ASSUME NEW D \in SUBSET Nat, IsFiniteSet(D), NEW f \in [D -> [Parts -> Nat]]
  PROVE  f \in Catalogues
  BY DEF Catalogues

LEMMA NoCatalogue == <<>> \in Catalogues
<1> DEFINE D == {}
<1>1. D \in SUBSET Nat /\ IsFiniteSet(D)
  BY FS_EmptySet
<1>2. <<>> \in [D -> [Parts -> Nat]]
  OBVIOUS
<1> HIDE DEF D
<1> QED
  BY <1>1, <1>2, IsCatalogue

LEMMA ItemsAre ==
  ASSUME NEW S \in SUBSET Nat, IsFiniteSet(S), NEW kind, NEW T,
         \A id \in S : Item(kind, id) \in T
  PROVE  Items(kind, S) \in Seq(T)
<1> DEFINE N == Cardinality(S)
           q == Items(kind, S)
<1>1. N \in Nat /\ \A i \in 1..N : Nth(S, i) \in S
  BY NthIs
<1>2. DOMAIN Ids(S) = 1..N /\ \A i \in 1..N : Ids(S)[i] = Nth(S, i)
  BY DEF Ids, InOrder
<1>3. q = [i \in 1..N |-> Item(kind, Nth(S, i))]
  BY <1>2 DEF Items
<1> HIDE DEF q, N
<1>4. q \in [1..N -> T]
  BY <1>1, <1>3
<1>5. q \in Seq(T)
  BY <1>1, <1>4
<1> QED
  BY <1>5 DEF q

LEMMA CatalogueItems ==
  ASSUME server \in Servers
  PROVE  /\ Items("ADD", DOMAIN server.subs) \in Seq(Messages)
         /\ Items("DELETE", DOMAIN server.subs) \in Seq(Messages)
         /\ Items("DEL", DOMAIN server.subs) \in Seq(Notices)
<1> DEFINE S == DOMAIN server.subs
<1>1. server.subs \in Catalogues
  BY DEF Servers
<1>2. S \in SUBSET Nat /\ IsFiniteSet(S)
  BY <1>1, CatalogueIs
<1> HIDE DEF S
<1>3. \A id \in S : /\ Item("ADD", id) \in Messages /\ Item("DELETE", id) \in Messages
                    /\ Item("DEL", id) \in Notices
  BY <1>2 DEF Item, Messages, Notices
<1> QED
  BY <1>2, <1>3, ItemsAre DEF S

(* The server sends a snapshot of the special item.                        *)
LEMMA SnapshotKeeps ==
  ASSUME Inv, Snapshot
  PROVE  Inv'
<1> DEFINE live == "live"
           last == <<Item("EOS", None)>>
           keys == Items("ADD", DOMAIN server.subs)
           queue == keys \o last
           v == [c.item EXCEPT !.state = live, !.queue = queue]
<1>1. Steady(c) /\ server \in Servers /\ push \in Seq(Notices) /\ used \in Uses
      /\ c \in Clients /\ AirOK(c)
  BY DEF Inv, Steady, ManagersOK
<1>2. c' = [c EXCEPT !.item = v] /\ UNCHANGED <<conn, server, push, used>>
  BY DEF Snapshot
<1>3. live \in {"none", "asked", "live"}
  OBVIOUS
<1>4. Item("EOS", None) \in Messages
  BY DEF Item, Messages, None
<1>5. last \in Seq(Messages) /\ keys \in Seq(Messages)
  BY <1>1, <1>4, CatalogueItems
<1> HIDE DEF last, keys, live
<1>6. queue \in Seq(Messages)
  BY <1>5, ConcatProperties
<1> HIDE DEF queue
<1>7. c.item \in SpecialItems
  BY <1>1 DEF Clients
<1>8. v \in SpecialItems
  BY <1>3, <1>6, <1>7 DEF SpecialItems
<1> HIDE DEF v
<1>9. Alike(c, c')
  BY <1>1, <1>2, <1>8, ItemChanges
<1>10. Proceeds(c, c')
  BY <1>1, <1>9, AlikeProceeds
<1> QED
  BY <1>1, <1>2, <1>10, ClientProceeds

LEMMA ServerIs ==
  ASSUME server \in Servers, NEW D \in SUBSET Nat, IsFiniteSet(D),
         NEW f \in [D -> [Parts -> Nat]], NEW seen \in SUBSET Nat
  PROVE  [server EXCEPT !.subs = f, !.seen = seen] \in Servers
         /\ [server EXCEPT !.subs = f] \in Servers
<1>1. f \in Catalogues
  BY IsCatalogue
<1> QED
  BY <1>1 DEF Servers

LEMMA Replied ==
  ASSUME Inv, c.out # <<>>, NEW ok \in BOOLEAN
  PROVE  /\ Proceeds(c, Answer(Head(c.out), ok))
         /\ \A msgs \in Seq(Messages) : Proceeds(c, Listen(Answer(Head(c.out), ok), msgs))
         /\ Head(c.out) \in Requests
<1> DEFINE y == Answer(Head(c.out), ok)
<1>1. Steady(c)
  BY DEF Inv
<1>2. Alike(c, y) /\ y \in Clients /\ AirOK(y) /\ Head(c.out) \in Requests
  BY <1>1, AnswerIs
<1> HIDE DEF y
<1>3. Proceeds(c, y)
  BY <1>1, <1>2, AlikeProceeds
<1>4. ASSUME NEW msgs \in Seq(Messages) PROVE Proceeds(c, Listen(y, msgs))
  <2>1. Alike(y, Listen(y, msgs))
    BY <1>2, ListenIs
  <2>2. Alike(c, Listen(y, msgs))
    BY <1>2, <2>1, AlikeTransitive
  <2> QED
    BY <1>1, <2>2, AlikeProceeds
<1> QED
  BY <1>2, <1>3, <1>4 DEF y

(* A request is refused.                                                   *)
LEMMA RefuseKeeps ==
  ASSUME Inv, c.out # <<>>, conn' = conn, Refuse(Head(c.out))
  PROVE  Inv'
<1>1. server \in Servers /\ push \in Seq(Notices) /\ used \in Uses
  BY DEF Inv
<1>2. c' = Answer(Head(c.out), FALSE) /\ UNCHANGED <<server, push>>
      /\ (used' = used \/ Use("events", MaxEvents))
  BY DEF Refuse
<1>3. used' \in Uses
  BY <1>1, <1>2, UseIs
<1>4. Proceeds(c, c')
  BY <1>2, Replied
<1> QED
  BY <1>1, <1>2, <1>3, <1>4, ClientProceeds
(* A registration is granted.                                              *)
LEMMA GrantRegister ==
  ASSUME Inv, c.out # <<>>, conn' = conn, Grant(Head(c.out)), Head(c.out).kind = "register"
  PROVE  Inv'
<1> DEFINE req == Head(c.out)
           token == req.token
           next == server.dev + 1
           none == <<>>
<1>1. server \in Servers /\ push \in Seq(Notices) /\ used \in Uses
  BY DEF Inv
<1>2. \A ok \in BOOLEAN : Proceeds(c, Answer(req, ok)) /\ req \in Requests
  BY Replied
<1>3. /\ \/ /\ server' = [server EXCEPT !.token = token, !.registered = token]
            /\ UNCHANGED used
         \/ /\ Use("events", MaxEvents)
            /\ server' = [server EXCEPT !.token = token, !.registered = token, !.dev = next,
                                        !.subs = none]
      /\ push' = IF Again(req) THEN push ELSE Append(push, Item("REG", server'.dev))
      /\ c' = Answer(req, TRUE)
  BY DEF Grant
<1> HIDE DEF req
<1>4. req \in Requests
  BY <1>2
<1>5. token \in Nat /\ next \in Nat \ {0} /\ none \in Catalogues
  BY <1>1, <1>4, NoCatalogue DEF Requests, Servers
<1> HIDE DEF token, next, none
<1>6. server' \in Servers
  <2>1. [server EXCEPT !.token = token, !.registered = token] \in Servers
    BY <1>1, <1>5 DEF Servers
  <2>2. [server EXCEPT !.token = token, !.registered = token, !.dev = next, !.subs = none]
           \in Servers
    BY <1>1, <1>5 DEF Servers
  <2> QED
    BY <1>3, <2>1, <2>2
<1>7. used' \in Uses
  BY <1>1, <1>3, UseIs
<1>8. push' \in Seq(Notices)
  <2>1. Item("REG", server'.dev) \in Notices
    BY <1>6 DEF Item, Notices, Messages, Servers
  <2>2. Append(push, Item("REG", server'.dev)) \in Seq(Notices)
    BY <1>1, <2>1, AppendProperties
  <2> QED
    BY <1>1, <1>3, <2>2
<1> QED
  BY <1>2, <1>3, <1>6, <1>7, <1>8, ClientProceeds

(* An activation is granted.                                               *)
LEMMA GrantActivate ==
  ASSUME Inv, c.out # <<>>, conn' = conn, Grant(Head(c.out)), Head(c.out).kind = "activate"
  PROVE  Inv'
<1> DEFINE req == Head(c.out)
           id == req.id
           subs == server.subs
           D == DOMAIN subs \cup {id}
           more == [k \in D |-> IF k \in DOMAIN subs THEN subs[k] ELSE NoValues]
           seen == server.seen \cup {id}
           msgs == <<Item("ADD", id)>>
<1>1. server \in Servers /\ push \in Seq(Notices) /\ used \in Uses
  BY DEF Inv
<1>2. /\ Proceeds(c, Answer(req, TRUE)) /\ req \in Requests
      /\ \A q \in Seq(Messages) : Proceeds(c, Listen(Answer(req, TRUE), q))
  BY Replied
<1>3. /\ UNCHANGED used
      /\ \/ UNCHANGED <<server, push>> /\ c' = Answer(req, TRUE)
         \/ /\ server' = [server EXCEPT !.subs = more, !.seen = seen]
            /\ push' = Append(push, Item("OK", id))
            /\ c' = Listen(Answer(req, TRUE), msgs)
  <2>1. /\ UNCHANGED used
        /\ IF id \in server.seen THEN UNCHANGED <<server, push>> /\ c' = Answer(req, TRUE)
           ELSE /\ server' = [server EXCEPT !.subs = [k \in DOMAIN @ \cup {id} |->
                                                IF k \in DOMAIN @ THEN @[k] ELSE NoValues],
                                            !.seen = @ \cup {id}]
                /\ push' = Append(push, Item("OK", id))
                /\ c' = Listen(Answer(req, TRUE), msgs)
    BY DEF Grant
  <2>2. [server EXCEPT !.subs = [k \in DOMAIN @ \cup {id} |->
                                    IF k \in DOMAIN @ THEN @[k] ELSE NoValues],
                       !.seen = @ \cup {id}]
        = [server EXCEPT !.subs = more, !.seen = seen]
    OBVIOUS
  <2> QED
    BY <2>1, <2>2
<1> HIDE DEF req
<1>4. id \in Nat
  BY <1>2 DEF Requests
<1> HIDE DEF id
<1>5. subs \in Catalogues /\ seen \in SUBSET Nat
  BY <1>1, <1>4 DEF Servers
<1> HIDE DEF subs, seen
<1>6. /\ D \in SUBSET Nat /\ IsFiniteSet(D)
      /\ subs \in [DOMAIN subs -> [Parts -> Nat]] /\ DOMAIN subs \in SUBSET Nat
  BY <1>4, <1>5, CatalogueIs, FS_AddElement
<1>7. NoValues \in [Parts -> Nat]
  BY DEF NoValues, None
<1>8. more \in [D -> [Parts -> Nat]]
  BY <1>6, <1>7
<1> HIDE DEF more, D
<1>9. server' \in Servers
  <2>1. [server EXCEPT !.subs = more, !.seen = seen] \in Servers
    BY <1>1, <1>5, <1>6, <1>8, ServerIs
  <2> QED
    BY <1>1, <1>3, <2>1
<1>10. Item("OK", id) \in Notices /\ Item("ADD", id) \in Messages
  BY <1>4 DEF Item, Notices, Messages
<1>11. push' \in Seq(Notices)
  <2>1. Append(push, Item("OK", id)) \in Seq(Notices)
    BY <1>1, <1>10, AppendProperties
  <2> QED
    BY <1>1, <1>3, <2>1
<1>12. msgs \in Seq(Messages)
  BY <1>10
<1> HIDE DEF msgs
<1>13. Proceeds(c, c')
  BY <1>2, <1>3, <1>12
<1> QED
  BY <1>1, <1>3, <1>9, <1>11, <1>13, ClientProceeds

(* A push subscription, or those of a status, are removed.                 *)
LEMMA GrantRemoval ==
  ASSUME Inv, c.out # <<>>, conn' = conn, Grant(Head(c.out)),
         Head(c.out).kind = "deactivate" \/ Head(c.out).kind = "filter"
  PROVE  Inv'
<1> DEFINE req == Head(c.out)
           id == req.id
           subs == server.subs
           D == DOMAIN subs \ {id}
           rest == [k \in D |-> subs[k]]
           none == <<>>
<1>1. server \in Servers /\ push \in Seq(Notices) /\ used \in Uses
  BY DEF Inv
<1>2. /\ req \in Requests
      /\ \A q \in Seq(Messages) : Proceeds(c, Listen(Answer(req, TRUE), q))
  BY Replied
<1>3. CASE req.kind = "deactivate"
  <2> DEFINE msgs == <<Item("DELETE", id)>>
  <2>1. /\ server' = [server EXCEPT !.subs = rest]
        /\ push' = Append(push, Item("DEL", id))
        /\ c' = Listen(Answer(req, TRUE), msgs)
        /\ UNCHANGED used
    BY <1>3 DEF Grant, Without
  <2> HIDE DEF req
  <2>2. id \in Nat
    BY <1>2 DEF Requests
  <2> HIDE DEF id
  <2>3. subs \in Catalogues
    BY <1>1 DEF Servers
  <2>4. subs \in [DOMAIN subs -> [Parts -> Nat]] /\ D \in SUBSET Nat /\ IsFiniteSet(D)
    BY <2>3, CatalogueIs, FS_Subset
  <2> HIDE DEF subs
  <2>5. rest \in [D -> [Parts -> Nat]]
    BY <2>4
  <2>6. server.seen \in SUBSET Nat
    BY <1>1 DEF Servers
  <2> HIDE DEF rest, D
  <2>7. server' \in Servers
    BY <1>1, <2>1, <2>4, <2>5, <2>6, ServerIs
  <2>8. Item("DEL", id) \in Notices /\ Item("DELETE", id) \in Messages
    BY <2>2 DEF Item, Notices, Messages
  <2>9. push' \in Seq(Notices)
    BY <1>1, <2>1, <2>8, AppendProperties
  <2>10. msgs \in Seq(Messages)
    BY <2>8
  <2> HIDE DEF msgs
  <2>11. Proceeds(c, c')
    BY <1>2, <2>1, <2>10
  <2> QED
    BY <1>1, <2>1, <2>7, <2>9, <2>11, ClientProceeds
<1>4. CASE req.kind = "filter"
  <2> DEFINE msgs == Items("DELETE", DOMAIN server.subs)
             gone == Items("DEL", DOMAIN server.subs)
  <2>1. /\ server' = [server EXCEPT !.subs = none]
        /\ push' = push \o gone
        /\ c' = Listen(Answer(req, TRUE), msgs)
        /\ UNCHANGED used
    BY <1>4 DEF Grant
  <2>2. msgs \in Seq(Messages) /\ gone \in Seq(Notices)
    BY <1>1, CatalogueItems
  <2>3. none \in Catalogues
    BY NoCatalogue
  <2> HIDE DEF msgs, gone, none, req
  <2>4. server' \in Servers
    BY <1>1, <2>1, <2>3 DEF Servers
  <2>5. push' \in Seq(Notices)
    BY <1>1, <2>1, <2>2, ConcatProperties
  <2>6. Proceeds(c, c')
    BY <1>2, <2>1, <2>2
  <2> QED
    BY <1>1, <2>1, <2>4, <2>5, <2>6, ClientProceeds
<1> QED
  BY <1>3, <1>4

(* A change of a push subscription is granted.                             *)
LEMMA GrantConfigure ==
  ASSUME Inv, c.out # <<>>, conn' = conn, Grant(Head(c.out)), Head(c.out).kind = "configure"
  PROVE  Inv'
<1> DEFINE req == Head(c.out)
           id == req.id
           part == req.part
           value == req.values[part]
           subs == server.subs
           D == DOMAIN subs
           row == [subs[id] EXCEPT ![part] = value]
           changed == [subs EXCEPT ![id] = row]
<1>1. server \in Servers /\ push \in Seq(Notices) /\ used \in Uses
  BY DEF Inv
<1>2. req \in Requests /\ Proceeds(c, Answer(req, TRUE))
  BY Replied
<1>3. /\ server' = [server EXCEPT !.subs = changed]
      /\ c' = Answer(req, TRUE) /\ UNCHANGED <<push, used>> /\ id \in D
  BY DEF Grant, IsLegal
<1> HIDE DEF req
<1>4. part \in {"none"} \cup Parts /\ req.values \in [Parts -> Nat]
  BY <1>2 DEF Requests
<1>5. part \in Parts => value \in Nat
  BY <1>4
<1> HIDE DEF part, value, id
<1>6. subs \in Catalogues /\ server.seen \in SUBSET Nat
  BY <1>1 DEF Servers
<1> HIDE DEF subs
<1>7. D \in SUBSET Nat /\ IsFiniteSet(D) /\ subs \in [D -> [Parts -> Nat]]
  BY <1>6, CatalogueIs
<1> HIDE DEF D
<1>8. row \in [Parts -> Nat]
  <2>1. subs[id] \in [Parts -> Nat]
    BY <1>3, <1>7
  <2> QED
    BY <1>5, <2>1
<1> HIDE DEF row
<1>9. changed \in [D -> [Parts -> Nat]]
  BY <1>7, <1>8
<1> HIDE DEF changed
<1>10. server' \in Servers
  BY <1>1, <1>3, <1>6, <1>7, <1>9, ServerIs
<1> QED
  BY <1>1, <1>2, <1>3, <1>10, ClientProceeds

(* A reset of the badge is granted.                                        *)
LEMMA GrantBadge ==
  ASSUME Inv, c.out # <<>>, conn' = conn, Grant(Head(c.out)), Head(c.out).kind = "badge"
  PROVE  Inv'
<1>1. server \in Servers /\ push \in Seq(Notices) /\ used \in Uses
  BY DEF Inv
<1>2. c' = Answer(Head(c.out), TRUE) /\ UNCHANGED <<server, push, used>>
  BY DEF Grant
<1>3. Proceeds(c, c')
  BY <1>2, Replied
<1> QED
  BY <1>1, <1>2, <1>3, ClientProceeds

(* The server handles the first request.                                   *)
LEMMA ServerKeeps ==
  ASSUME Inv, ServerHandles
  PROVE  Inv'
<1>1. conn' = conn /\ c.out # <<>> /\ (Refuse(Head(c.out)) \/ Grant(Head(c.out)))
  BY DEF ServerHandles
<1>2. CASE Refuse(Head(c.out))
  BY <1>1, <1>2, RefuseKeeps
<1>3. CASE Grant(Head(c.out))
  <2>1. Head(c.out) \in Requests
    <3>1. TRUE \in BOOLEAN
      OBVIOUS
    <3> QED
      BY <1>1, <3>1, Replied
  <2>2. Head(c.out).kind \in Kinds
    BY <2>1 DEF Requests
  <2> QED
    BY <1>1, <1>3, <2>2, GrantRegister, GrantActivate, GrantRemoval, GrantConfigure, GrantBadge
       DEF Kinds
<1> QED
  BY <1>1, <1>2, <1>3
-----------------------------------------------------------------------------
(* Theorems                                                                *)

LEMMA InitClient ==
  ASSUME Init
  PROVE  Steady(c) /\ ~c.up /\ ~c.failed /\ c.m = 400 /\ AllDormant(c)
<1> DEFINE none == <<>>
           no == FALSE
           start == 400
<1>1. c = [m |-> start, tk |-> None, sbs |-> None, ft |-> None, bg |-> None,
           id |-> None, token |-> None, device |-> None, candidates |-> none,
           snapshot |-> {}, filters |-> 0, badge |-> no, mgr |-> none,
           item |-> NoItem, listed |-> {}, up |-> no, out |-> none, replies |-> {},
           failed |-> no]
  BY DEF Init
<1>2. none \in Seq(Nat) /\ none \in Seq(Requests) /\ none \in Seq(Messages) /\ DOMAIN none = {}
  OBVIOUS
<1>3. none \in Tables
  <2> DEFINE D == {}
  <2>1. D \in SUBSET Numbers /\ none \in [D -> Managers]
    OBVIOUS
  <2> HIDE DEF D, none
  <2> QED
    BY <2>1, IsTable
<1>4. NoItem \in SpecialItems
  <2> DEFINE state == "none"
  <2>1. state \in {"none", "asked", "live"} /\ {} \in SUBSET Nat
    OBVIOUS
  <2>2. NoItem = [state |-> state, queue |-> none, second |-> {}]
    BY DEF NoItem
  <2> HIDE DEF state, none
  <2> QED
    BY <1>2, <2>1, <2>2 DEF SpecialItems
<1>5. no \in BOOLEAN /\ start \in Nat /\ None \in Nat /\ {} \in SUBSET Nat /\ {} \in SUBSET Replies
      /\ 0 \in Nat
  BY DEF None
<1> HIDE DEF none, no, start
<1>6. c \in Clients
  BY <1>1, <1>2, <1>3, <1>4, <1>5 DEF Clients
<1>7. /\ c.m = start /\ c.tk = None /\ c.sbs = None /\ c.ft = None /\ c.bg = None
      /\ c.mgr = none /\ c.up = no /\ c.failed = no /\ c.out = none /\ c.replies = {}
  BY <1>1
<1>8. ~c.up /\ ~c.failed /\ c.m = 400 /\ DOMAIN c.mgr = {} /\ DOMAIN c.out = {}
  BY <1>2, <1>7 DEF no, start
<1>9. ManagersOK(c)
  BY <1>6, <1>7, <1>8 DEF ManagersOK, AirOK, InAir
<1>10. DeviceOK(c)
  BY <1>7, <1>8 DEF DeviceOK, RegisterOK, RegisterState, RegisterAir, FilterOK, FilterState,
                    BadgeOK, BadgeState, ItemOK, None
<1> QED
  BY <1>8, <1>9, <1>10 DEF Steady, AllDormant

LEMMA InitServer ==
  ASSUME Init
  PROVE  server \in Servers /\ push \in Seq(Notices) /\ used \in Uses
<1> DEFINE subs == [id \in Existing |-> NoValues]
           one == 1
           zero == 0
<1>1. Existing \in SUBSET Nat /\ IsFiniteSet(Existing)
  BY MpnAssumption
<1>2. NoValues \in [Parts -> Nat]
  BY DEF NoValues, None
<1>3. subs \in [Existing -> [Parts -> Nat]]
  BY <1>2
<1>4. subs \in Catalogues
  BY <1>1, <1>3, IsCatalogue
<1>5. server = [token |-> None, dev |-> one, subs |-> subs, seen |-> {}, registered |-> None]
  BY DEF Init
<1>6. used = [devices |-> zero, subscribes |-> zero, events |-> zero] /\ push = <<>>
  BY DEF Init, Unused
<1>7. None \in Nat /\ one \in Nat \ {0} /\ zero \in Nat /\ {} \in SUBSET Nat
  BY DEF None
<1> HIDE DEF subs, one, zero
<1>8. server \in Servers
  BY <1>4, <1>5, <1>7 DEF Servers
<1>9. used \in Uses
  BY <1>6, <1>7 DEF Uses
<1> QED
  BY <1>6, <1>8, <1>9

(* It holds at first.                                                      *)
LEMMA InitInv == Init => Inv
<1> SUFFICES ASSUME Init PROVE Inv
  OBVIOUS
<1>1. Steady(c) /\ ~c.up /\ ~c.failed /\ c.m = 400 /\ AllDormant(c)
  BY InitClient
<1>2. conn = "off"
  BY DEF Init
<1>3. Agrees(c, conn)
  BY <1>1, <1>2 DEF Agrees, Sound
<1> QED
  BY <1>1, <1>3, InitServer DEF Inv

(* It is kept by every action.                                             *)
LEMMA NextInv == Inv /\ [Next]_vars => Inv'
<1> SUFFICES ASSUME Inv, [Next]_vars PROVE Inv'
  OBVIOUS
<1>1. CASE \/ registerForMpn \/ subscribeMpn \/ unsubscribeMpn \/ setProperty
           \/ unsubscribeMpnSubscriptions \/ resetBadge
  BY <1>1, CallsKeep
<1>2. CASE evtExtConnect \/ evtCONOK \/ LoseChannel \/ Rebind \/ evtRetry \/ evtTerminate
  BY <1>2, SessionKeeps
<1>3. CASE ReplyIsRead
  BY <1>3, ReplyKeeps
<1>4. CASE NotificationIsRead
  BY <1>4, NotificationKeeps
<1>5. CASE KeyIsListened \/ StatusIsListened
  BY <1>5, ListenersKeep
<1>6. CASE SpecialItemFails
  BY <1>6, SpecialItemKeeps
<1>7. CASE Snapshot
  BY <1>7, SnapshotKeeps
<1>8. CASE ServerHandles
  BY <1>8, ServerKeeps
<1>9. CASE UNCHANGED vars
  BY <1>9 DEF Inv, vars
<1> QED
  BY <1>1, <1>2, <1>3, <1>4, <1>5, <1>6, <1>7, <1>8, <1>9 DEF Next

(* The types of the client and the server, and what the managers of push   *)
(* subscriptions, the device and its requests know of one another, between *)
(* any two handlers of MpnClientMachine and MpnSubscriptionManager.        *)
THEOREM InvHolds == Spec => []Inv
<1> QED
  BY InitInv, NextInv, PTL DEF Spec

(* It says that nothing is forgotten.                                      *)
LEMMA InvRemembers == Inv => NothingForgotten
<1> SUFFICES ASSUME Inv PROVE NothingForgotten
  OBVIOUS
<1>1. Steady(c)
  BY DEF Inv
<1>2. /\ c.tk = 451 => c.candidates = <<>>
      /\ c.ft = 431 => c.filters = 0
      /\ c.bg = 441 => ~c.badge
  BY <1>1 DEF Steady, DeviceOK, RegisterOK, RegisterState, FilterOK, FilterState, BadgeOK,
              BadgeState
<1>3. \A n \in DOMAIN c.mgr :
         /\ c.mgr[n].ct = 71 => c.mgr[n].uu # 11 /\ \A part \in Parts : c.mgr[n].upd[part] # 1
         /\ c.m = 405 => c.mgr[n].m # 41
  BY <1>1 DEF Steady, ManagersOK, ManagerOK, NoneWaits
<1>4. ASSUME c.up
      PROVE  LET pending == getPendingControls(c)
             IN \A i \in DOMAIN pending : InFlight(pending[i])
  <2>1. \A req : InAir(c, req.kind, req.n) => InFlight(req)
    BY DEF InAir, InFlight, SameRequest
  <2> QED
    BY <1>1, <1>4, <2>1, PendingInAir
<1> QED
  BY <1>2, <1>3, <1>4 DEF NothingForgotten

(* No region of the device or of a push subscription rests with something  *)
(* to do, and while there is a channel each pending request, or its reply, *)
(* or its notification, is on its way: evtCheck and evtMpnCheck look again *)
(* after each answer, and evtSendPendingControls sends again what a lost   *)
(* channel took.                                                           *)
THEOREM NothingIsForgotten == Spec => []NothingForgotten
<1> QED
  BY InvHolds, InvRemembers, PTL

(* No request is made without the identifier of the device that it needs   *)
(* (evtAbort and evtTerminate_MpnRegion leave none that could be), where no*)
(* device is given up under its push subscriptions: evtMpnError and a token*)
(* that is refused with no other to try (device_lost) do so, and then      *)
(* the requests of its push subscriptions throw.                           *)
THEOREM RequestsAreEncoded ==
  ASSUME "device_lost" \in Avoided
  PROVE  Spec => []RequestsCanBeEncoded
<1>1. Inv => RequestsCanBeEncoded
  BY DEF Inv, Agrees, Sound, RequestsCanBeEncoded
<1> QED
  BY <1>1, InvHolds, PTL
-----------------------------------------------------------------------------
(* The device and the server                                               *)

(* A registration was asked for and MPNREG is awaited.                     *)
Expects(s) == s.m \in {403, 404, 406, 407} \/ s.tk \in {453, 454}

(* Each device of the application has a token.                             *)
Offers(s) == \A i \in DOMAIN s.candidates : s.candidates[i] # None
Tokens(s) == Offers(s) /\ (s.m \notin {400, 401} => s.device # None)

(* Registrations are of no manager and there is none without a channel;    *)
(* that which is awaited is the last one, and its answer has not come.     *)
Airborne(s) ==
    /\ \A i \in Registers(s) :
          /\ s.out[i].n = None /\ s.out[i].token # None
          /\ s.out[i].last => Answers(s) = {} /\ \A j \in Registers(s) : j <= i
    /\ \A r \in Answers(s) : r.n = None
    /\ ~s.up => Registers(s) = {} /\ Answers(s) = {}

(* Each of them repeats what the server registered in this session (token),*)
(* or is of the device that is being registered; an answer to the latter   *)
(* tells whether the server registered it.                                 *)
Stale(s, token) == \A i \in Registers(s) : s.out[i].token = token
Latest(s, token) ==
    /\ \A i \in Registers(s) :
          s.out[i].token = IF s.out[i].last /\ Expects(s) THEN s.device ELSE token
    /\ Expects(s) => \A r \in Answers(s) : r.ok <=> token = s.device
Requested(s, token) == Airborne(s) /\ Latest(s, token)

(* A MPNREG on its way is the only one, and is of what is being registered.*)
Registered(q) == {i \in DOMAIN q : q[i].kind = "REG"}
Announced(s, srv, q) ==
    \A i \in Registered(q) :
        /\ Expects(s) /\ srv.registered = s.device /\ q[i].id = srv.dev
        /\ \A j \in Registered(q) : j = i

(* An active device with nothing to register has what the server has.      *)
Known(s, srv) ==
    /\ s.m = 405 /\ s.tk \notin {453, 454} => s.token = srv.token /\ s.id = srv.dev
    /\ srv.registered # None => srv.token = srv.registered

InSession(session, q) == session \in {"off", "retry"} => q = <<>>

Concord(s, srv, session, q) ==
    /\ Tokens(s) /\ Requested(s, srv.registered) /\ Announced(s, srv, q) /\ Known(s, srv)
    /\ InSession(session, q)

(* The inductive invariant of the device.                                  *)
DeviceInv == Inv /\ Concord(c, server, conn, push)

LEMMA AirborneKept ==
  ASSUME NEW x, NEW y, y.up = x.up, Untouched(x, y), Airborne(x)
  PROVE  Airborne(y) /\ SameAir(x, y)
<1>1. Numbered(x)
  BY DEF Airborne, Numbered
<1>2. SameAir(x, y)
  BY <1>1 DEF Untouched
<1> QED
  BY <1>2 DEF Airborne, SameAir

LEMMA AsideAir ==
  ASSUME NEW x, NEW y, Aside(x, y), Airborne(x), NEW token
  PROVE  Airborne(y) /\ (Stale(x, token) => Stale(y, token)) /\ (Latest(x, token) => Latest(y, token))
<1>1. Airborne(y) /\ SameAir(x, y)
  BY AirborneKept DEF Aside
<1>2. Expects(y) = Expects(x)
  BY DEF Expects, Aside
<1> QED
  BY <1>1, <1>2 DEF Stale, Latest, SameAir, Aside

LEMMA AsideConcord ==
  ASSUME NEW x, NEW y, NEW srv, NEW session, NEW q, Aside(x, y), Concord(x, srv, session, q)
  PROVE  Concord(y, srv, session, q)
<1>1. Requested(y, srv.registered)
  BY AsideAir DEF Concord, Requested
<1>2. Tokens(y) /\ Announced(y, srv, q) /\ Known(y, srv)
  BY DEF Concord, Tokens, Offers, Announced, Known, Expects, Aside
<1> QED
  BY <1>1, <1>2 DEF Concord

LEMMA StaleLatest ==
  ASSUME NEW s, NEW token, Airborne(s)
  PROVE  /\ ~Expects(s) => (Latest(s, token) <=> Stale(s, token))
         /\ Latest(s, token) /\ token = s.device => Stale(s, token)
         /\ Latest(s, token) /\ Answers(s) # {} => Stale(s, token)
  BY DEF Airborne, Latest, Stale

(* A registration is sent after old ones, or none is.                      *)
LEMMA RegisterSends ==
  ASSUME NEW s \in Clients, NEW token, Airborne(s), Stale(s, token), Expects(s),
         s.device # None
  PROVE  SameDevice(s, Register(s)) /\ Requested(Register(s), token)
<1> DEFINE y == Register(s)
           req == Request(s, "register", None)
           reqs == <<req>>
<1>1. y = evtSendControl(s, req) /\ req.kind = "register" /\ req.n = None /\ req.last
      /\ req.token = s.device
  BY DEF Register, Request
<1>2. req \in Requests
  <2>1. "register" \in Kinds
    BY DEF Kinds
  <2> QED
    BY <2>1, RequestIs
<1>3. DOMAIN reqs = {1} /\ reqs[1] = req /\ Len(reqs) = 1
  OBVIOUS
<1> HIDE DEF y, req
<1>4. SameDevice(s, y) /\ (s.up => Encoded(s, y, reqs))
  BY <1>1, <1>2, ControlIs
<1> HIDE DEF reqs
<1>5. CASE ~s.up
  <2>1. y = s
    BY <1>1, <1>5 DEF evtSendControl
  <2>2. Registers(s) = {} /\ Answers(s) = {}
    BY <1>5 DEF Airborne
  <2> QED
    BY <1>4, <2>1, <2>2 DEF Requested, Latest, y
<1>6. CASE s.up
  <2> DEFINE N == Len(s.out)
  <2>1. /\ N \in Nat /\ DOMAIN s.out = 1..N /\ DOMAIN y.out = 1..(N + 1)
        /\ \A i \in 1..N : /\ y.out[i].kind = s.out[i].kind /\ y.out[i].n = s.out[i].n
                           /\ y.out[i].token = s.out[i].token
                           /\ y.out[i].last = (s.out[i].last /\ ~Replaced(reqs, s.out[i]))
        /\ y.out[N + 1] = req
        /\ y.replies = {r \in s.replies : ~Replaced(reqs, r)}
    BY <1>3, <1>4, <1>6 DEF Encoded
  <2> HIDE DEF N
  <2>2. \A r : r.kind = "register" /\ r.n = None => Replaced(reqs, r)
    BY <1>1, <1>3 DEF Replaced, SameRequest
  <2>3. Answers(y) = {}
    BY <2>1, <2>2 DEF Answers, Airborne
  <2>4. ASSUME NEW i \in Registers(y), i # N + 1
        PROVE  y.out[i].n = None /\ y.out[i].token = token /\ token # None /\ ~y.out[i].last
    <3>1. i \in 1..N
      BY <2>1, <2>4 DEF Registers
    <3>2. i \in Registers(s)
      BY <2>1, <2>4, <3>1 DEF Registers
    <3> QED
      BY <2>1, <2>2, <3>1, <3>2 DEF Registers, Airborne, Stale
  <2>5. /\ y.out[N + 1].n = None /\ y.out[N + 1].token = s.device
        /\ \A j \in Registers(y) : j <= N + 1
    BY <1>1, <2>1 DEF Registers
  <2>6. y.device = s.device /\ y.up /\ Expects(y) = Expects(s)
    BY <1>4, <1>6 DEF SameDevice, Expects
  <2>7. y.out[N + 1].token # None /\ N + 1 \in DOMAIN y.out /\ y.out[N + 1].last
    BY <1>1, <2>1
  <2>8. ASSUME NEW i \in Registers(y)
        PROVE  /\ y.out[i].n = None /\ y.out[i].token # None
               /\ y.out[i].last => \A j \in Registers(y) : j <= i
    BY <2>4, <2>5, <2>7
  <2>9. Airborne(y)
    BY <2>3, <2>6, <2>8 DEF Airborne
  <2>10. Latest(y, token)
    BY <2>3, <2>4, <2>5, <2>6, <2>7 DEF Latest
  <2> QED
    BY <1>4, <2>9, <2>10 DEF Requested, y
<1> QED
  BY <1>5, <1>6
-----------------------------------------------------------------------------
(* What the handlers of the device do to what is under way                 *)

(* A registration is the first of the requests that are pending.           *)
FirstOnly(q) == \A i \in DOMAIN q : q[i].kind = "register" => i = 1

LEMMA FirstOfBoth ==
  ASSUME NEW S, NEW a \in Seq(S), NEW b \in Seq(S), FirstOnly(a),
         \A r : Among(b, r) => r.kind # "register"
  PROVE  FirstOnly(a \o b)
<1> DEFINE q == a \o b
<1>1. q \in Seq(S) /\ Len(a) \in Nat /\ Len(b) \in Nat /\ Len(q) = Len(a) + Len(b)
  BY ConcatProperties
<1>2. DOMAIN q = 1..Len(q) /\ DOMAIN a = 1..Len(a) /\ DOMAIN b = 1..Len(b)
  BY <1>1, LenProperties
<1>3. \A i \in 1..Len(a) : q[i] = a[i]
  BY ConcatProperties
<1>4. \A j \in 1..Len(b) : q[Len(a) + j] = b[j]
  BY <1>1
<1> HIDE DEF q
<1>5. ASSUME NEW i \in 1..Len(q), q[i].kind = "register" PROVE i = 1
  <2>1. CASE i <= Len(a)
    <3>1. i \in 1..Len(a) /\ q[i] = a[i]
      BY <1>1, <1>3, <2>1
    <3> QED
      BY <1>2, <1>5, <3>1 DEF FirstOnly
  <2>2. CASE i > Len(a)
    <3>1. i - Len(a) \in 1..Len(b) /\ Len(a) + (i - Len(a)) = i
      BY <1>1, <2>2
    <3>2. b[i - Len(a)] = q[i]
      BY <1>4, <3>1
    <3>3. Among(b, q[i])
      BY <1>2, <3>1, <3>2 DEF Among
    <3> QED
      BY <1>5, <3>3
  <2> QED
    BY <1>1, <2>1, <2>2
<1> QED
  BY <1>2, <1>5 DEF FirstOnly, q

LEMMA OneRegistration ==
  ASSUME NEW s, ManagersOK(s)
  PROVE  /\ FirstOnly(getPendingControls(s))
         /\ \A i \in DOMAIN getPendingControls(s) :
               LET req == getPendingControls(s)[i] IN
               req.kind = "register" =>
                  isPendingRegister(s) /\ req.n = None /\ req.last /\ req.token = s.device
<1> DEFINE q1 == Perhaps(isPendingRegister(s), Request(s, "register", None))
           q2 == ManagerRequests(s)
           filter == s.ft = 432
           badge == s.bg = 442
           q3 == Perhaps(filter, Request(s, "filter", None))
           q4 == Perhaps(badge, Request(s, "badge", None))
           q == q1 \o q2 \o q3
<1>1. getPendingControls(s) = q1 \o q2 \o q3 \o q4
  BY DEF getPendingControls, Perhaps, ManagerRequests, Asking
<1>2. s \in Clients
  BY DEF ManagersOK
<1>3. \A kind \in {"register", "filter", "badge"} :
         Request(s, kind, None) \in Requests /\ Request(s, kind, None).kind = kind
  BY <1>2, RequestIs DEF Kinds
<1>0. filter \in BOOLEAN /\ badge \in BOOLEAN /\ isPendingRegister(s) \in BOOLEAN
  BY DEF isPendingRegister
<1> HIDE DEF filter, badge
<1>4. q1 \in Seq(Requests) /\ FirstOnly(q1)
  <2>1. q1 \in Seq(Requests)
    BY <1>0, <1>3, PerhapsIs
  <2>2. DOMAIN q1 \subseteq {1}
    BY DEF Perhaps
  <2> QED
    BY <2>1, <2>2 DEF FirstOnly
<1>5. q2 \in Seq(Requests) /\ \A r : Among(q2, r) => r.kind # "register"
  <2>1. q2 \in Seq(Requests) /\ \A r : Among(q2, r) => \E n \in Asking(s) : r = ManagerRequest(s, n)
    BY ManagerRequestsAre
  <2>2. \A n \in Asking(s) : ManagerRequest(s, n).kind # "register"
    BY <1>2, ManagerRequestIs DEF Asking, KindOf
  <2> QED
    BY <2>1, <2>2
<1>6. q3 \in Seq(Requests) /\ \A r : Among(q3, r) => r.kind # "register"
  <2>1. Request(s, "filter", None) \in Requests /\ Request(s, "filter", None).kind = "filter"
    BY <1>3
  <2>2. q3 \in Seq(Requests) /\ \A r : Among(q3, r) <=> filter /\ r = Request(s, "filter", None)
    BY ONLY <1>0, <2>1, PerhapsIs
  <2> QED
    BY <2>1, <2>2
<1>7. q4 \in Seq(Requests) /\ \A r : Among(q4, r) => r.kind # "register"
  <2>1. Request(s, "badge", None) \in Requests /\ Request(s, "badge", None).kind = "badge"
    BY <1>3
  <2>2. q4 \in Seq(Requests) /\ \A r : Among(q4, r) <=> badge /\ r = Request(s, "badge", None)
    BY ONLY <1>0, <2>1, PerhapsIs
  <2> QED
    BY <2>1, <2>2
<1> HIDE DEF q1, q2, q3, q4
<1>8. q1 \o q2 \in Seq(Requests) /\ FirstOnly(q1 \o q2)
  BY <1>4, <1>5, FirstOfBoth, ConcatProperties
<1>9. q \in Seq(Requests) /\ FirstOnly(q)
  BY <1>6, <1>8, FirstOfBoth, ConcatProperties
<1>10. getPendingControls(s) = q \o q4
  BY <1>1
<1> HIDE DEF q
<1>11. FirstOnly(getPendingControls(s))
  BY <1>7, <1>9, <1>10, FirstOfBoth
<1>12. ASSUME NEW i \in DOMAIN getPendingControls(s), getPendingControls(s)[i].kind = "register"
       PROVE  LET req == getPendingControls(s)[i] IN
              isPendingRegister(s) /\ req.n = None /\ req.last /\ req.token = s.device
  <2> DEFINE req == getPendingControls(s)[i]
  <2>1. Wanted(s, req)
    BY PendingControlsAre DEF Among
  <2>2. req.kind = "register"
    BY <1>12
  <2> HIDE DEF req
  <2>3. req.last /\ req.n = None /\ isPendingRegister(s)
    BY <2>1, <2>2, WantedIs DEF DeviceKinds
  <2>4. ASSUME NEW n \in Asking(s) PROVE req # ManagerRequest(s, n)
    <3>1. ManagerRequest(s, n).kind # "register"
      BY <1>2, ManagerRequestIs DEF Asking, KindOf
    <3> QED
      BY <2>2, <3>1
  <2>5. req = Request(s, "register", None)
    BY <1>3, <2>1, <2>2, <2>4 DEF Wanted
  <2> QED
    BY <2>3, <2>5 DEF Request, req
<1> QED
  BY <1>11, <1>12

(* A new channel: nothing was under way, a registration may be now.        *)
LEMMA ChannelSends ==
  ASSUME NEW s, Steady(s), Registers(s) = {}, Answers(s) = {}, NEW token,
         isPendingRegister(s) => s.device # None
  PROVE  LET y == evtSendPendingControls(s) IN
         /\ y.m = s.m /\ y.tk = s.tk /\ y.id = s.id /\ y.token = s.token /\ y.device = s.device
         /\ y.candidates = s.candidates /\ y.up
         /\ Requested(y, token)
<1> DEFINE yes == TRUE
           x == [s EXCEPT !.up = yes]
           q == getPendingControls(s)
           y == evtSendPendingControls(s)
<1>1. s \in Clients /\ ManagersOK(s) /\ yes \in BOOLEAN
  BY DEF Steady, ManagersOK
<1>2. y = encode(x, q)
  BY DEF evtSendPendingControls
<1>3. q \in Seq(Requests) /\ \A j \in DOMAIN q : q[j].last
  BY <1>1, PendingControlsAre, WantedIs DEF Among
<1>4. /\ FirstOnly(q)
      /\ \A i \in DOMAIN q :
            q[i].kind = "register" =>
               isPendingRegister(s) /\ q[i].n = None /\ q[i].last /\ q[i].token = s.device
  BY <1>1, OneRegistration
<1> HIDE DEF q, y
<1>5. x \in Clients
  BY <1>1 DEF Clients
<1>6. /\ x.m = s.m /\ x.tk = s.tk /\ x.id = s.id /\ x.token = s.token /\ x.device = s.device
      /\ x.candidates = s.candidates /\ x.up /\ x.out = s.out /\ x.replies = s.replies
  BY <1>1 DEF Clients
<1> HIDE DEF x, yes
<1>7. SameDevice(x, y) /\ Encoded(x, y, q)
  BY <1>2, <1>3, <1>5, EncodeIs
<1>8. /\ y.m = s.m /\ y.tk = s.tk /\ y.id = s.id /\ y.token = s.token /\ y.device = s.device
      /\ y.candidates = s.candidates /\ y.up
  BY <1>6, <1>7 DEF SameDevice
<1> DEFINE N == Len(s.out)
<1>9. /\ N \in Nat /\ Len(q) \in Nat /\ DOMAIN q = 1..Len(q) /\ DOMAIN s.out = 1..N
      /\ DOMAIN y.out = 1..(N + Len(q))
      /\ \A i \in 1..N : y.out[i].kind = s.out[i].kind
      /\ \A j \in 1..Len(q) : y.out[N + j] = q[j]
      /\ y.replies \subseteq s.replies
  BY <1>6, <1>7 DEF Encoded
<1> HIDE DEF N
<1>10. ASSUME NEW i \in Registers(y)
       PROVE  /\ i = N + 1 /\ y.out[i].n = None /\ y.out[i].last /\ y.out[i].token = s.device
              /\ isPendingRegister(s)
  <2>1. i \in 1..(N + Len(q)) /\ y.out[i].kind = "register"
    BY <1>9, <1>10 DEF Registers
  <2>2. i \notin 1..N
    BY <1>9, <2>1 DEF Registers
  <2>3. i - N \in 1..Len(q) /\ N + (i - N) = i
    BY <1>9, <2>1, <2>2
  <2>4. y.out[i] = q[i - N] /\ i - N \in DOMAIN q
    BY <1>9, <2>3
  <2>5. i - N = 1
    BY <1>4, <2>1, <2>4 DEF FirstOnly
  <2>6. isPendingRegister(s) /\ q[i - N].n = None /\ q[i - N].last /\ q[i - N].token = s.device
    BY <1>4, <2>1, <2>4
  <2> QED
    BY <1>9, <2>3, <2>4, <2>5, <2>6
<1>11. Answers(y) = {}
  BY <1>9 DEF Answers
<1>12. isPendingRegister(s) => Expects(y)
  BY <1>8 DEF isPendingRegister, Expects
<1>13. Airborne(y)
  BY <1>8, <1>9, <1>10, <1>11 DEF Airborne
<1>14. Latest(y, token)
  BY <1>8, <1>10, <1>11, <1>12 DEF Latest
<1> QED
  BY <1>8, <1>13, <1>14 DEF Requested, y

LEMMA SameWay ==
  ASSUME NEW x, NEW y, y.out = x.out, y.replies = x.replies, y.up = x.up, Airborne(x),
         NEW token, Stale(x, token)
  PROVE  Airborne(y) /\ Stale(y, token)
  BY AirborneKept, UntouchedSame DEF Stale, SameAir

(* The next token is registered.                                           *)
LEMMA NextRegisters ==
  ASSUME NEW s \in Clients, s.candidates # <<>>, Offers(s), Airborne(s), NEW token, Stale(s, token),
         NEW x \in Clients, Stays(doRegisterMpnDevice(s), x), Expects(x),
         x.device = doRegisterMpnDevice(s).device, x.candidates = doRegisterMpnDevice(s).candidates
  PROVE  SameDevice(x, Register(x)) /\ Tokens(Register(x)) /\ Requested(Register(x), token)
<1>1. /\ Stays(s, doRegisterMpnDevice(s)) /\ x.device = Head(s.candidates)
      /\ x.candidates = Tail(s.candidates)
  BY NextDeviceIs
<1>2. x.out = s.out /\ x.replies = s.replies /\ x.up = s.up
  BY <1>1 DEF Stays
<1>3. s.candidates \in Seq(Nat)
  BY DEF Clients
<1>4. /\ Head(s.candidates) = s.candidates[1] /\ 1 \in DOMAIN s.candidates
      /\ \A i \in DOMAIN Tail(s.candidates) :
            i + 1 \in DOMAIN s.candidates /\ Tail(s.candidates)[i] = s.candidates[i + 1]
  BY <1>3
<1>5. x.device # None /\ Offers(x)
  BY <1>1, <1>4 DEF Offers
<1>6. Airborne(x) /\ Stale(x, token)
  BY <1>2, SameWay
<1>7. SameDevice(x, Register(x)) /\ Requested(Register(x), token)
  BY <1>5, <1>6, RegisterSends
<1> QED
  BY <1>5, <1>7 DEF Tokens, Offers, SameDevice

(* Nothing is registered.                                                  *)
LEMMA NothingNext ==
  ASSUME NEW s, Offers(s), Airborne(s), NEW token, Stale(s, token), NEW y, y.m = 401,
         y.tk = None, y.candidates = s.candidates, y.out = s.out, y.replies = s.replies, y.up = s.up
  PROVE  Tokens(y) /\ Requested(y, token)
<1>1. Airborne(y) /\ Stale(y, token)
  BY SameWay
<1>2. ~Expects(y)
  BY DEF Expects, None
<1> QED
  BY <1>1, <1>2 DEF Tokens, Offers, Requested, Latest, Stale

LEMMA GivenUpSame ==
  ASSUME NEW s \in Clients
  PROVE  LET y == doResetMpnDevice(LeaveActive(s, 401)) IN
         /\ y.m = 401 /\ y.tk = None /\ y.candidates = s.candidates /\ y.out = s.out
         /\ y.replies = s.replies /\ y.up = s.up
<1> DEFINE x == LeaveActive(s, 401)
<1>1. /\ x \in Clients /\ x.tk = None /\ x.candidates = s.candidates /\ x.out = s.out
      /\ x.replies = s.replies /\ x.up = s.up
  BY LeaveActiveIs
<1> HIDE DEF x
<1>2. LET y == doResetMpnDevice(x) IN
      /\ y.m = 401 /\ y.tk = None /\ y.candidates = s.candidates /\ y.out = s.out
      /\ y.replies = s.replies /\ y.up = s.up
  BY <1>1, ResetIs
<1> QED
  BY <1>2 DEF x

LEMMA CheckNextRequests ==
  ASSUME NEW s \in Clients,
         \/ s.m \in {402, 408} /\ s.tk = None
         \/ s.m = 405 /\ s.tk = 452,
         Offers(s), Airborne(s), NEW token, Stale(s, token)
  PROVE  LET y == evtMpnCheckNext(s) IN
         Tokens(y) /\ Requested(y, token) /\ (y.m = 405 => y.tk = 453)
<1> DEFINE y == evtMpnCheckNext(s)
           next == doRegisterMpnDevice(s)
<1>1. CASE s.candidates = <<>>
  <2>1. CASE s.m \in {402, 408} /\ s.tk = None
    <3>1. y = doResetMpnDevice(s)
      BY <1>1, <2>1 DEF evtMpnCheckNext, None
    <3>2. /\ y.m = 401 /\ y.tk = None /\ y.candidates = s.candidates /\ y.out = s.out
          /\ y.replies = s.replies /\ y.up = s.up
      BY <2>1, <3>1, ResetIs
    <3> HIDE DEF y
    <3>3. Tokens(y) /\ Requested(y, token)
      BY <3>2, NothingNext
    <3> QED
      BY <3>2, <3>3 DEF y
  <2>2. CASE s.m = 405 /\ s.tk = 452
    <3>1. y = doResetMpnDevice(LeaveActive(s, 401))
      BY <1>1, <2>2 DEF evtMpnCheckNext, None
    <3>2. /\ y.m = 401 /\ y.tk = None /\ y.candidates = s.candidates /\ y.out = s.out
          /\ y.replies = s.replies /\ y.up = s.up
      BY <3>1, GivenUpSame
    <3> HIDE DEF y
    <3>3. Tokens(y) /\ Requested(y, token)
      BY <3>2, NothingNext
    <3> QED
      BY <3>2, <3>3 DEF y
  <2> QED
    BY <2>1, <2>2
<1>2. CASE s.candidates # <<>>
  <2>1. next \in Clients /\ next.m = s.m /\ next.tk = s.tk
    BY <1>2, NextDeviceIs
  <2> HIDE DEF next
  <2>2. CASE s.m \in {402, 408} /\ s.tk = None
    <3> DEFINE v == IF s.m = 402 THEN 403 ELSE 406
               x == [next EXCEPT !.m = v]
    <3>1. y = Register(x)
      BY <1>2, <2>2 DEF evtMpnCheckNext, next, None
    <3>2. v \in {403, 406} /\ v \in Nat
      OBVIOUS
    <3> HIDE DEF v
    <3>3. /\ x \in Clients /\ Stays(next, x) /\ x.m = v /\ x.device = next.device
          /\ x.candidates = next.candidates
      BY <2>1, <3>2, SetM
    <3> HIDE DEF x
    <3>4. Expects(x)
      BY <3>2, <3>3 DEF Expects
    <3> HIDE DEF y
    <3>5. SameDevice(x, y) /\ Tokens(y) /\ Requested(y, token)
      BY <1>2, <3>1, <3>3, <3>4, NextRegisters DEF next
    <3>6. y.m # 405
      BY <3>2, <3>3, <3>5 DEF SameDevice
    <3> QED
      BY <3>5, <3>6 DEF y
  <2>3. CASE s.m = 405 /\ s.tk = 452
    <3> DEFINE v == 453
               x == [next EXCEPT !.tk = v]
    <3>1. y = Register(x)
      BY <1>2, <2>3 DEF evtMpnCheckNext, next
    <3>2. v \in Nat /\ v = 453
      OBVIOUS
    <3> HIDE DEF v
    <3>3. /\ x \in Clients /\ Stays(next, x) /\ x.tk = v /\ x.device = next.device
          /\ x.candidates = next.candidates
      BY <2>1, <3>2, SetTk
    <3> HIDE DEF x
    <3>4. Expects(x)
      BY <3>2, <3>3 DEF Expects
    <3> HIDE DEF y
    <3>5. SameDevice(x, y) /\ Tokens(y) /\ Requested(y, token)
      BY <1>2, <3>1, <3>3, <3>4, NextRegisters DEF next
    <3>6. y.tk = 453
      BY <3>2, <3>3, <3>5 DEF SameDevice
    <3> QED
      BY <3>5, <3>6 DEF y
  <2> QED
    BY <2>2, <2>3
<1> QED
  BY <1>1, <1>2

(* A device with a token to register does so, another one rests.           *)
LEMMA CheckPendingRequests ==
  ASSUME NEW s \in Clients, AirOK(s), s.m = 405, s.tk = 450, s.id # None, s.device # None,
         Offers(s), Airborne(s), NEW token, Stale(s, token)
  PROVE  LET y == evtMpnCheckPending(s) IN
         /\ Tokens(y) /\ Requested(y, token) /\ y.m = 405
         /\ y.tk = 453 \/ (y.tk = 451 /\ y.token = s.token /\ y.id = s.id)
<1> DEFINE y == evtMpnCheckPending(s)
<1>1. CASE s.candidates = <<>>
  <2> DEFINE v == 451
  <2>1. y = [s EXCEPT !.tk = v] /\ v \in Nat /\ v = 451
    BY <1>1 DEF evtMpnCheckPending
  <2> HIDE DEF v, y
  <2>2. /\ Stays(s, y) /\ y.tk = 451 /\ y.m = 405 /\ y.candidates = s.candidates
        /\ y.device = s.device /\ y.token = s.token
    BY <2>1, SetTk
  <2>3. Airborne(y) /\ Stale(y, token) /\ ~Expects(y) /\ y.id = s.id
    BY <2>2, SameWay DEF Stays, Expects
  <2> QED
    BY <2>2, <2>3 DEF Tokens, Offers, Requested, Latest, Stale, y
<1>2. CASE s.candidates # <<>>
  <2> DEFINE v == 452
             x == [s EXCEPT !.tk = v]
  <2>1. y = evtMpnCheckNext(x) /\ v \in Nat /\ v = 452
    BY <1>2 DEF evtMpnCheckPending
  <2> HIDE DEF v
  <2>2. /\ x \in Clients /\ Stays(s, x) /\ x.tk = 452 /\ x.m = 405 /\ x.candidates = s.candidates
    BY <2>1, SetTk
  <2> HIDE DEF x, y
  <2>3. Airborne(x) /\ Stale(x, token) /\ Offers(x)
    BY <2>2, SameWay DEF Stays, Offers
  <2>4. Tokens(y) /\ Requested(y, token) /\ (y.m = 405 => y.tk = 453)
    BY <2>1, <2>2, <2>3, CheckNextRequests
  <2>5. y.m = 405
    BY CheckPendingIs DEF SameActive, y
  <2> QED
    BY <2>4, <2>5 DEF y
<1> QED
  BY <1>1, <1>2

LEMMA AsideRequested ==
  ASSUME NEW x, NEW y, Aside(x, y), Tokens(x), NEW token, Requested(x, token)
  PROVE  Tokens(y) /\ Requested(y, token)
  BY AsideAir DEF Tokens, Offers, Requested, Aside

LEMMA AskedItem == [NoItem EXCEPT !.state = "asked"] \in SpecialItems
<1> DEFINE q == <<>>
           set == {}
           v == [[state |-> "none", queue |-> q, second |-> set] EXCEPT !.state = "asked"]
<1>1. [NoItem EXCEPT !.state = "asked"] = v
  BY DEF NoItem
<1>2. q \in Seq(Messages) /\ set \in SUBSET Nat
  OBVIOUS
<1> HIDE DEF q, set
<1>3. v = [state |-> "asked", queue |-> q, second |-> set]
  OBVIOUS
<1> QED
  BY <1>1, <1>2, <1>3 DEF SpecialItems

(* A device that becomes active has the token and the identifier.          *)
LEMMA BecomeActiveRequests ==
  ASSUME NEW s, ManagersOK(s), NEW dev \in Nat \ {0}, s.device # None, Offers(s), Airborne(s),
         NEW token, Stale(s, token)
  PROVE  LET y == BecomeActive(s, dev) IN
         /\ Tokens(y) /\ Requested(y, token) /\ y.m = 405
         /\ y.tk = 453 \/ (y.tk = 451 /\ y.token = s.device /\ y.id = dev)
<1> DEFINE a == Activated(s, dev)
           msg == Item("ACTIVE", None)
           b == EachManager(a, msg)
           v == [NoItem EXCEPT !.state = "asked"]
           d == [b EXCEPT !.item = v]
           e == evtMpnCheckPending(d)
           f == evtSUBS_Init(e)
           g == evtMpnCheckFilter(f)
           y == evtMpnCheckReset(g)
<1>1. BecomeActive(s, dev) = y
  BY DEF BecomeActive
<1>2. /\ DeviceStep(s, a) /\ a.m = 405 /\ a.ft = 430 /\ a.bg = 440 /\ a.tk = 450 /\ a.id = dev
      /\ a.out = s.out /\ a.replies = s.replies /\ a.candidates = s.candidates
      /\ a.device = s.device /\ a.token = s.device
  BY ActivatedIs DEF ManagersOK
<1>3. ManagersOK(a) /\ a.id # None /\ a.up = s.up
  BY <1>2, DeviceStepKeeps DEF None, DeviceStep
<1>4. Airborne(a) /\ Stale(a, token)
  BY <1>2, <1>3, SameWay
<1> HIDE DEF a
<1>5. ManagersOK(b) /\ SameDevice(a, b) /\ Untouched(a, b)
  BY <1>3, AllHear
<1> HIDE DEF b
<1>6. b \in Clients /\ AirOK(b) /\ Aside(a, b)
  BY <1>5, SameDeviceAside DEF ManagersOK
<1>7. v \in SpecialItems
  BY AskedItem
<1> HIDE DEF v
<1>8. Core(b, d) /\ d.ft = b.ft /\ d.bg = b.bg /\ Aside(b, d)
  BY <1>6, <1>7, SetItem
<1> HIDE DEF d
<1>9. Aside(a, d) /\ d \in Clients /\ AirOK(d)
  BY <1>6, <1>8, AsideTransitive DEF Core, DeviceStep
<1>10. /\ d.m = 405 /\ d.tk = 450 /\ d.id = dev /\ d.id # None /\ d.ft = 430 /\ d.bg = 440
       /\ d.device = s.device /\ d.token = s.device /\ d.candidates = s.candidates
  BY <1>2, <1>3, <1>5, <1>8, <1>9 DEF SameDevice, Aside
<1>11. Airborne(d) /\ Stale(d, token) /\ Offers(d)
  BY <1>4, <1>9, <1>10, AsideAir DEF Offers
<1>12. DeviceStep(d, e) /\ SameActive(d, e)
  BY <1>9, <1>10, CheckPendingIs
<1>13. /\ Tokens(e) /\ Requested(e, token) /\ e.m = 405
       /\ e.tk = 453 \/ (e.tk = 451 /\ e.token = d.token /\ e.id = d.id)
  BY <1>9, <1>10, <1>11, CheckPendingRequests
<1> HIDE DEF e
<1>14. e \in Clients /\ AirOK(e)
  BY <1>12 DEF DeviceStep
<1>15. SubsOnly(e, f)
  <2> DEFINE k == 421
  <2>1. k \in Nat /\ {} \in SUBSET Nat
    OBVIOUS
  <2>2. f = [e EXCEPT !.snapshot = {}, !.sbs = k]
    BY DEF evtSUBS_Init
  <2> HIDE DEF k, f
  <2> QED
    BY <1>14, <2>1, <2>2, SetSubs
<1> HIDE DEF f
<1>16. /\ f \in Clients /\ AirOK(f) /\ f.m = 405 /\ f.id # None /\ f.ft = 430 /\ f.bg = 440
       /\ Aside(e, f)
  BY <1>10, <1>12, <1>15 DEF SubsOnly, DeviceStep, SameActive
<1>17. Core(f, g) /\ g.bg = f.bg /\ Aside(f, g)
  BY <1>16, CheckFilterIs
<1> HIDE DEF g
<1>18. g.m = 405 /\ g.id # None /\ g.bg = 440 /\ g \in Clients /\ AirOK(g)
  BY <1>16, <1>17 DEF Core, DeviceStep
<1>19. Aside(g, y)
  BY <1>18, CheckResetIs
<1> HIDE DEF y
<1>20. Aside(e, y)
  BY <1>16, <1>17, <1>19, AsideTransitive
<1>21. Tokens(y) /\ Requested(y, token)
  BY <1>13, <1>20, AsideRequested
<1> QED
  BY <1>1, <1>10, <1>13, <1>20, <1>21 DEF Aside

(* The registration of another token is started, of a device that is not   *)
(* active and of one that is.                                              *)
LEMMA StartRequests ==
  ASSUME NEW s \in Clients, s.tk = None, Offers(s), Airborne(s), NEW token, Stale(s, token),
         NEW k \in Nat, k \in {402, 408}
  PROVE  LET y == evtMpnCheckNext([s EXCEPT !.m = k]) IN
         Tokens(y) /\ Requested(y, token) /\ (y.m = 405 => y.tk = 453)
<1> DEFINE x == [s EXCEPT !.m = k]
<1>1. x \in Clients /\ Stays(s, x) /\ x.m = k /\ x.tk = s.tk /\ x.candidates = s.candidates
  BY SetM
<1> HIDE DEF x
<1>2. Airborne(x) /\ Stale(x, token) /\ Offers(x)
  BY <1>1, SameWay DEF Stays, Offers
<1>3. LET y == evtMpnCheckNext(x) IN
      Tokens(y) /\ Requested(y, token) /\ (y.m = 405 => y.tk = 453)
  BY <1>1, <1>2, CheckNextRequests
<1> QED
  BY <1>3 DEF x

LEMMA RenewRequests ==
  ASSUME NEW s \in Clients, s.m = 405, Offers(s), Airborne(s), NEW token, Stale(s, token)
  PROVE  LET y == evtMpnCheckNext([s EXCEPT !.tk = 452]) IN
         Tokens(y) /\ Requested(y, token) /\ (y.m = 405 => y.tk = 453)
<1> DEFINE k == 452
           x == [s EXCEPT !.tk = k]
<1>1. k \in Nat /\ k = 452
  OBVIOUS
<1> HIDE DEF k
<1>2. x \in Clients /\ Stays(s, x) /\ x.tk = k /\ x.m = s.m /\ x.candidates = s.candidates
  BY <1>1, SetTk
<1> HIDE DEF x
<1>3. Airborne(x) /\ Stale(x, token) /\ Offers(x)
  BY <1>2, SameWay DEF Stays, Offers
<1>4. LET y == evtMpnCheckNext(x) IN
      Tokens(y) /\ Requested(y, token) /\ (y.m = 405 => y.tk = 453)
  BY <1>1, <1>2, <1>3, CheckNextRequests
<1> QED
  BY <1>4 DEF x, k

(* The token that was refreshed is stored.                                 *)
Renewed(s) == [s EXCEPT !.token = s.device, !.tk = 450]

LEMMA RenewedRequests ==
  ASSUME NEW s \in Clients, AirOK(s), s.m = 405, s.id # None, s.device # None, Offers(s),
         Airborne(s), NEW token, Stale(s, token)
  PROVE  LET y == evtMpnCheckPending(Renewed(s)) IN
         /\ Tokens(y) /\ Requested(y, token) /\ y.m = 405
         /\ y.tk = 453 \/ (y.tk = 451 /\ y.token = s.device /\ y.id = s.id)
<1> DEFINE k == 450
           d == s.device
           x == [s EXCEPT !.token = d, !.tk = k]
           y == evtMpnCheckPending(x)
<1>1. k \in Nat /\ d \in Nat
  BY DEF Clients
<1>2. Renewed(s) = x
  BY DEF Renewed
<1> HIDE DEF k, d
<1>3. x \in Clients
  BY <1>1 DEF Clients
<1>4. Stays(s, x) /\ x.tk = k /\ x.m = s.m /\ x.candidates = s.candidates /\ x.device = s.device
      /\ x.token = d
  BY DEF Stays, Clients
<1> HIDE DEF x
<1>5. Airborne(x) /\ Stale(x, token) /\ Offers(x) /\ x.id = s.id
  BY <1>4, SameWay DEF Stays, Offers
<1>6. AirOK(x)
  BY <1>3, <1>4, StaysStep DEF DeviceStep
<1>7. k = 450 /\ d = s.device
  BY DEF k, d
<1>8. /\ Tokens(y) /\ Requested(y, token) /\ y.m = 405
      /\ y.tk = 453 \/ (y.tk = 451 /\ y.token = x.token /\ y.id = x.id)
  BY <1>3, <1>4, <1>5, <1>6, <1>7, CheckPendingRequests
<1> HIDE DEF y
<1> QED
  BY <1>2, <1>4, <1>5, <1>7, <1>8 DEF y

(* evtMPNREG, when the registrations on their way are old ones.            *)
LEMMA MPNREGRequests ==
  ASSUME NEW s, Steady(s), Tokens(s), Expects(s), Airborne(s), NEW token, Stale(s, token),
         NEW dev \in Nat \ {0}
  PROVE  LET y == evtMPNREG(s, dev) IN
         /\ Tokens(y) /\ Requested(y, token)
         /\ y.m = 405 /\ y.tk \notin {453, 454} => y.token = s.device /\ y.id = dev
<1> DEFINE y == evtMPNREG(s, dev)
<1>1. Loose(s) /\ ManagersOK(s) /\ s \in Clients /\ AirOK(s) /\ Offers(s)
  BY LooseIs DEF Loose, ManagersOK, Tokens
<1>2. s.m # 405 => s.tk = None
  BY <1>1, LooseInactive
<1>3. s.device # None
  BY <1>2 DEF Tokens, Expects, None
<1>4. CASE s.m \in {403, 404} \/ (s.m \in {406, 407} /\ dev = s.id)
  <2>1. y = BecomeActive(s, dev)
    BY <1>2, <1>4 DEF evtMPNREG, None
  <2> QED
    BY <1>1, <1>3, <2>1, BecomeActiveRequests
<1>5. CASE s.m \in {406, 407} /\ dev # s.id
  <2> DEFINE k == 408
  <2>1. y = evtMpnCheckNext([s EXCEPT !.m = k]) /\ k \in Nat /\ k \in {402, 408}
    BY <1>2, <1>5 DEF evtMPNREG, None
  <2>2. s.tk = None
    BY <1>2, <1>5
  <2> HIDE DEF k, y
  <2>3. LET z == evtMpnCheckNext([s EXCEPT !.m = k]) IN
        Tokens(z) /\ Requested(z, token) /\ (z.m = 405 => z.tk = 453)
    BY <1>1, <2>1, <2>2, StartRequests
  <2> QED
    BY <2>1, <2>3 DEF y
<1>6. CASE s.m \notin {403, 404, 406, 407} /\ dev = s.id
  <2>1. s.tk \in {453, 454} /\ s.m = 405 /\ s.id # None
    BY <1>1, <1>2, <1>6 DEF Expects, None, Loose, RegisterRegion
  <2> DEFINE z == evtMpnCheckPending(Renewed(s))
  <2>2. y = z
    BY <1>6, <2>1 DEF evtMPNREG, Renewed
  <2>3. /\ Tokens(z) /\ Requested(z, token) /\ z.m = 405
        /\ z.tk = 453 \/ (z.tk = 451 /\ z.token = s.device /\ z.id = s.id)
    BY <1>1, <1>3, <2>1, RenewedRequests
  <2> HIDE DEF z, y
  <2>4. /\ Tokens(y) /\ Requested(y, token)
        /\ y.m = 405 /\ y.tk \notin {453, 454} => y.token = s.device /\ y.id = dev
    BY <1>6, <2>2, <2>3
  <2> QED
    BY <2>4 DEF y
<1>7. CASE s.m \notin {403, 404, 406, 407} /\ dev # s.id
  <2>1. s.tk \in {453, 454} /\ s.m = 405
    BY <1>2, <1>7 DEF Expects, None
  <2>2. y = evtMpnCheckNext([s EXCEPT !.tk = 452])
    BY <1>7, <2>1 DEF evtMPNREG
  <2>3. LET z == evtMpnCheckNext([s EXCEPT !.tk = 452]) IN
        Tokens(z) /\ Requested(z, token) /\ (z.m = 405 => z.tk = 453)
    BY <1>1, <2>1, RenewRequests
  <2> HIDE DEF y
  <2> QED
    BY <2>2, <2>3 DEF y
<1> QED
  BY <1>4, <1>5, <1>6, <1>7
-----------------------------------------------------------------------------
(* The calls of the application and the session keep it                    *)

(* When no registration is awaited, those on their way are old ones.       *)
LEMMA Calm ==
  ASSUME NEW s, NEW srv, NEW session, NEW q, Concord(s, srv, session, q), ~Expects(s)
  PROVE  Offers(s) /\ Airborne(s) /\ Stale(s, srv.registered) /\ Registered(q) = {}
  BY StaleLatest DEF Concord, Tokens, Requested, Announced

(* What was registered last is known, so that the next one may start.      *)
LEMMA NewRound ==
  ASSUME NEW srv, NEW session, NEW q, InSession(session, q), Registered(q) = {},
         srv.registered # None => srv.token = srv.registered,
         NEW y, Tokens(y), Requested(y, srv.registered), y.m = 405 => y.tk = 453
  PROVE  Concord(y, srv, session, q)
  BY DEF Concord, Announced, Known

LEMMA OfferedSame ==
  ASSUME NEW s \in Clients, NEW d \in Nat, d # None, Offers(s)
  PROVE  LET x == Offered(s, d) IN
         /\ x \in Clients /\ Offers(x) /\ x.m = s.m /\ x.tk = s.tk /\ x.id = s.id
         /\ x.token = s.token /\ x.device = s.device /\ x.up = s.up /\ x.out = s.out
         /\ x.replies = s.replies
<1> DEFINE q == s.candidates
           cs == Append(q, d)
           x == Offered(s, d)
<1>1. q \in Seq(Nat)
  BY DEF Clients
<1>2. x = [s EXCEPT !.candidates = cs]
  BY DEF Offered
<1>3. \A i \in DOMAIN q : q[i] # None
  BY DEF Offers
<1> HIDE DEF q, x
<1>4. cs \in Seq(Nat) /\ \A i \in DOMAIN cs : cs[i] # None
  BY <1>1, <1>3
<1> HIDE DEF cs
<1>5. /\ x \in Clients /\ x.candidates = cs /\ x.m = s.m /\ x.tk = s.tk /\ x.id = s.id
      /\ x.token = s.token /\ x.device = s.device /\ x.up = s.up /\ x.out = s.out
      /\ x.replies = s.replies
  BY <1>2, <1>4 DEF Clients
<1> QED
  BY <1>4, <1>5 DEF Offers, x

(* registerForMpn: a token more.                                           *)
LEMMA RegisteringConcord ==
  ASSUME NEW s, Steady(s), NEW d \in Nat, d # None, NEW srv, NEW session, NEW q,
         Concord(s, srv, session, q)
  PROVE  Concord(Registering(Offered(s, d)), srv, session, q)
<1> DEFINE x == Offered(s, d)
           y == Registering(x)
<1>1. s \in Clients /\ Offers(s) /\ RegisterState(s)
  BY DEF Steady, ManagersOK, DeviceOK, RegisterOK, Concord, Tokens
<1>2. /\ x \in Clients /\ Offers(x) /\ x.m = s.m /\ x.tk = s.tk /\ x.id = s.id
      /\ x.token = s.token /\ x.device = s.device /\ x.up = s.up /\ x.out = s.out
      /\ x.replies = s.replies
  BY <1>1, OfferedSame
<1> HIDE DEF x
<1>3. InSession(session, q) /\ (srv.registered # None => srv.token = srv.registered)
  BY DEF Concord, Known
<1>4. ASSUME ~Expects(s) PROVE Airborne(x) /\ Stale(x, srv.registered) /\ Registered(q) = {}
  BY <1>2, <1>4, Calm, SameWay
<1>5. CASE x.m \in {400, 401}
  <2> DEFINE k == 402
  <2>1. x.tk = None /\ ~Expects(s)
    BY <1>1, <1>2, <1>5 DEF RegisterState, Expects, None
  <2>2. y = evtMpnCheckNext([x EXCEPT !.m = k]) /\ k \in Nat /\ k \in {402, 408}
    BY <1>5, <2>1 DEF Registering, None
  <2> HIDE DEF k, y
  <2>3. LET z == evtMpnCheckNext([x EXCEPT !.m = k]) IN
        Tokens(z) /\ Requested(z, srv.registered) /\ (z.m = 405 => z.tk = 453)
    BY <1>2, <1>4, <2>1, <2>2, StartRequests
  <2>4. Tokens(y) /\ Requested(y, srv.registered) /\ (y.m = 405 => y.tk = 453)
    BY <2>2, <2>3
  <2>5. Concord(y, srv, session, q)
    BY <1>3, <1>4, <2>1, <2>4, NewRound
  <2> QED
    BY <2>5 DEF y, x
<1>6. CASE x.tk = 451
  <2>1. x.m = 405 /\ ~Expects(s)
    BY <1>1, <1>2, <1>6 DEF RegisterState, Expects, None
  <2>2. y = evtMpnCheckNext([x EXCEPT !.tk = 452])
    BY <1>6, <2>1 DEF Registering
  <2> HIDE DEF y
  <2>3. LET z == evtMpnCheckNext([x EXCEPT !.tk = 452]) IN
        Tokens(z) /\ Requested(z, srv.registered) /\ (z.m = 405 => z.tk = 453)
    BY <1>2, <1>4, <2>1, RenewRequests
  <2>4. Tokens(y) /\ Requested(y, srv.registered) /\ (y.m = 405 => y.tk = 453)
    BY <2>2, <2>3
  <2>5. Concord(y, srv, session, q)
    BY <1>3, <1>4, <2>1, <2>4, NewRound
  <2> QED
    BY <2>5 DEF y, x
<1>7. CASE x.m \notin {400, 401} /\ x.tk # 451
  <2>1. y = x
    BY <1>7 DEF Registering
  <2>2. Tokens(x) /\ Announced(x, srv, q) /\ Known(x, srv) /\ Expects(x) = Expects(s)
    BY <1>2 DEF Concord, Tokens, Announced, Known, Expects
  <2>3. Requested(x, srv.registered)
    <3>1. Registers(x) = Registers(s) /\ Answers(x) = Answers(s)
      BY <1>2 DEF Registers, Answers
    <3> QED
      BY <1>2, <2>2, <3>1 DEF Concord, Requested, Airborne, Latest
  <2> QED
    BY <1>3, <2>1, <2>2, <2>3 DEF Concord, x
<1> QED
  BY <1>5, <1>6, <1>7

(* The client is aside, the server and what it notifies stay as they are.  *)
LEMMA AsideKeeps ==
  ASSUME DeviceInv, Aside(c, c'), UNCHANGED <<conn, server, push>>
  PROVE  Concord(c', server', conn', push')
  BY AsideConcord DEF DeviceInv

LEMMA CallsConcord ==
  ASSUME DeviceInv,
         \/ registerForMpn \/ subscribeMpn \/ unsubscribeMpn \/ setProperty
         \/ unsubscribeMpnSubscriptions \/ resetBadge
  PROVE  Concord(c', server', conn', push')
<1>1. Steady(c) /\ used \in Uses /\ Concord(c, server, conn, push)
  BY DEF DeviceInv, Inv
<1>2. UNCHANGED Outside
  BY DEF registerForMpn, subscribeMpn, unsubscribeMpn, setProperty, unsubscribeMpnSubscriptions,
         resetBadge
<1>3. CASE registerForMpn
  <2>1. Use("devices", MaxDevices)
    BY <1>3 DEF registerForMpn
  <2>2. used'.devices \in Nat /\ used'.devices # None
    BY <1>1, <2>1 DEF Uses, Use, None
  <2>3. c' = Registering(Offered(c, used'.devices))
    BY <1>3 DEF registerForMpn, Registering, Offered
  <2> QED
    BY <1>1, <1>2, <2>2, <2>3, RegisteringConcord DEF Outside
<1>4. ASSUME Aside(c, c') PROVE Concord(c', server', conn', push')
  BY <1>2, <1>4, AsideKeeps DEF Outside
<1>5. CASE subscribeMpn
  <2>1. used'.subscribes \in Nat
    <3>1. Use("subscribes", MaxSubscribes)
      BY <1>5 DEF subscribeMpn
    <3> QED
      BY <1>1, <3>1, UseIs DEF Uses
  <2>2. c' = Subscribing(c, used'.subscribes) /\ FreeNumbers(c) # {}
    BY <1>5 DEF subscribeMpn, Subscribing
  <2> QED
    BY <1>1, <1>4, <2>1, <2>2, SubscribeIs
<1>6. CASE unsubscribeMpn
  <2>1. PICK n \in DOMAIN c.mgr : c' = evtExtMpnUnsubscribe(c, n)
    BY <1>6 DEF unsubscribeMpn
  <2> QED
    BY <1>1, <1>4, <2>1, CallsOfManager
<1>7. CASE setProperty
  <2>1. used'.events \in Nat
    <3>1. Use("events", MaxEvents)
      BY <1>7 DEF setProperty
    <3> QED
      BY <1>1, <3>1, UseIs DEF Uses
  <2>2. PICK n \in DOMAIN c.mgr, part \in Parts : c' = evtExtMpnSet(c, n, part, used'.events)
    BY <1>7 DEF setProperty
  <2> QED
    BY <1>1, <1>4, <2>1, <2>2, CallsOfManager
<1>8. CASE unsubscribeMpnSubscriptions
  <2>1. c' = Filtering(c)
    BY <1>8 DEF unsubscribeMpnSubscriptions, Filtering
  <2> QED
    BY <1>1, <1>4, <2>1, FilteringIs
<1>9. CASE resetBadge
  <2>1. c' = Badging(c)
    BY <1>9 DEF resetBadge, Badging
  <2> QED
    BY <1>1, <1>4, <2>1, BadgingIs
<1> QED
  BY <1>3, <1>5, <1>6, <1>7, <1>8, <1>9

(* Nothing is under way when there is no channel.                          *)
Silent(s) == ~s.up /\ Registers(s) = {} /\ Answers(s) = {}

LEMMA SilentRequested ==
  ASSUME NEW s, Silent(s), NEW token
  PROVE  Requested(s, token)
  BY DEF Silent, Requested, Airborne, Latest

LEMMA NoChannelSilent ==
  ASSUME NEW s \in Clients
  PROVE  LET y == NoChannel(s) IN
         /\ Silent(y) /\ y \in Clients /\ y.m = s.m /\ y.tk = s.tk /\ y.id = s.id
         /\ y.token = s.token /\ y.device = s.device /\ y.candidates = s.candidates
<1> DEFINE no == FALSE
           none == <<>>
           y == NoChannel(s)
<1>1. no \in BOOLEAN /\ none \in Seq(Requests) /\ {} \in SUBSET Replies /\ DOMAIN none = {}
  OBVIOUS
<1>2. y = [s EXCEPT !.up = no, !.out = none, !.replies = {}]
  BY DEF NoChannel
<1>3. no = FALSE
  OBVIOUS
<1> HIDE DEF y, no, none
<1>4. /\ y \in Clients /\ y.m = s.m /\ y.tk = s.tk /\ y.id = s.id /\ y.token = s.token
      /\ y.device = s.device /\ y.candidates = s.candidates /\ y.up = no /\ y.out = none
      /\ y.replies = {}
  BY <1>1, <1>2 DEF Clients
<1> QED
  BY <1>1, <1>3, <1>4 DEF Silent, Registers, Answers, y

(* The device of a session that is over has its token still.               *)
Over(x, y) ==
    /\ Silent(y) /\ Offers(y)
    /\ y.m \notin {400, 401} => x.m \notin {400, 401} /\ y.device = x.device

LEMMA OverConcord ==
  ASSUME NEW x, NEW y, NEW srv, NEW session, Tokens(x), Over(x, y), y.m # 405,
         srv.registered # None => srv.token = srv.registered
  PROVE  Concord(y, srv, session, <<>>)
<1>1. Registered(<<>>) = {}
  BY DEF Registered
<1>2. Tokens(y) /\ Requested(y, srv.registered)
  BY SilentRequested DEF Over, Tokens
<1> QED
  BY <1>1, <1>2 DEF Concord, Announced, Known, InSession

LEMMA RetryOver ==
  ASSUME NEW s \in Clients, Silent(s), Offers(s)
  PROVE  Over(s, evtRetry_MpnRegion(s))
<1> DEFINE y == evtRetry_MpnRegion(s)
<1>1. ASSUME y.device = s.device, y.candidates = s.candidates, y.out = s.out,
             y.replies = s.replies, y.up = s.up, s.m \notin {400, 401}
      PROVE  Over(s, y)
  BY <1>1 DEF Over, Silent, Registers, Answers, Offers
<1>2. ASSUME NEW m \in Nat, y = [s EXCEPT !.m = m]
      PROVE  /\ y.device = s.device /\ y.candidates = s.candidates /\ y.out = s.out
             /\ y.replies = s.replies /\ y.up = s.up
  BY <1>2, SetM DEF Stays
<1>3. CASE s.m \in {403, 404}
  <2> DEFINE m == 403
  <2>1. y = [s EXCEPT !.m = m] /\ m \in Nat /\ s.m \notin {400, 401}
    BY <1>3 DEF evtRetry_MpnRegion
  <2> HIDE DEF m, y
  <2> QED
    BY <1>1, <1>2, <2>1 DEF y
<1>4. CASE s.m \in {406, 407}
  <2> DEFINE m == 406
  <2>1. y = [s EXCEPT !.m = m] /\ m \in Nat /\ s.m \notin {400, 401}
    BY <1>4 DEF evtRetry_MpnRegion
  <2> HIDE DEF m, y
  <2> QED
    BY <1>1, <1>2, <2>1 DEF y
<1>5. CASE s.m = 405
  <2>1. y = LeaveActive(s, 406) /\ s.m \notin {400, 401} /\ 406 \in Nat
    BY <1>5 DEF evtRetry_MpnRegion
  <2> HIDE DEF y
  <2> QED
    BY <1>1, <2>1, LeaveActiveIs DEF y
<1>6. CASE s.m \notin {403, 404, 405, 406, 407}
  <2>1. y = s
    BY <1>6 DEF evtRetry_MpnRegion
  <2> QED
    BY <2>1 DEF Over
<1> QED
  BY <1>3, <1>4, <1>5, <1>6

LEMMA TerminateOver ==
  ASSUME NEW s \in Clients, Silent(s), Offers(s)
  PROVE  Over(s, evtTerminate_MpnRegion(s))
<1> DEFINE y == evtTerminate_MpnRegion(s)
<1>1. CASE s.m \in 403..407
  <2>1. y = doResetMpnDevice(LeaveActive(s, 401))
    BY <1>1 DEF evtTerminate_MpnRegion
  <2>2. y.m = 401 /\ y.candidates = s.candidates /\ y.out = s.out /\ y.replies = s.replies
        /\ y.up = s.up
    BY <2>1, GivenUpSame
  <2> HIDE DEF y
  <2>3. Over(s, y)
    BY <2>2 DEF Over, Silent, Registers, Answers, Offers
  <2> QED
    BY <2>3 DEF y
<1>2. CASE s.m \notin 403..407
  <2>1. y = s
    BY <1>2 DEF evtTerminate_MpnRegion
  <2> QED
    BY <2>1 DEF Over
<1> QED
  BY <1>1, <1>2

LEMMA AbortOver ==
  ASSUME NEW x, NEW y, Steady(y), Over(x, y)
  PROVE  Over(x, AbortSubscriptions(y)) /\ AbortSubscriptions(y).m = y.m
<1> DEFINE z == AbortSubscriptions(y)
<1>1. Works(y, z)
  BY HearWorks DEF AbortSubscriptions
<1> HIDE DEF z
<1>2. Aside(y, z)
  BY <1>1, WorksAside
<1>3. Numbered(y)
  BY DEF Over, Silent, Numbered
<1>4. SameAir(y, z)
  BY <1>2, <1>3 DEF Aside, Untouched
<1> QED
  BY <1>2, <1>4 DEF Over, Silent, SameAir, Aside, Offers, z

(* Connects, losses and rebinds, and the end of a session.                 *)
LEMMA SessionConcord ==
  ASSUME "stale_registration" \in Avoided, DeviceInv,
         evtExtConnect \/ evtCONOK \/ LoseChannel \/ Rebind \/ evtRetry \/ evtTerminate
  PROVE  Concord(c', server', conn', push')
<1>1. /\ Steady(c) /\ Agrees(c, conn) /\ server \in Servers /\ push \in Seq(Notices)
      /\ Concord(c, server, conn, push) /\ c \in Clients
  BY DEF DeviceInv, Inv, Steady, ManagersOK
<1>2. Tokens(c) /\ Offers(c) /\ (server.registered # None => server.token = server.registered)
  BY <1>1 DEF Concord, Tokens, Known
<1>3. ~c.up => Silent(c)
  BY <1>1 DEF Concord, Requested, Airborne, Silent
<1>4. isPendingRegister(c) => c.device # None
  <2>1. c.tk # None => c.m = 405
    BY <1>1 DEF Steady, DeviceOK, RegisterOK, RegisterState
  <2> QED
    BY <1>2, <2>1 DEF Tokens, isPendingRegister, None
<1>5. CASE evtExtConnect
  <2>1. conn = "off" /\ c' = Connecting(c) /\ UNCHANGED <<server, push>>
    BY <1>5 DEF evtExtConnect, Connecting
  <2>2. Silent(c) /\ push' = <<>> /\ c.m # 405
    BY <1>1, <1>3, <2>1 DEF Agrees, Concord, InSession
  <2>3. CASE c.m = 401 /\ c.device # None
    <3> DEFINE m == 403
               y == [c EXCEPT !.m = m]
    <3>1. c' = y /\ m \in Nat
      BY <2>1, <2>3 DEF Connecting
    <3>2. Stays(c, y) /\ y.m = m /\ y.candidates = c.candidates /\ y.device = c.device
      <4> HIDE DEF m
      <4> QED
        BY <1>1, <3>1, SetM
    <3>3. m = 403
      OBVIOUS
    <3> HIDE DEF y, m
    <3>4. Silent(y) /\ Tokens(y) /\ y.m # 405
      BY <1>2, <2>2, <2>3, <3>2, <3>3 DEF Silent, Registers, Answers, Tokens, Offers, Stays
    <3>5. Over(y, y)
      BY <3>4 DEF Over, Tokens
    <3>6. Concord(y, server, conn', <<>>)
      BY <1>2, <3>4, <3>5, OverConcord
    <3> QED
      BY <2>1, <2>2, <3>1, <3>6
  <2>4. CASE ~(c.m = 401 /\ c.device # None)
    <3>1. c' = c
      BY <2>1, <2>4 DEF Connecting
    <3>2. Over(c, c)
      BY <1>2, <2>2 DEF Over
    <3>3. Concord(c, server, conn', <<>>)
      BY <1>2, <2>2, <3>2, OverConcord
    <3> QED
      BY <2>1, <2>2, <3>1, <3>3
  <2> QED
    BY <2>3, <2>4
<1>6. ASSUME ~c.up, NEW token
      PROVE  LET y == evtSendPendingControls(c) IN
             /\ y.m = c.m /\ y.tk = c.tk /\ y.id = c.id /\ y.token = c.token
             /\ y.device = c.device /\ y.candidates = c.candidates
             /\ Requested(y, token)
  BY <1>1, <1>3, <1>4, <1>6, ChannelSends DEF Silent
<1>7. CASE evtCONOK
  <2> DEFINE none == None
             y == evtSendPendingControls(c)
  <2>1. /\ conn = "retry" /\ conn' = "up" /\ push' = <<>> /\ c' = y
        /\ server' = [server EXCEPT !.seen = {}, !.registered = none]
    BY <1>7 DEF evtCONOK
  <2>2. ~c.up /\ c.m # 405
    BY <1>1, <2>1 DEF Agrees
  <2> HIDE DEF none
  <2>3. server'.registered = none
    BY <1>1, <2>1 DEF Servers
  <2>4. none = None
    BY DEF none
  <2>5. /\ y.m = c.m /\ y.device = c.device /\ y.candidates = c.candidates /\ Requested(y, none)
    BY <1>6, <2>2
  <2> HIDE DEF y
  <2>6. Tokens(y) /\ Requested(y, server'.registered) /\ Registered(push') = {}
        /\ InSession(conn', push')
    BY <1>2, <2>1, <2>3, <2>5 DEF Tokens, Offers, Registered, InSession
  <2>7. Concord(y, server', conn', push')
    BY <2>2, <2>3, <2>4, <2>5, <2>6, NewRound
  <2> QED
    BY <2>1, <2>7
<1>8. CASE LoseChannel
  <2> DEFINE y == NoChannel(c)
  <2>1. conn' = "down" /\ c' = y /\ UNCHANGED <<server, push>>
    BY <1>8 DEF LoseChannel
  <2>2. /\ Silent(y) /\ y.m = c.m /\ y.tk = c.tk /\ y.id = c.id /\ y.token = c.token
        /\ y.device = c.device /\ y.candidates = c.candidates
    BY <1>1, NoChannelSilent
  <2> HIDE DEF y
  <2>3. Tokens(y) /\ Announced(y, server, push) /\ Known(y, server)
    BY <1>1, <2>2 DEF Concord, Tokens, Offers, Announced, Known, Expects
  <2>4. Requested(y, server.registered) /\ InSession(conn', push)
    BY <2>1, <2>2, SilentRequested DEF InSession
  <2> QED
    BY <2>1, <2>3, <2>4 DEF Concord
<1>9. CASE Rebind
  <2> DEFINE y == evtSendPendingControls(c)
             token == server.registered
  <2>1. conn = "down" /\ conn' = "up" /\ c' = y /\ server' = server
    BY <1>9 DEF Rebind
  <2>2. push' = push
    <3>1. PICK again \in Repeated : push' = again \o push
      BY <1>9 DEF Rebind
    <3>2. again = <<>>
      BY <3>1 DEF Repeated
    <3> QED
      BY <1>1, <3>1, <3>2
  <2>3. ~c.up
    BY <1>1, <2>1 DEF Agrees
  <2>4. /\ y.m = c.m /\ y.tk = c.tk /\ y.id = c.id /\ y.token = c.token
        /\ y.device = c.device /\ y.candidates = c.candidates
        /\ Requested(y, token)
    BY <1>6, <2>3
  <2> HIDE DEF y
  <2>5. Tokens(y) /\ Announced(y, server, push) /\ Known(y, server) /\ InSession(conn', push)
    BY <1>1, <2>1, <2>4 DEF Concord, Tokens, Offers, Announced, Known, Expects, InSession
  <2> QED
    BY <2>1, <2>2, <2>4, <2>5 DEF Concord
<1> DEFINE x == NoChannel(c)
<1>10. /\ Silent(x) /\ x \in Clients /\ Steady(x) /\ x.m = c.m /\ x.device = c.device
       /\ Offers(x) /\ ~x.up
  BY <1>1, <1>2, NoChannelSilent, NoChannelIs DEF Offers
<1> HIDE DEF x
<1>11. CASE evtRetry
  <2> DEFINE y == evtRetry_MpnRegion(x)
             z == AbortSubscriptions(y)
  <2>1. c' = z /\ push' = <<>> /\ server' = server
    BY <1>11 DEF evtRetry, x
  <2>2. Steady(y) /\ y.m # 405 /\ Over(x, y)
    BY <1>10, RetryRegionIs, RetryOver
  <2> HIDE DEF y
  <2>3. Over(x, z) /\ z.m = y.m
    BY <2>2, AbortOver
  <2> HIDE DEF z
  <2>4. Over(c, z)
    BY <1>10, <2>3 DEF Over
  <2>5. Concord(z, server, conn', <<>>)
    BY <1>2, <2>2, <2>3, <2>4, OverConcord
  <2> QED
    BY <2>1, <2>5
<1>12. CASE evtTerminate
  <2> DEFINE y == evtTerminate_MpnRegion(x)
             z == AbortSubscriptions(y)
  <2>1. (c' = y \/ c' = z) /\ push' = <<>> /\ server' = server
    BY <1>12 DEF evtTerminate, x
  <2>2. Steady(y) /\ y.m # 405 /\ Over(x, y)
    BY <1>10, TerminateRegionIs, TerminateOver DEF Moves
  <2> HIDE DEF y
  <2>3. Over(x, z) /\ z.m = y.m
    BY <2>2, AbortOver
  <2> HIDE DEF z
  <2>4. Over(c, y) /\ Over(c, z)
    BY <1>10, <2>2, <2>3 DEF Over
  <2>5. Concord(y, server, conn', <<>>) /\ Concord(z, server, conn', <<>>)
    BY <1>2, <2>2, <2>3, <2>4, OverConcord
  <2> QED
    BY <2>1, <2>5
<1> QED
  BY <1>5, <1>7, <1>8, <1>9, <1>11, <1>12
-----------------------------------------------------------------------------
(* What the client reads and listens to keeps it                           *)

(* A reply that is taken leaves the rest as it is; once there is one to a  *)
(* registration, no registration that is on its way is the last.           *)
LEMMA TakenConcord ==
  ASSUME NEW s, ManagersOK(s), NEW r \in s.replies, NEW srv, NEW session, NEW q,
         Concord(s, srv, session, q)
  PROVE  LET x == WithoutReply(s, r) IN
         /\ Concord(x, srv, session, q) /\ x \in Clients /\ SameDevice(s, x)
         /\ r.kind = "register" =>
               /\ Stale(x, srv.registered) /\ \A i \in Registers(x) : ~x.out[i].last
               /\ Expects(x) => (r.ok <=> srv.registered = x.device)
<1> DEFINE x == WithoutReply(s, r)
           token == srv.registered
<1>1. /\ x \in Clients /\ SameDevice(s, x) /\ x.out = s.out /\ x.replies = s.replies \ {r}
  BY WithoutReplyIs DEF ManagersOK
<1> HIDE DEF x
<1>2. /\ x.m = s.m /\ x.tk = s.tk /\ x.id = s.id /\ x.token = s.token /\ x.device = s.device
      /\ x.candidates = s.candidates /\ x.up = s.up /\ Expects(x) = Expects(s)
  BY <1>1 DEF SameDevice, Expects
<1>3. Registers(x) = Registers(s) /\ Answers(x) \subseteq Answers(s)
  BY <1>1 DEF Registers, Answers
<1>4. Tokens(x) /\ Announced(x, srv, q) /\ Known(x, srv) /\ InSession(session, q)
  BY <1>2 DEF Concord, Tokens, Offers, Announced, Known
<1>5. Airborne(s) /\ Latest(s, token)
  BY DEF Concord, Requested
<1>6. Requested(x, token)
  <2>1. Airborne(x)
    BY <1>1, <1>2, <1>3, <1>5 DEF Airborne
  <2>2. Latest(x, token)
    BY <1>1, <1>2, <1>3, <1>5 DEF Latest
  <2> QED
    BY <2>1, <2>2 DEF Requested
<1>7. ASSUME r.kind = "register"
      PROVE  /\ Stale(x, token) /\ \A i \in Registers(x) : ~x.out[i].last
             /\ Expects(x) => (r.ok <=> token = x.device)
  <2>1. r \in Answers(s)
    BY <1>7 DEF Answers
  <2>2. \A i \in Registers(s) : ~s.out[i].last
    BY <1>5, <2>1 DEF Airborne
  <2> QED
    BY <1>1, <1>2, <1>3, <1>5, <2>1, <2>2 DEF Latest, Stale
<1> QED
  BY <1>1, <1>4, <1>6, <1>7 DEF Concord, x

(* The registration was accepted, and MPNREG is awaited.                   *)
LEMMA AcceptedConcord ==
  ASSUME NEW s \in Clients, RegisterState(s), NEW srv, NEW session, NEW q,
         Concord(s, srv, session, q)
  PROVE  Concord(DeviceREQOK(s), srv, session, q)
<1> DEFINE y == DeviceREQOK(s)
<1>1. ASSUME y.m = s.m \/ (s.m \in {403, 406} /\ y.m \in {404, 407}),
             y.tk = s.tk \/ (s.tk = 453 /\ y.tk = 454),
             Stays(s, y), y.token = s.token, y.device = s.device, y.candidates = s.candidates
      PROVE  Concord(y, srv, session, q)
  <2> HIDE DEF y
  <2>1. Expects(y) = Expects(s) /\ (y.m = 405 <=> s.m = 405)
        /\ (y.m \in {400, 401} <=> s.m \in {400, 401})
        /\ (y.tk \in {453, 454} <=> s.tk \in {453, 454})
    BY <1>1 DEF Expects
  <2>2. Registers(y) = Registers(s) /\ Answers(y) = Answers(s) /\ y.up = s.up /\ y.out = s.out
        /\ y.id = s.id
    BY <1>1 DEF Stays, Registers, Answers
  <2>3. Tokens(y) /\ Announced(y, srv, q) /\ Known(y, srv)
    BY <1>1, <2>1, <2>2 DEF Concord, Tokens, Offers, Announced, Known
  <2>4. Requested(y, srv.registered)
    BY <1>1, <2>1, <2>2 DEF Concord, Requested, Airborne, Latest
  <2> QED
    BY <2>3, <2>4 DEF Concord
<1>2. ASSUME NEW k \in Nat, k \in {404, 407}, s.m \in {403, 406}, y = [s EXCEPT !.m = k]
      PROVE  Concord(y, srv, session, q)
  <2> DEFINE z == [s EXCEPT !.m = k]
  <2>1. Stays(s, z) /\ z.m = k /\ z.tk = s.tk /\ z.candidates = s.candidates
        /\ z.device = s.device /\ z.token = s.token
    BY SetM
  <2>2. y = z
    BY <1>2
  <2> HIDE DEF y, z
  <2> QED
    BY <1>1, <1>2, <2>1, <2>2
<1>3. CASE s.m \in {403, 406}
  <2> DEFINE k == IF s.m = 403 THEN 404 ELSE 407
  <2>1. y = [s EXCEPT !.m = k] /\ k \in Nat /\ k \in {404, 407}
    BY <1>3 DEF DeviceREQOK, RegisterState, None
  <2> HIDE DEF k, y
  <2>2. Concord(y, srv, session, q)
    BY <1>2, <1>3, <2>1
  <2> QED
    BY <2>2 DEF y
<1>4. CASE s.m \notin {403, 406} /\ s.tk = 453
  <2> DEFINE k == 454
  <2>1. y = [s EXCEPT !.tk = k] /\ k \in Nat /\ k = 454
    BY <1>4 DEF DeviceREQOK
  <2> HIDE DEF k, y
  <2>2. Stays(s, y) /\ y.tk = k /\ y.m = s.m /\ y.candidates = s.candidates
        /\ y.device = s.device /\ y.token = s.token
    BY <2>1, SetTk
  <2> QED
    BY <1>1, <1>4, <2>1, <2>2 DEF y
<1>5. CASE s.m \notin {403, 406} /\ s.tk # 453
  <2>1. y = s
    BY <1>5 DEF DeviceREQOK
  <2> QED
    BY <2>1
<1> QED
  BY <1>3, <1>4, <1>5

(* The registration was refused, and the next token is tried.              *)
LEMMA RefusedConcord ==
  ASSUME NEW s \in Clients, RegisterState(s), NEW srv, NEW session, NEW q,
         Concord(s, srv, session, q), Stale(s, srv.registered),
         Expects(s) => srv.registered # s.device
  PROVE  Concord(DeviceREQERR(s), srv, session, q)
<1> DEFINE y == DeviceREQERR(s)
<1>1. Offers(s) /\ Airborne(s) /\ InSession(session, q)
      /\ (srv.registered # None => srv.token = srv.registered)
  BY DEF Concord, Tokens, Requested, Known
<1>2. Expects(s) => Registered(q) = {}
  BY DEF Concord, Announced
<1>3. ASSUME NEW z, Expects(s), Tokens(z), Requested(z, srv.registered), z.m = 405 => z.tk = 453
      PROVE  Concord(z, srv, session, q)
  BY <1>1, <1>2, <1>3, NewRound
<1> DEFINE After(k) == evtMpnCheckNext([s EXCEPT !.m = k])
<1>4. ASSUME NEW k \in Nat, k \in {402, 408}, s.m \in {403, 406}
      PROVE  Concord(After(k), srv, session, q)
  <2>1. s.tk = None /\ Expects(s)
    BY <1>4 DEF RegisterState, Expects
  <2>2. LET z == After(k) IN
        Tokens(z) /\ Requested(z, srv.registered) /\ (z.m = 405 => z.tk = 453)
    BY <1>1, <1>4, <2>1, StartRequests
  <2> HIDE DEF After
  <2> QED
    BY <1>3, <2>1, <2>2
<1>5. CASE s.m \in {403, 406}
  <2> DEFINE k == IF s.m = 403 THEN 402 ELSE 408
  <2>1. y = After(k) /\ k \in Nat /\ k \in {402, 408}
    BY <1>5 DEF DeviceREQERR, RegisterState, None
  <2> HIDE DEF k, y, After
  <2>2. Concord(y, srv, session, q)
    BY <1>4, <1>5, <2>1
  <2> QED
    BY <2>2 DEF y
<1>7. CASE s.m \notin {403, 406} /\ s.tk = 453
  <2>1. s.m = 405 /\ Expects(s)
    BY <1>7 DEF RegisterState, Expects, None
  <2> DEFINE z == evtMpnCheckNext([s EXCEPT !.tk = 452])
  <2>2. y = z
    BY <1>7 DEF DeviceREQERR
  <2>3. Tokens(z) /\ Requested(z, srv.registered) /\ (z.m = 405 => z.tk = 453)
    BY <1>1, <2>1, RenewRequests
  <2> HIDE DEF z, y
  <2>4. Concord(z, srv, session, q)
    BY <1>3, <2>1, <2>3
  <2> QED
    BY <2>2, <2>4 DEF y
<1>8. CASE s.m \notin {403, 406} /\ s.tk # 453
  <2>1. y = s
    BY <1>8 DEF DeviceREQERR
  <2> QED
    BY <2>1
<1> QED
  BY <1>5, <1>7, <1>8

LEMMA ReplyConcord ==
  ASSUME DeviceInv, ReplyIsRead
  PROVE  Concord(c', server', conn', push')
<1>1. Steady(c) /\ ManagersOK(c) /\ RegisterState(c) /\ Concord(c, server, conn, push)
  BY DEF DeviceInv, Inv, Steady, DeviceOK, RegisterOK
<1>2. PICK r \in c.replies :
         /\ c' = evtReply([c EXCEPT !.replies = @ \ {r}], r)
         /\ UNCHANGED <<conn, server, push>>
  BY DEF ReplyIsRead
<1> DEFINE x == WithoutReply(c, r)
<1>3. c' = evtReply(x, r)
  BY <1>2 DEF WithoutReply
<1>4. /\ Concord(x, server, conn, push) /\ x \in Clients /\ SameDevice(c, x)
      /\ r.kind = "register" =>
            /\ Stale(x, server.registered) /\ \A i \in Registers(x) : ~x.out[i].last
            /\ Expects(x) => (r.ok <=> server.registered = x.device)
  BY <1>1, TakenConcord
<1>5. r.kind # "register" => Aside(x, evtReply(x, r))
  BY <1>1, DeviceReplyIs, ManagerReplyIs
<1> HIDE DEF x
<1>6. RegisterState(x)
  BY <1>1, <1>4 DEF SameDevice, RegisterState
<1>7. CASE r.kind # "register"
  <2>1. Concord(c', server, conn, push)
    BY <1>3, <1>4, <1>5, <1>7, AsideConcord
  <2> QED
    BY <1>2, <2>1
<1>8. CASE r.kind = "register" /\ r.ok
  <2>1. c' = DeviceREQOK(x)
    BY <1>3, <1>8 DEF evtReply
  <2>2. Concord(c', server, conn, push)
    BY <1>4, <1>6, <2>1, AcceptedConcord
  <2> QED
    BY <1>2, <2>2
<1>9. CASE r.kind = "register" /\ ~r.ok
  <2>1. c' = DeviceREQERR(x)
    BY <1>3, <1>9 DEF evtReply
  <2>2. Concord(c', server, conn, push)
    BY <1>4, <1>6, <1>9, <2>1, RefusedConcord
  <2> QED
    BY <1>2, <2>2
<1> QED
  BY <1>7, <1>8, <1>9

LEMMA TailAnnounced ==
  ASSUME NEW s, NEW srv, NEW q \in Seq(Notices), q # <<>>, Announced(s, srv, q)
  PROVE  /\ Announced(s, srv, Tail(q))
         /\ Head(q).kind = "REG" =>
               /\ Expects(s) /\ srv.registered = s.device /\ Head(q).id = srv.dev
               /\ Registered(Tail(q)) = {}
<1> DEFINE rest == Tail(q)
<1>1. /\ Len(q) \in Nat \ {0} /\ DOMAIN q = 1..Len(q) /\ Head(q) = q[1]
      /\ DOMAIN rest = 1..(Len(q) - 1) /\ \A i \in DOMAIN rest : rest[i] = q[i + 1]
  BY HeadTailProperties
<1> HIDE DEF rest
<1>2. \A i \in Registered(rest) : i \in Nat /\ i > 0 /\ i + 1 \in Registered(q) /\ rest[i] = q[i + 1]
  BY <1>1 DEF Registered
<1>3. Announced(s, srv, rest)
  <2>1. ASSUME NEW i \in Registered(rest), NEW j \in Registered(rest) PROVE j = i
    <3>1. i + 1 \in Registered(q) /\ j + 1 \in Registered(q) /\ i \in Nat /\ j \in Nat
      BY <1>2
    <3>2. i + 1 = j + 1
      BY <3>1 DEF Announced
    <3> QED
      BY <3>1, <3>2
  <2> QED
    BY <1>2, <2>1 DEF Announced
<1>4. ASSUME Head(q).kind = "REG"
      PROVE  /\ Expects(s) /\ srv.registered = s.device /\ Head(q).id = srv.dev
             /\ Registered(rest) = {}
  <2>1. 1 \in Registered(q)
    BY <1>1, <1>4 DEF Registered
  <2>2. ASSUME NEW i \in Registered(rest) PROVE FALSE
    <3>1. i + 1 = 1 /\ i > 0 /\ i \in Nat
      BY <1>2, <2>1 DEF Announced
    <3> QED
      BY <3>1
  <2> QED
    BY <1>1, <2>1, <2>2 DEF Announced
<1> QED
  BY <1>3, <1>4 DEF rest

(* MPNREG is read: the device has what the server registered, unless the   *)
(* next token is tried; the other notifications are about the managers.    *)
LEMMA NotificationConcord ==
  ASSUME DeviceInv, NotificationIsRead
  PROVE  Concord(c', server', conn', push')
<1> DEFINE msg == Head(push)
           rest == Tail(push)
<1>1. /\ Steady(c) /\ RegisterState(c) /\ Concord(c, server, conn, push)
      /\ server \in Servers /\ push \in Seq(Notices)
  BY DEF DeviceInv, Inv, Steady, DeviceOK, RegisterOK
<1>2. /\ conn = "up" /\ conn' = "up" /\ push # <<>> /\ push' = rest /\ server' = server
      /\ msg.kind = "REG" => c' = evtMPNREG(c, msg.id)
      /\ msg.kind # "REG" => c' = EachManager(c, msg)
  BY DEF NotificationIsRead
<1>3. msg \in Notices
  BY <1>1, <1>2, HeadTailProperties
<1>4. /\ Announced(c, server, rest)
      /\ msg.kind = "REG" =>
            /\ Expects(c) /\ server.registered = c.device /\ msg.id = server.dev
            /\ Registered(rest) = {}
  BY <1>1, <1>2, TailAnnounced DEF Concord
<1> HIDE DEF msg, rest
<1>5. InSession("up", rest) /\ (server.registered # None => server.token = server.registered)
  BY <1>1 DEF InSession, Concord, Known
<1>6. CASE msg.kind = "REG"
  <2> DEFINE dev == msg.id
             y == evtMPNREG(c, dev)
             token == server.registered
  <2>1. dev \in Nat \ {0}
    BY <1>3, <1>6 DEF Notices, Messages
  <2>2. Tokens(c) /\ Airborne(c) /\ Stale(c, token)
    BY <1>1, <1>4, <1>6, StaleLatest DEF Concord, Requested
  <2>3. c.device # None
    BY <1>1, <1>4, <1>6, <2>2 DEF Tokens, Expects, RegisterState, None
  <2> HIDE DEF dev, token
  <2>4. /\ Tokens(y) /\ Requested(y, token)
        /\ y.m = 405 /\ y.tk \notin {453, 454} => y.token = c.device /\ y.id = dev
    BY <1>1, <1>4, <1>6, <2>1, <2>2, MPNREGRequests
  <2>5. c' = y
    BY <1>2, <1>6 DEF dev
  <2> HIDE DEF y
  <2>6. Announced(y, server, rest)
    BY <1>4, <1>6 DEF Announced
  <2>7. Known(y, server)
    BY <1>4, <1>5, <1>6, <2>3, <2>4 DEF Known, dev
  <2> QED
    BY <1>2, <1>5, <2>4, <2>5, <2>6, <2>7 DEF Concord, token
<1>7. CASE msg.kind # "REG"
  <2> DEFINE y == EachManager(c, msg)
  <2>1. Aside(c, y)
    BY <1>1, HearWorks, WorksAside
  <2>2. c' = y
    BY <1>2, <1>7
  <2> HIDE DEF y
  <2>3. Concord(c, server, "up", rest)
    BY <1>1, <1>4, <1>5 DEF Concord
  <2>4. Concord(y, server, "up", rest)
    BY <2>1, <2>3, AsideConcord
  <2> QED
    BY <1>2, <2>2, <2>4
<1> QED
  BY <1>6, <1>7

(* The items are listened to, and the server sends a snapshot.             *)
LEMMA ListenersConcord ==
  ASSUME DeviceInv, KeyIsListened \/ StatusIsListened \/ Snapshot
  PROVE  Concord(c', server', conn', push')
<1>1. Steady(c) /\ c \in Clients /\ AirOK(c) /\ server \in Servers
  BY DEF DeviceInv, Inv, Steady, ManagersOK
<1>2. UNCHANGED <<conn, server, push>>
  BY DEF KeyIsListened, StatusIsListened, Snapshot
<1>3. CASE KeyIsListened
  <2> DEFINE msg == Head(c.item.queue)
  <2>1. /\ c.item.queue # <<>> /\ FreeNumbers(c) # {}
        /\ c' = IF msg.kind = "EOS" THEN evtSUBS_EOS(Listened(c))
                ELSE evtSUBS_Update(Listened(c), msg.id, msg.kind)
    BY <1>3 DEF KeyIsListened, Listened
  <2>2. /\ Aside(c, evtSUBS_EOS(Listened(c)))
        /\ Aside(c, evtSUBS_Update(Listened(c), msg.id, msg.kind))
    BY <1>1, <2>1, KeyListenedIs
  <2>3. Aside(c, c')
    BY <2>1, <2>2
  <2> QED
    BY <1>2, <2>3, AsideKeeps
<1>4. CASE StatusIsListened
  <2>1. FreeNumbers(c) # {}
    BY <1>4 DEF StatusIsListened
  <2>2. PICK id \in c.item.second : c' = evtSUBS_Update(Reported(c, id), id, "STATUS")
    BY <1>4 DEF StatusIsListened, Reported
  <2>3. Aside(c, c')
    BY <1>1, <2>1, <2>2, StatusListenedIs
  <2> QED
    BY <1>2, <2>3, AsideKeeps
<1>5. CASE Snapshot
  <2> DEFINE v == c'.item
             y == [c EXCEPT !.item = v]
  <2>1. c' = y /\ v \in SpecialItems
    <3> DEFINE live == "live"
               last == <<Item("EOS", None)>>
               keys == Items("ADD", DOMAIN server.subs)
               queue == keys \o last
               w == [c.item EXCEPT !.state = live, !.queue = queue]
    <3>1. c' = [c EXCEPT !.item = w]
      BY <1>5 DEF Snapshot
    <3>2. live \in {"none", "asked", "live"} /\ Item("EOS", None) \in Messages
      BY DEF Item, Messages, None
    <3>3. last \in Seq(Messages) /\ keys \in Seq(Messages) /\ c.item \in SpecialItems
      BY <1>1, <3>2, CatalogueItems DEF Clients
    <3> HIDE DEF last, keys, live
    <3>4. queue \in Seq(Messages)
      BY <3>3, ConcatProperties
    <3> HIDE DEF queue
    <3>5. w \in SpecialItems
      BY <3>2, <3>3, <3>4 DEF SpecialItems
    <3> HIDE DEF w
    <3>6. v = w
      BY <1>1, <3>1 DEF Clients
    <3> QED
      BY <3>1, <3>5, <3>6
  <2> HIDE DEF v
  <2>2. Aside(c, y)
    BY <1>1, <2>1, ItemChanges
  <2> HIDE DEF y
  <2> QED
    BY <1>2, <2>1, <2>2, AsideKeeps
<1> QED
  BY <1>3, <1>4, <1>5

(* The special item fails while nothing is being registered, and the       *)
(* device is given up.                                                     *)
LEMMA FailureConcord ==
  ASSUME "stale_registration" \in Avoided, DeviceInv, SpecialItemFails
  PROVE  Concord(c', server', conn', push')
<1>1. c \in Clients /\ RegisterState(c) /\ Concord(c, server, conn, push)
  BY DEF DeviceInv, Inv, Steady, ManagersOK, DeviceOK, RegisterOK
<1>2. c.m = 405 /\ c.tk = 451 /\ c' = evtMpnError(c) /\ UNCHANGED <<conn, server, push>>
  BY DEF SpecialItemFails, Outside
<1>3. ~Expects(c) /\ InSession(conn, push)
      /\ (server.registered # None => server.token = server.registered)
  BY <1>1, <1>2 DEF Expects, Concord, Known
<1>4. Offers(c) /\ Airborne(c) /\ Stale(c, server.registered) /\ Registered(push) = {}
  BY <1>1, <1>3, Calm
<1> DEFINE y == doResetMpnDevice(LeaveActive(c, 401))
<1>5. c' = y
  BY <1>2 DEF evtMpnError
<1>6. /\ y.m = 401 /\ y.tk = None /\ y.candidates = c.candidates /\ y.out = c.out
      /\ y.replies = c.replies /\ y.up = c.up
  BY <1>1, GivenUpSame
<1> HIDE DEF y
<1>7. Tokens(y) /\ Requested(y, server.registered)
  BY <1>4, <1>6, NothingNext
<1>8. Concord(y, server, conn, push)
  BY <1>3, <1>4, <1>6, <1>7, NewRound
<1> QED
  BY <1>2, <1>5, <1>8
-----------------------------------------------------------------------------
(* What the server does keeps it                                           *)

LEMMA AnsweredSame ==
  ASSUME Steady(c), c.out # <<>>, NEW ok \in BOOLEAN
  PROVE  LET y == Answer(Head(c.out), ok) IN
         /\ y.m = c.m /\ y.tk = c.tk /\ y.id = c.id /\ y.token = c.token /\ y.device = c.device
         /\ y.candidates = c.candidates /\ y.up = c.up /\ Expects(y) = Expects(c)
         /\ y \in Clients /\ AirOK(y) /\ Answered(c, y, ok)
<1> DEFINE y == Answer(Head(c.out), ok)
<1>1. /\ Alike(c, y) /\ y \in Clients /\ AirOK(y) /\ y.token = c.token /\ y.device = c.device
      /\ Answered(c, y, ok)
  BY AnswerIs
<1> HIDE DEF y
<1>2. /\ y.m = c.m /\ y.tk = c.tk /\ y.id = c.id /\ y.candidates = c.candidates /\ y.up = c.up
  BY <1>1 DEF Alike, Core, DeviceStep
<1> QED
  BY <1>1, <1>2 DEF Expects, y

(* The registrations that follow move up by one.                           *)
LEMMA MovedUp ==
  ASSUME NEW x, NEW y, NEW ok, Answered(x, y, ok)
  PROVE  \A i \in Registers(y) : /\ i \in Nat /\ i > 0 /\ i + 1 \in Registers(x)
                                 /\ y.out[i] = x.out[i + 1]
  BY DEF Answered, Registers

(* The answer to a request that is no registration.                        *)
LEMMA OtherAnswered ==
  ASSUME Steady(c), c.out # <<>>, Head(c.out).kind # "register", NEW ok \in BOOLEAN,
         NEW srv, NEW session, NEW q, Concord(c, srv, session, q)
  PROVE  LET y == Answer(Head(c.out), ok) IN
         /\ Concord(y, srv, session, q)
         /\ \A msgs \in Seq(Messages) : Concord(Listen(y, msgs), srv, session, q)
<1> DEFINE y == Answer(Head(c.out), ok)
           token == srv.registered
<1>1. /\ y.m = c.m /\ y.tk = c.tk /\ y.id = c.id /\ y.token = c.token /\ y.device = c.device
      /\ y.candidates = c.candidates /\ y.up = c.up /\ Expects(y) = Expects(c)
      /\ y \in Clients /\ AirOK(y) /\ Answered(c, y, ok)
  BY AnsweredSame
<1> HIDE DEF y
<1>2. \A i \in Registers(y) : /\ i \in Nat /\ i > 0 /\ i + 1 \in Registers(c)
                              /\ y.out[i] = c.out[i + 1]
  BY <1>1, MovedUp
<1>3. Answers(y) = Answers(c)
  BY <1>1 DEF Answered, Answers
<1>4. Registers(c) = {} => Registers(y) = {}
  BY <1>2
<1>5. Airborne(c) /\ Latest(c, token)
  BY DEF Concord, Requested
<1>6. Airborne(y)
  <2>1. ASSUME NEW i \in Registers(y), y.out[i].last, NEW j \in Registers(y)
        PROVE  j <= i
    <3>1. /\ i \in Nat /\ i + 1 \in Registers(c) /\ y.out[i] = c.out[i + 1]
          /\ j \in Nat /\ j + 1 \in Registers(c)
      BY <1>2
    <3>2. j + 1 <= i + 1
      BY <1>5, <2>1, <3>1 DEF Airborne
    <3> QED
      BY <3>1, <3>2
  <2>2. \A i \in Registers(y) : /\ y.out[i].n = None /\ y.out[i].token # None
                                /\ y.out[i].last => Answers(y) = {}
    BY <1>2, <1>3, <1>5 DEF Airborne
  <2> QED
    BY <1>1, <1>3, <1>4, <1>5, <2>1, <2>2 DEF Airborne
<1>7. Latest(y, token)
  BY <1>1, <1>2, <1>3, <1>5 DEF Latest
<1>8. Tokens(y) /\ Announced(y, srv, q) /\ Known(y, srv) /\ InSession(session, q)
  BY <1>1 DEF Concord, Tokens, Offers, Announced, Known
<1>9. Concord(y, srv, session, q)
  BY <1>6, <1>7, <1>8 DEF Concord, Requested
<1>10. ASSUME NEW msgs \in Seq(Messages) PROVE Concord(Listen(y, msgs), srv, session, q)
  <2>1. Aside(y, Listen(y, msgs))
    BY <1>1, ListenIs
  <2> QED
    BY <1>9, <2>1, AsideConcord
<1> QED
  BY <1>9, <1>10 DEF y

(* The answer to a registration: none is left after the last one.          *)
LEMMA RegisterAnswered ==
  ASSUME Steady(c), c.out # <<>>, Head(c.out).kind = "register", NEW ok \in BOOLEAN,
         NEW token, Requested(c, token)
  PROVE  LET y == Answer(Head(c.out), ok)
             req == Head(c.out)
         IN
         /\ req.token # None
         /\ req.token = IF req.last /\ Expects(c) THEN c.device ELSE token
         /\ ~req.last => Requested(y, token)
         /\ req.last => \A t : (Expects(c) => (ok <=> t = c.device)) => Requested(y, t)
<1> DEFINE y == Answer(Head(c.out), ok)
           req == Head(c.out)
<1>1. /\ y.device = c.device /\ y.up = c.up /\ Expects(y) = Expects(c) /\ Answered(c, y, ok)
  BY AnsweredSame
<1> HIDE DEF y
<1>2. \A i \in Registers(y) : /\ i \in Nat /\ i > 0 /\ i + 1 \in Registers(c)
                              /\ y.out[i] = c.out[i + 1]
  BY <1>1, MovedUp
<1>3. 1 \in Registers(c) /\ c.out[1] = req
  BY <1>1 DEF Answered, Registers
<1>4. Airborne(c) /\ Latest(c, token)
  BY DEF Requested
<1>5. /\ req.token # None /\ req.n = None /\ y.up
      /\ req.token = IF req.last /\ Expects(c) THEN c.device ELSE token
  BY <1>1, <1>3, <1>4 DEF Airborne, Latest
<1>6. ASSUME ~req.last PROVE Requested(y, token)
  <2>1. Answers(y) = Answers(c)
    BY <1>1, <1>3, <1>6 DEF Answered, Answers
  <2>2. ASSUME NEW i \in Registers(y), y.out[i].last, NEW j \in Registers(y)
        PROVE  j <= i
    <3>1. /\ i \in Nat /\ i + 1 \in Registers(c) /\ y.out[i] = c.out[i + 1]
          /\ j \in Nat /\ j + 1 \in Registers(c)
      BY <1>2
    <3>2. j + 1 <= i + 1
      BY <1>4, <2>2, <3>1 DEF Airborne
    <3> QED
      BY <3>1, <3>2
  <2>3. \A i \in Registers(y) : /\ y.out[i].n = None /\ y.out[i].token # None
                                /\ y.out[i].last => Answers(y) = {}
    BY <1>2, <1>4, <2>1 DEF Airborne
  <2>4. Airborne(y)
    BY <1>4, <1>5, <2>1, <2>2, <2>3 DEF Airborne
  <2>5. Latest(y, token)
    BY <1>1, <1>2, <1>4, <2>1 DEF Latest
  <2> QED
    BY <2>4, <2>5 DEF Requested
<1>7. ASSUME req.last, NEW t, Expects(c) => (ok <=> t = c.device)
      PROVE  Requested(y, t)
  <2>1. Registers(y) = {}
    <3>1. ASSUME NEW i \in Registers(y) PROVE FALSE
      <4>1. i \in Nat /\ i > 0 /\ i + 1 <= 1
        BY <1>2, <1>3, <1>4, <1>7 DEF Airborne
      <4> QED
        BY <4>1
    <3> QED
      BY <3>1
  <2>2. Answers(c) = {}
    BY <1>3, <1>4, <1>7 DEF Airborne
  <2>3. \A r \in Answers(y) : r.n = None /\ r.ok = ok
    BY <1>1, <1>3, <1>5, <1>7, <2>2 DEF Answered, Answers
  <2> QED
    BY <1>1, <1>5, <1>7, <2>1, <2>3 DEF Requested, Airborne, Latest
<1> QED
  BY <1>5, <1>6, <1>7 DEF y

LEMMA RegistrationConcord ==
  ASSUME Steady(c), c.out # <<>>, NEW ok \in BOOLEAN, NEW srv, NEW session, NEW q,
         NEW t, NEW y, y = Answer(Head(c.out), ok),
         Concord(c, srv, session, q), Requested(y, t)
  PROVE  /\ Tokens(y) /\ InSession(session, q) /\ Known(y, srv)
         /\ Announced(y, srv, q) /\ Expects(y) = Expects(c) /\ y.m = c.m /\ y.tk = c.tk
         /\ y.device = c.device
  BY AnsweredSame DEF Concord, Tokens, Offers, Announced, Known

(* A registration is refused: it was that of the device, not of the token  *)
(* that the server has.                                                    *)
LEMMA RefuseConcord ==
  ASSUME "stale_registration" \in Avoided, DeviceInv, c.out # <<>>, conn' = conn,
         Refuse(Head(c.out))
  PROVE  Concord(c', server', conn', push')
<1> DEFINE req == Head(c.out)
           y == Answer(req, FALSE)
           token == server.registered
<1>1. Steady(c) /\ Concord(c, server, conn, push) /\ FALSE \in BOOLEAN
  BY DEF DeviceInv, Inv
<1>2. c' = y /\ UNCHANGED <<server, push>> /\ (req.kind = "register" => ~Again(req))
  BY DEF Refuse, IsLegal
<1>3. CASE req.kind # "register"
  <2>1. Concord(y, server, conn, push)
    BY <1>1, <1>3, OtherAnswered
  <2> QED
    BY <1>2, <2>1
<1>4. CASE req.kind = "register"
  <2>1. req.token # token
    BY <1>2, <1>4 DEF Again
  <2>2. Requested(c, token)
    BY <1>1 DEF Concord
  <2>3. /\ req.token = IF req.last /\ Expects(c) THEN c.device ELSE token
        /\ req.last => \A t : (Expects(c) => (FALSE <=> t = c.device)) => Requested(y, t)
    BY <1>1, <1>4, <2>2, RegisterAnswered
  <2> HIDE DEF req, y
  <2>4. Requested(y, token)
    BY <2>1, <2>3
  <2>5. /\ Tokens(y) /\ InSession(conn, push) /\ Known(y, server) /\ Announced(y, server, push)
    BY <1>1, <2>4, RegistrationConcord DEF y, req
  <2> QED
    BY <1>2, <2>4, <2>5 DEF Concord, token
<1> QED
  BY <1>3, <1>4

(* A registration is granted: again, or one that MPNREG will tell of.      *)
LEMMA GrantRegisterConcord ==
  ASSUME "stale_registration" \in Avoided, DeviceInv, c.out # <<>>, conn = "up", conn' = conn,
         Grant(Head(c.out)), Head(c.out).kind = "register"
  PROVE  Concord(c', server', conn', push')
<1> DEFINE req == Head(c.out)
           y == Answer(req, TRUE)
           token == req.token
           next == server.dev + 1
           none == <<>>
<1>1. /\ Steady(c) /\ Concord(c, server, conn, push) /\ TRUE \in BOOLEAN
      /\ server \in Servers /\ push \in Seq(Notices) /\ RegisterState(c)
  BY DEF DeviceInv, Inv, Steady, DeviceOK, RegisterOK
<1>2. /\ \/ server' = [server EXCEPT !.token = token, !.registered = token]
         \/ /\ ~Again(req)
            /\ server' = [server EXCEPT !.token = token, !.registered = token, !.dev = next,
                                        !.subs = none]
      /\ push' = IF Again(req) THEN push ELSE Append(push, Item("REG", server'.dev))
      /\ c' = y
  BY DEF Grant
<1>3. Again(req) <=> server.registered = token
  BY DEF Again
<1>4. Requested(c, server.registered)
  BY <1>1 DEF Concord
<1>5. /\ token # None /\ token = IF req.last /\ Expects(c) THEN c.device ELSE server.registered
      /\ ~req.last => Requested(y, server.registered)
      /\ req.last => \A t : (Expects(c) => (TRUE <=> t = c.device)) => Requested(y, t)
  BY <1>1, <1>4, RegisterAnswered
<1> HIDE DEF token, next, none
<1>6. /\ server'.token = token /\ server'.registered = token
      /\ server.registered = token => server'.dev = server.dev
  <2>1. LET v == [server EXCEPT !.token = token, !.registered = token]
        IN  v.token = token /\ v.registered = token /\ v.dev = server.dev
    BY <1>1 DEF Servers
  <2>2. LET v == [server EXCEPT !.token = token, !.registered = token, !.dev = next, !.subs = none]
        IN  v.token = token /\ v.registered = token
    BY <1>1 DEF Servers
  <2> QED
    BY <1>2, <1>3, <2>1, <2>2
<1>7. Requested(y, token)
  BY <1>5
<1> HIDE DEF y
<1>8. /\ Tokens(y) /\ InSession(conn, push) /\ Known(y, server) /\ Announced(y, server, push)
      /\ Expects(y) = Expects(c) /\ y.m = c.m /\ y.tk = c.tk /\ y.device = c.device
  BY <1>1, <1>7, RegistrationConcord DEF y
<1>9. CASE server.registered = token
  <2>1. push' = push /\ server'.dev = server.dev /\ server.token = token
    BY <1>1, <1>2, <1>3, <1>5, <1>6, <1>9 DEF Concord, Known
  <2>2. Known(y, server') /\ Announced(y, server', push)
    BY <1>6, <1>8, <1>9, <2>1 DEF Known, Announced
  <2> QED
    BY <1>2, <1>6, <1>7, <1>8, <2>1, <2>2 DEF Concord
<1>10. CASE server.registered # token
  <2> DEFINE msg == Item("REG", server'.dev)
  <2>1. Expects(c) /\ token = c.device /\ push' = Append(push, msg)
    BY <1>2, <1>3, <1>5, <1>10
  <2>2. Registered(push) = {}
    BY <1>1, <1>10, <2>1 DEF Concord, Announced
  <2>3. msg.kind = "REG" /\ msg.id = server'.dev
    BY DEF Item
  <2> HIDE DEF msg
  <2>4. /\ Len(push) \in Nat /\ DOMAIN push = 1..Len(push) /\ DOMAIN push' = 1..(Len(push) + 1)
        /\ \A i \in 1..Len(push) : push'[i] = push[i]
        /\ push'[Len(push) + 1] = msg
    BY <1>1, <2>1
  <2>5. \A i \in Registered(push') : i = Len(push) + 1
    BY <2>2, <2>4 DEF Registered
  <2>6. Announced(y, server', push')
    BY <1>6, <1>8, <2>1, <2>3, <2>4, <2>5 DEF Announced
  <2>7. Known(y, server')
    BY <1>1, <1>6, <1>8, <2>1 DEF Known, Expects
  <2>8. InSession(conn, push')
    BY DEF InSession
  <2> QED
    BY <1>2, <1>6, <1>7, <1>8, <2>6, <2>7, <2>8 DEF Concord
<1> QED
  BY <1>9, <1>10

(* The other notifications say nothing of the device.                      *)
LEMMA NoRegistration ==
  ASSUME NEW s, NEW srv, NEW next, NEW q \in Seq(Notices), NEW more \in Seq(Notices),
         next.token = srv.token, next.dev = srv.dev, next.registered = srv.registered,
         \A i \in DOMAIN more : more[i].kind # "REG", Concord(s, srv, "up", q)
  PROVE  Concord(s, next, "up", q \o more)
<1> DEFINE p == q \o more
<1>1. /\ Len(q) \in Nat /\ Len(more) \in Nat /\ DOMAIN q = 1..Len(q)
      /\ DOMAIN more = 1..Len(more) /\ DOMAIN p = 1..(Len(q) + Len(more))
      /\ \A i \in 1..Len(q) : p[i] = q[i]
      /\ \A i \in 1..Len(more) : p[Len(q) + i] = more[i]
  BY ConcatProperties
<1> HIDE DEF p
<1>2. ASSUME NEW i \in Registered(p) PROVE i \in Registered(q) /\ p[i] = q[i]
  <2>1. i \in 1..(Len(q) + Len(more)) /\ p[i].kind = "REG"
    BY <1>1 DEF Registered
  <2>2. CASE i <= Len(q)
    BY <1>1, <2>1, <2>2 DEF Registered
  <2>3. CASE i > Len(q)
    <3>1. i - Len(q) \in 1..Len(more) /\ Len(q) + (i - Len(q)) = i
      BY <1>1, <2>1, <2>3
    <3>2. p[i] = more[i - Len(q)]
      BY <1>1, <3>1
    <3> QED
      BY <1>1, <2>1, <3>1, <3>2
  <2> QED
    BY <1>1, <2>1, <2>2, <2>3
<1>3. Announced(s, next, p)
  BY <1>2 DEF Concord, Announced
<1>4. Known(s, next) /\ InSession("up", p)
  BY DEF Concord, Known, InSession
<1> QED
  BY <1>3, <1>4 DEF Concord, p

LEMMA OneMore ==
  ASSUME NEW s, NEW srv, NEW next, NEW q \in Seq(Notices), NEW msg \in Notices,
         next.token = srv.token, next.dev = srv.dev, next.registered = srv.registered,
         msg.kind # "REG", Concord(s, srv, "up", q)
  PROVE  Concord(s, next, "up", Append(q, msg))
<1> DEFINE more == <<msg>>
<1>1. more \in Seq(Notices) /\ Append(q, msg) = q \o more
      /\ \A i \in DOMAIN more : more[i].kind # "REG"
  OBVIOUS
<1> HIDE DEF more
<1> QED
  BY <1>1, NoRegistration

LEMMA NoneMore ==
  ASSUME NEW s, NEW srv, NEW next, NEW session, NEW q,
         next.token = srv.token, next.dev = srv.dev, next.registered = srv.registered,
         Concord(s, srv, session, q)
  PROVE  Concord(s, next, session, q)
  BY DEF Concord, Announced, Known

(* Anything else is granted.                                               *)
LEMMA GrantOtherConcord ==
  ASSUME DeviceInv, c.out # <<>>, conn = "up", conn' = conn,
         Grant(Head(c.out)), Head(c.out).kind # "register"
  PROVE  Concord(c', server', conn', push')
<1> DEFINE req == Head(c.out)
           id == req.id
           y == Answer(req, TRUE)
<1>1. /\ Steady(c) /\ server \in Servers /\ push \in Seq(Notices) /\ Concord(c, server, "up", push)
      /\ TRUE \in BOOLEAN
  BY DEF DeviceInv, Inv
<1>2. /\ Concord(y, server, "up", push)
      /\ \A msgs \in Seq(Messages) : Concord(Listen(y, msgs), server, "up", push)
  BY <1>1, OtherAnswered
<1>3. req \in Requests
  BY <1>1, AnswerIs
<1>4. id \in Nat /\ req.kind \in Kinds
  BY <1>3 DEF Requests
<1>5. /\ Item("OK", id) \in Notices /\ Item("DEL", id) \in Notices
      /\ <<Item("ADD", id)>> \in Seq(Messages) /\ <<Item("DELETE", id)>> \in Seq(Messages)
      /\ Item("OK", id).kind # "REG" /\ Item("DEL", id).kind # "REG"
  <2> HIDE DEF id
  <2>1. Item("ADD", id) \in Messages /\ Item("DELETE", id) \in Messages
    BY <1>4 DEF Item, Messages
  <2>2. Item("OK", id) \in Notices /\ Item("DEL", id) \in Notices
        /\ Item("OK", id).kind # "REG" /\ Item("DEL", id).kind # "REG"
    BY <1>4 DEF Item, Messages, Notices
  <2> QED
    BY <2>1, <2>2
<1>6. ASSUME NEW s, Concord(s, server, "up", push), c' = s, push' = push,
             server'.token = server.token, server'.dev = server.dev,
             server'.registered = server.registered
      PROVE  Concord(c', server', conn', push')
  BY <1>6, NoneMore
<1>7. ASSUME NEW s, Concord(s, server, "up", push), c' = s,
             NEW msg \in Notices, msg.kind # "REG", push' = Append(push, msg),
             server'.token = server.token, server'.dev = server.dev,
             server'.registered = server.registered
      PROVE  Concord(c', server', conn', push')
  BY <1>1, <1>7, OneMore
<1>8. CASE req.kind = "activate"
  <2> DEFINE subs == [k \in DOMAIN server.subs \cup {id} |->
                         IF k \in DOMAIN server.subs THEN server.subs[k] ELSE NoValues]
             seen == server.seen \cup {id}
             msgs == <<Item("ADD", id)>>
             z == Listen(y, msgs)
  <2>1. \/ UNCHANGED <<server, push>> /\ c' = y
        \/ /\ server' = [server EXCEPT !.subs = subs, !.seen = seen]
           /\ push' = Append(push, Item("OK", id))
           /\ c' = z
    BY <1>8 DEF Grant
  <2>2. Concord(z, server, "up", push)
    BY <1>2, <1>5
  <2> HIDE DEF y, z, req, id, subs, seen
  <2>3. CASE UNCHANGED <<server, push>> /\ c' = y
    BY <1>2, <1>6, <2>3
  <2>4. CASE /\ server' = [server EXCEPT !.subs = subs, !.seen = seen]
             /\ push' = Append(push, Item("OK", id))
             /\ c' = z
    <3>1. server'.token = server.token /\ server'.dev = server.dev
          /\ server'.registered = server.registered
      BY <1>1, <2>4 DEF Servers
    <3> QED
      BY <1>5, <1>7, <2>2, <2>4, <3>1
  <2> QED
    BY <2>1, <2>3, <2>4
<1>9. ASSUME NEW f, server' = [server EXCEPT !.subs = f]
      PROVE  server'.token = server.token /\ server'.dev = server.dev
             /\ server'.registered = server.registered
  BY <1>1, <1>9 DEF Servers
<1>10. CASE req.kind = "deactivate"
  <2> DEFINE subs == Without({id})
             msgs == <<Item("DELETE", id)>>
             z == Listen(y, msgs)
  <2>1. /\ server' = [server EXCEPT !.subs = subs]
        /\ push' = Append(push, Item("DEL", id))
        /\ c' = z
    BY <1>10 DEF Grant
  <2>2. Concord(z, server, "up", push)
    BY <1>2, <1>5
  <2> HIDE DEF y, z, req, id, subs
  <2> QED
    BY <1>5, <1>7, <1>9, <2>1, <2>2
<1>11. CASE req.kind = "configure"
  <2> DEFINE subs == [server.subs EXCEPT ![req.id][req.part] = req.values[req.part]]
  <2>1. server' = [server EXCEPT !.subs = subs] /\ c' = y /\ push' = push
    <3>1. server' = [server EXCEPT !.subs[req.id][req.part] = req.values[req.part]]
          /\ c' = y /\ push' = push
      BY <1>11 DEF Grant
    <3> QED
      BY <3>1
  <2> HIDE DEF y, req, subs
  <2> QED
    BY <1>2, <1>6, <1>9, <2>1
<1>12. CASE req.kind = "filter"
  <2> DEFINE none == <<>>
             S == DOMAIN server.subs
             msgs == Items("DELETE", S)
             gone == Items("DEL", S)
             z == Listen(y, msgs)
  <2>1. /\ server' = [server EXCEPT !.subs = none] /\ push' = push \o gone /\ c' = z
    BY <1>12 DEF Grant
  <2>2. msgs \in Seq(Messages) /\ gone \in Seq(Notices)
    BY <1>1, CatalogueItems
  <2>3. Concord(z, server, "up", push)
    BY <1>2, <2>2
  <2>4. \A i \in DOMAIN gone : gone[i].kind # "REG"
    BY DEF Items, Item
  <2> HIDE DEF y, z, req, none, gone
  <2>5. Concord(z, server', "up", push \o gone)
    BY <1>1, <1>9, <2>1, <2>2, <2>3, <2>4, NoRegistration
  <2> QED
    BY <2>1, <2>5
<1>13. CASE req.kind = "badge"
  <2>1. c' = y /\ UNCHANGED <<server, push>>
    BY <1>13 DEF Grant
  <2> HIDE DEF y, req
  <2> QED
    BY <1>2, <1>6, <2>1
<1> QED
  BY <1>4, <1>8, <1>10, <1>11, <1>12, <1>13 DEF Kinds

LEMMA ServerConcord ==
  ASSUME "stale_registration" \in Avoided, DeviceInv, ServerHandles
  PROVE  Concord(c', server', conn', push')
<1>1. conn = "up" /\ conn' = conn /\ c.out # <<>> /\ (Refuse(Head(c.out)) \/ Grant(Head(c.out)))
  BY DEF ServerHandles
<1> QED
  BY <1>1, RefuseConcord, GrantRegisterConcord, GrantOtherConcord
-----------------------------------------------------------------------------
(* The device and the server agree                                         *)

LEMMA InitConcord == Init => Concord(c, server, conn, push)
<1> SUFFICES ASSUME Init PROVE Concord(c, server, conn, push)
  OBVIOUS
<1>1. /\ c.m = 400 /\ c.tk = None /\ c.candidates = <<>> /\ c.out = <<>> /\ c.replies = {}
      /\ push = <<>> /\ server.registered = None
  BY DEF Init
<1>2. Offers(c) /\ ~Expects(c) /\ Registers(c) = {} /\ Answers(c) = {} /\ Registered(push) = {}
  BY <1>1 DEF Offers, Expects, Registers, Answers, Registered, None
<1> QED
  BY <1>1, <1>2 DEF Concord, Tokens, Requested, Airborne, Latest, Announced, Known, InSession

LEMMA NextConcord ==
  ASSUME "stale_registration" \in Avoided
  PROVE  DeviceInv /\ [Next]_vars => DeviceInv'
<1> SUFFICES ASSUME DeviceInv, [Next]_vars PROVE DeviceInv'
  OBVIOUS
<1>1. Inv'
  BY NextInv DEF DeviceInv
<1>2. CASE \/ registerForMpn \/ subscribeMpn \/ unsubscribeMpn \/ setProperty
           \/ unsubscribeMpnSubscriptions \/ resetBadge
  BY <1>1, <1>2, CallsConcord DEF DeviceInv
<1>3. CASE evtExtConnect \/ evtCONOK \/ LoseChannel \/ Rebind \/ evtRetry \/ evtTerminate
  BY <1>1, <1>3, SessionConcord DEF DeviceInv
<1>4. CASE ReplyIsRead
  BY <1>1, <1>4, ReplyConcord DEF DeviceInv
<1>5. CASE NotificationIsRead
  BY <1>1, <1>5, NotificationConcord DEF DeviceInv
<1>6. CASE KeyIsListened \/ StatusIsListened \/ Snapshot
  BY <1>1, <1>6, ListenersConcord DEF DeviceInv
<1>7. CASE SpecialItemFails
  BY <1>1, <1>7, FailureConcord DEF DeviceInv
<1>8. CASE ServerHandles
  BY <1>1, <1>8, ServerConcord DEF DeviceInv
<1>9. CASE UNCHANGED vars
  BY <1>1, <1>9 DEF DeviceInv, vars
<1> QED
  BY <1>2, <1>3, <1>4, <1>5, <1>6, <1>7, <1>8, <1>9 DEF Next

(* An active device that registers nothing has the token and the           *)
(* identifier that the server has for it, however many tokens were tried,  *)
(* refused or cut off by the end of a session (evtMPNREG stores a token    *)
(* only when its registration is notified), where no special item fails    *)
(* during a refresh and no registration is notified twice                  *)
(* (stale_registration).                                                   *)
THEOREM DeviceIsAgreed ==
  ASSUME "stale_registration" \in Avoided
  PROVE  Spec => []DeviceAgrees
<1>1. Init => DeviceInv
  BY InitInv, InitConcord DEF DeviceInv
<1>2. DeviceInv /\ [Next]_vars => DeviceInv'
  BY NextConcord
<1>3. DeviceInv => DeviceAgrees
  BY DEF DeviceInv, Concord, Known, DeviceAgrees
<1> QED
  BY <1>1, <1>2, <1>3, PTL DEF Spec
=============================================================================
