------------------------------ MODULE TwoLevel ------------------------------
(***************************************************************************)
(* A COMMAND subscription with a second level: each key of its item is the *)
(* name of an item of its own, which the client subscribes to as long as   *)
(* the key exists, and whose fields it shows beside those of the first     *)
(* level (ModeStrategyCommand2Level, ItemCommand2Level, Key2Level).        *)
(*                                                                         *)
(* What happens to the subscription itself comes from its manager, on the  *)
(* thread of the session, under the lock of the client.  What happens to a *)
(* subscription of the second level comes from its listener                *)
(* (Sub2LevelDelegate), which is called on the thread of the user: between *)
(* the dispatch of a call and its run, the key may be deleted and added    *)
(* again.  Both levels arrive once and in order (module Recovery), so the  *)
(* server is modelled as what it has sent.                                 *)
(*                                                                         *)
(* One item is modelled: items share nothing but the frequencies of the    *)
(* strategy, which the keys of one item share too.                         *)
(***************************************************************************)
EXTENDS Naturals, Sequences, FiniteSets, FiniteSetsExt

CONSTANTS
    Keys,           \* keys of the item
    IllegalKeys,    \* those that are not valid as names of items
    Values,         \* what a row of a level contains
    Frequencies,    \* real and requested frequencies; the greatest is "unlimited"
    MaxCalls        \* bound: calls waiting for the thread of the user

ASSUME TwoLevelAssumption ==
    /\ IllegalKeys \subseteq Keys
    /\ Values \subseteq Nat \ {0} /\ Frequencies \subseteq Nat \ {0}
    /\ MaxCalls \in Nat /\ IsFiniteSet(Keys) /\ IsFiniteSet(Frequencies)

VARIABLES
    strategy,   \* state (s1 .. s3), requestedMaxFrequency, realMaxFrequency and
                \* aggregateRealMaxFrequency
    keys,       \* the Key2Level of each key of the item
    command,    \* the field "command" in the current values of the item
    latest,     \* the key whose values are the current values of the item
    sub2,       \* the subscriptions of the second level
    disabled,   \* those whose delegate is disabled
    calls,      \* what waits for the thread of the user
    table,      \* the rows of the first level, as the server knows them
    sent,       \* the last command that the server sent
    view,       \* the rows that the listener of the subscription was given
    told        \* the last frequency it was told, since onSubscription

client == <<strategy, keys, command, latest, disabled>>
vars == <<client, sub2, calls, table, sent, view, told>>

None == 0
NoKey == "none"

(* A delegate waits for its last call; a new subscription is a new one.    *)
SubIds == 1..(Cardinality(Keys) + MaxCalls)

(* s is the state of the key: s3 no second level, s4 nothing received of   *)
(* the second level, s5 something received; None stands for no key.        *)
Row(s, sub, first) == [s |-> s, sub |-> sub, first |-> first, second |-> None, freq |-> None]
NoRow == Row(None, None, None)
Blank == [command |-> "none", first |-> None, second |-> None]
NewSub(state, freq) == [state |-> state, freq |-> freq, real |-> None, value |-> None]
Idle == NewSub("none", None)

MaxFreq(S) == Max(S \cup {None})

NewStrategy == [m |-> 1, requested |-> None, real |-> None, aggregate |-> None]

Init ==
    /\ strategy = NewStrategy
    /\ keys = [k \in Keys |-> NoRow] /\ command = "none" /\ latest = NoKey
    /\ sub2 = [id \in SubIds |-> Idle] /\ disabled = {} /\ calls = <<>>
    /\ table = [k \in Keys |-> None] /\ sent = "none"
    /\ view = [k \in Keys |-> Blank] /\ told = None

-----------------------------------------------------------------------------
(* The frequency that is reported                                          *)

(* The aggregate becomes max; the listener is told if that is news.        *)
Report(max) ==
    /\ strategy' = [strategy EXCEPT !.aggregate = max]
    /\ told' = IF max # strategy.aggregate THEN max ELSE told

WhenFreqIsAdded(freq) == MaxFreq({strategy.aggregate, freq})

WhenFreqIsRemoved(rows) == MaxFreq({strategy.real} \cup {rows[k].freq : k \in Keys})

evtOnCONF(freq) ==
    /\ strategy.m = 2
    /\ strategy' = [strategy EXCEPT !.real = freq, !.aggregate = WhenFreqIsAdded(freq)]
    /\ told' = IF WhenFreqIsAdded(freq) # strategy.aggregate
               THEN WhenFreqIsAdded(freq) ELSE told
    /\ UNCHANGED <<keys, command, latest, sub2, disabled, calls, table, sent, view>>

-----------------------------------------------------------------------------
(* Subscriptions of the second level                                       *)

Used == {calls[i].id : i \in DOMAIN calls} \cup {keys[k].sub : k \in Keys}
FreshSub == CHOOSE id \in SubIds : id \notin Used

(* doUnsubscribe: the listener is removed and disabled.  A delegate with   *)
(* no call left is forgotten.                                              *)
Unsubscribed(ids) == [id \in SubIds |-> IF id \in ids THEN Idle ELSE sub2[id]]
Disable(ids) ==
    disabled' = {id \in disabled \cup ids : \E i \in DOMAIN calls : calls[i].id = id}

SubsOf(rows) == {rows[k].sub : k \in Keys} \ {None}

evtDispose(rows) == SubsOf(rows)

DisposeKeys_OnlyTells ==
    /\ view' = [k \in Keys |-> Blank]
    /\ UNCHANGED <<keys, sub2, disabled>>

(* genDisposeItems and genDisposeKeys: every key goes.                     *)
DisposeKeys ==
    /\ keys' = [k \in Keys |-> NoRow]
    /\ sub2' = Unsubscribed(evtDispose(keys))
    /\ Disable(evtDispose(keys))
    /\ view' = [k \in Keys |-> Blank]

-----------------------------------------------------------------------------
(* The manager of the subscription                                         *)

(* SUBCMD; freq is the frequency that was requested.                       *)
evtOnSUB ==
    \E freq \in Frequencies \cup {None} :
        /\ strategy.m = 1
        /\ strategy' = [strategy EXCEPT !.m = 2, !.requested = freq]
        /\ told' = None
        /\ UNCHANGED <<keys, command, latest, sub2, disabled, calls, table, sent, view>>

(* The items go, and with them what the server sent.                       *)
DisposeItems ==
    /\ DisposeKeys
    /\ command' = "none" /\ latest' = NoKey
    /\ table' = [k \in Keys |-> None] /\ sent' = "none"
    /\ told' = None
    /\ UNCHANGED calls

(* The session ends; the subscription will be asked for again.             *)
evtAbort ==
    /\ strategy.m \in {1, 2}
    /\ strategy' = [strategy EXCEPT !.m = 1, !.real = None]
    /\ DisposeItems

(* evtUnsubscribe, evtOnUNSUB, evtDispose                                  *)
evtUnsubscribe ==
    /\ strategy.m \in {1, 2}
    /\ strategy' = [strategy EXCEPT !.m = 3]
    /\ DisposeItems

(* The application subscribes again: another manager, another strategy.    *)
evtExtSubscribe ==
    /\ strategy.m = 3
    /\ strategy' = NewStrategy
    /\ UNCHANGED <<keys, command, latest, sub2, disabled, calls, table, sent, view, told>>

Reconfigured_OnlyUpdated(rows) == {rows[k].sub : k \in {q \in Keys : rows[q].s = 5}}
Reconfigured(rows) == SubsOf(rows)

(* Subscription.setRequestedMaxFrequency on each subscription of the       *)
(* second level                                                            *)
evtSetRequestedMaxFrequency ==
    \E freq \in Frequencies :
        /\ strategy.m = 2
        /\ strategy' = [strategy EXCEPT !.requested = freq]
        /\ sub2' = [id \in SubIds |-> IF id \in Reconfigured(keys)
                                      THEN [sub2[id] EXCEPT !.freq = freq] ELSE sub2[id]]
        /\ UNCHANGED <<keys, command, latest, disabled, calls, table, sent, view, told>>

(* CS: the keys go; the values of the item stay, for the next update may   *)
(* repeat them.                                                            *)
evtOnCS ==
    /\ strategy.m = 2
    /\ DisposeKeys
    /\ Report(WhenFreqIsRemoved([k \in Keys |-> NoRow]))
    /\ table' = [k \in Keys |-> None]
    /\ UNCHANGED <<command, latest, calls, sent>>

-----------------------------------------------------------------------------
(* An update of the first level.  The values of the item become those of   *)
(* the key (they are the same map), and what the key writes into its       *)
(* command it writes into that of the item.                                *)

Show(k, cmd, first, second) ==
    view' = [view EXCEPT ![k] = [command |-> cmd, first |-> first, second |-> second]]

(* doFirstUpdate: s1 -> s4, or s3 if the key cannot be subscribed to       *)
FirstUpdate(k, value) ==
    /\ keys[k].s = None
    /\ IF k \in IllegalKeys
       THEN /\ keys' = [keys EXCEPT ![k] = Row(3, None, value)]
            /\ UNCHANGED sub2
       ELSE /\ keys' = [keys EXCEPT ![k] = Row(4, FreshSub, value)]
            /\ sub2' = [sub2 EXCEPT ![FreshSub] = NewSub("asked", strategy.requested)]
    /\ command' = "ADD"
    /\ Show(k, "ADD", value, None)
    /\ UNCHANGED <<strategy, told, disabled>>

Second(k) == IF keys[k].s = 5 THEN keys[k].second ELSE None

(* doUpdate, doUpdate1Level                                                *)
Update(k, value) ==
    /\ keys[k].s # None
    /\ keys' = [keys EXCEPT ![k].first = value]
    /\ command' = "UPDATE"
    /\ Show(k, "UPDATE", value, Second(k))
    /\ UNCHANGED <<strategy, told, sub2, disabled>>

(* doLightDelete, doDelete1LevelOnly, doDelete, doDeleteExt.  The key is   *)
(* forgotten before the frequencies are aggregated.                        *)
Delete(k) ==
    /\ keys' = [keys EXCEPT ![k] = NoRow]
    /\ sub2' = Unsubscribed({keys[k].sub} \ {None})
    /\ Disable({keys[k].sub} \ {None})
    /\ command' = "DELETE"
    /\ view' = [view EXCEPT ![k] = Blank]
    /\ Report(WhenFreqIsRemoved(keys'))

(* What the client reads in a field that the server left unchanged         *)
Decoded(cmd, unchanged) == IF unchanged THEN command ELSE cmd

evtUpdate(k, cmd, value, unchanged) ==
    /\ strategy.m = 2
    /\ IF Decoded(cmd, unchanged) = "DELETE" THEN Delete(k)
       ELSE FirstUpdate(k, value) \/ Update(k, value)
    /\ latest' = k
    /\ UNCHANGED calls

(* The server: a row it knows is updated or deleted; one it does not know  *)
(* is added, or was there before a subscription without snapshot.  A field *)
(* that did not change is not sent.                                        *)
ServerUpdates ==
    \E k \in Keys, cmd \in {"ADD", "UPDATE", "DELETE"}, value \in Values :
        /\ table[k] # None => cmd # "ADD"
        /\ table' = [table EXCEPT ![k] = IF cmd = "DELETE" THEN None ELSE value]
        /\ sent' = cmd
        /\ evtUpdate(k, cmd, value, sent = cmd)

-----------------------------------------------------------------------------
(* The subscriptions of the second level, on the thread of the session.    *)
(* What their listener is called with is queued for the thread of the user.*)

Dispatch(id, event, arg) ==
    /\ Len(calls) < MaxCalls
    /\ calls' = Append(calls, [id |-> id, key |-> CHOOSE k \in Keys : keys[k].sub = id,
                               event |-> event, arg |-> arg])
    /\ UNCHANGED <<client, table, sent, view, told>>

(* SUBOK                                                                   *)
Sub2Accepted(id) ==
    /\ sub2[id].state = "asked"
    /\ sub2' = [sub2 EXCEPT ![id].state = "on"]
    /\ UNCHANGED <<client, calls, table, sent, view, told>>

Sub2Refused(id) ==
    /\ sub2[id].state = "asked"
    /\ sub2' = [sub2 EXCEPT ![id].state = "none"]
    /\ Dispatch(id, "onSubscriptionError", None)

Sub2Conf(id) ==
    \E freq \in Frequencies :
        /\ sub2[id].state = "on"
        /\ sub2' = [sub2 EXCEPT ![id].real = freq]
        /\ Dispatch(id, "onRealMaxFrequency", freq)

Sub2Update(id) ==
    \E value \in Values :
        /\ sub2[id].state = "on"
        /\ sub2' = [sub2 EXCEPT ![id].value = value]
        /\ Dispatch(id, "onItemUpdate", value)

(* UNSUB                                                                   *)
Sub2Closed(id) ==
    /\ sub2[id].state = "on"
    /\ sub2' = [sub2 EXCEPT ![id] = NewSub("none", sub2[id].freq)]
    /\ Dispatch(id, "onUnsubscription", None)

SecondLevel ==
    \E id \in SubIds :
        Sub2Accepted(id) \/ Sub2Refused(id) \/ Sub2Conf(id) \/ Sub2Update(id) \/ Sub2Closed(id)

-----------------------------------------------------------------------------
(* Sub2LevelDelegate, on the thread of the user                            *)

Receivers_ByName(call) == {k \in Keys : k = call.key /\ keys[k].s \in {4, 5}}
Receivers(call) == {k \in Keys : call.id \notin disabled /\ keys[k].sub = call.id}

Silent == UNCHANGED <<strategy, told, view, command>>

evtOnSubscriptionError2Level(k) ==
    /\ IF keys[k].s = 4
       THEN /\ keys' = [keys EXCEPT ![k] = [@ EXCEPT !.s = 3, !.sub = None]]
            /\ sub2' = [sub2 EXCEPT ![keys[k].sub] = Idle]
       ELSE UNCHANGED <<keys, sub2>>
    /\ Silent

evtUpdate2Level_AnyKey(k, value) ==
    /\ keys' = [keys EXCEPT ![k] = [@ EXCEPT !.s = 5, !.second = value]]
    /\ command' = "UPDATE"
    /\ Show(k, "UPDATE", keys[k].first, value)
    /\ UNCHANGED <<sub2, strategy, told>>

(* doUpdate2Level writes into the values of the key, which may be those of *)
(* the item.                                                               *)
evtUpdate2Level(k, value) ==
    /\ keys' = [keys EXCEPT ![k] = [@ EXCEPT !.s = 5, !.second = value]]
    /\ command' = IF latest = k THEN "UPDATE" ELSE command
    /\ Show(k, "UPDATE", keys[k].first, value)
    /\ UNCHANGED <<sub2, strategy, told>>

evtOnRealMaxFrequency2Level(k, freq) ==
    /\ keys' = [keys EXCEPT ![k].freq = freq]
    /\ Report(WhenFreqIsAdded(freq))
    /\ UNCHANGED <<sub2, view, command>>

evtOnUnsubscription2Level(k) ==
    /\ keys' = [keys EXCEPT ![k].freq = None]
    /\ Report(WhenFreqIsRemoved(keys'))
    /\ UNCHANGED <<sub2, view, command>>

RunCall ==
    /\ calls # <<>>
    /\ LET call == Head(calls) IN
       /\ calls' = Tail(calls)
       /\ disabled' = {id \in disabled : \E i \in DOMAIN Tail(calls) : Tail(calls)[i].id = id}
       /\ \/ Receivers(call) = {} /\ UNCHANGED <<keys, sub2>> /\ Silent
          \/ \E k \in Receivers(call) :
             \/ call.event = "onSubscriptionError" /\ evtOnSubscriptionError2Level(k)
             \/ call.event = "onItemUpdate" /\ evtUpdate2Level(k, call.arg)
             \/ call.event = "onRealMaxFrequency" /\ evtOnRealMaxFrequency2Level(k, call.arg)
             \/ call.event = "onUnsubscription" /\ evtOnUnsubscription2Level(k)
    /\ UNCHANGED <<latest, table, sent>>

-----------------------------------------------------------------------------
Manager ==
    \/ evtExtSubscribe \/ evtOnSUB \/ evtAbort \/ evtUnsubscribe
    \/ evtSetRequestedMaxFrequency \/ evtOnCS
    \/ \E freq \in Frequencies : evtOnCONF(freq)

Next == Manager \/ ServerUpdates \/ SecondLevel \/ RunCall

Spec == Init /\ [][Next]_vars

-----------------------------------------------------------------------------
Rows == [s : {None, 3, 4, 5}, sub : SubIds \cup {None}, first : Values \cup {None},
         second : Values \cup {None}, freq : Frequencies \cup {None}]

SubStates == [state : {"none", "asked", "on"}, freq : Frequencies \cup {None},
              real : Frequencies \cup {None}, value : Values \cup {None}]
Events == {"onSubscriptionError", "onRealMaxFrequency", "onItemUpdate", "onUnsubscription"}
Calls == {call \in [id : SubIds, key : Keys, event : Events, arg : Nat] :
              /\ call.event = "onItemUpdate" => call.arg \in Values
              /\ call.event = "onRealMaxFrequency" => call.arg \in Frequencies
              /\ call.event \in {"onSubscriptionError", "onUnsubscription"} => call.arg = None}
ViewRows == [command : {"none", "ADD", "UPDATE"}, first : Values \cup {None},
             second : Values \cup {None}]

(* Types, and which states of a key have a subscription of the second      *)
(* level.                                                                  *)
TypeOK ==
    /\ strategy \in [m : 1..3, requested : Frequencies \cup {None},
                     real : Frequencies \cup {None}, aggregate : Frequencies \cup {None}]
    /\ keys \in [Keys -> Rows]
    /\ \A k \in Keys : keys[k].sub # None <=> keys[k].s \in {4, 5}
    /\ command \in {"none", "ADD", "UPDATE", "DELETE"} /\ latest \in Keys \cup {NoKey}
    /\ sub2 \in [SubIds -> SubStates] /\ disabled \subseteq SubIds
    /\ calls \in Seq(Calls) /\ Len(calls) <= MaxCalls
    /\ table \in [Keys -> Values \cup {None}] /\ sent \in {"none", "ADD", "UPDATE", "DELETE"}
    /\ view \in [Keys -> ViewRows]
    /\ told \in Frequencies \cup {None}

(* When every call has run, the listener was given exactly the rows that   *)
(* the server has: the first level always, the second when it is           *)
(* subscribed to, each up to date although they come by different threads. *)
TableAgrees ==
    strategy.m = 2 /\ calls = <<>> =>
        \A k \in Keys :
            /\ view[k].first = table[k]
            /\ keys[k].sub # None /\ sub2[keys[k].sub].state = "on" =>
                   view[k].second = sub2[keys[k].sub].value

(* The listener can follow the commands: a row is added once, updated      *)
(* while it is there, and never comes back without being added.            *)
CommandsFit ==
    [][\A k \in Keys :
          view'[k] # view[k] =>
              \/ view'[k].command = "none"
              \/ view[k].command = "none" <=> view'[k].command = "ADD"]_vars

(* A command that the server does not repeat is read as it was meant,      *)
(* although the client writes into the values it is read from.             *)
DeleteIsDecoded == sent = "DELETE" <=> command = "DELETE"

(* No subscription of the second level outlives its key, and no two keys   *)
(* share one.                                                              *)
NoOrphan ==
    \A id \in SubIds :
        sub2[id].state # "none" => Cardinality({k \in Keys : keys[k].sub = id}) = 1

(* A key and its subscription of the second level come and go together, as  *)
(* the commands of the first level say.                                    *)
KeysAreFollowed == TypeOK /\ DeleteIsDecoded /\ NoOrphan

(* Every subscription of the second level asks for the frequency that the  *)
(* subscription asks for, whenever it was created or changed.              *)
FrequenciesAgree ==
    \A k \in Keys : keys[k].sub # None => sub2[keys[k].sub].freq = strategy.requested

Real(k) == IF keys[k].sub = None THEN None ELSE sub2[keys[k].sub].real
RealMaximum == MaxFreq({strategy.real} \cup {Real(k) : k \in Keys})

(* The frequency the listener knows is never lower than that of one of     *)
(* the levels, when every call has run.                                    *)
NotUnderstated ==
    strategy.m = 2 /\ calls = <<>> =>
        /\ strategy.aggregate >= RealMaximum
        /\ told # None => told = strategy.aggregate

(* The frequency asked for and the one told are right for both levels.     *)
FrequenciesFit == FrequenciesAgree /\ NotUnderstated
=============================================================================
