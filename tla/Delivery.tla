------------------------------ MODULE Delivery ------------------------------
(***************************************************************************)
(* What a Lightstreamer session promises to the code above it: the         *)
(* listeners of subscriptions and messages see the notifications that the  *)
(* server has produced for the session, in the order in which it produced  *)
(* them, each once, with none left out.  Nothing of connections, polling   *)
(* cycles, losses or recoveries is visible here: a session may only stop   *)
(* early, when everything starts over.                                     *)
(***************************************************************************)
EXTENDS Naturals, Sequences

VARIABLES
    produced,   \* how many notifications the server has produced so far
    delivered   \* the notifications the listeners have seen, by number

vars == <<produced, delivered>>

Init == produced = 0 /\ delivered = <<>>

(* The server has a new notification for the session. *)
Produce ==
    /\ produced' = produced + 1
    /\ UNCHANGED delivered

(* The listeners see the notification that follows the last one they saw. *)
Deliver ==
    /\ Len(delivered) < produced
    /\ delivered' = Append(delivered, Len(delivered) + 1)
    /\ UNCHANGED produced

(* The session is over: the next one starts from nothing. *)
Reset ==
    /\ produced' = 0
    /\ delivered' = <<>>

Next == Produce \/ Deliver \/ Reset

Spec == Init /\ [][Next]_vars
=============================================================================
