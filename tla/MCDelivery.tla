----------------------------- MODULE MCDelivery -----------------------------
(***************************************************************************)
(* The components of the renderer that bring something to a peer, for TLC: *)
(* the inbox it polls, the routes, the reconnection, friend requests and   *)
(* the synchronisation of a log.                                           *)
(*                                                                         *)
(* They share no variable here.  A behaviour is one of one component,      *)
(* which `part` names, while the others stay in their initial states, so   *)
(* that the states of a run add up instead of multiplying.                 *)
(***************************************************************************)
EXTENDS OnionInbox, RouteManager, Reconnection, Friendship, SyncFlow

CONSTANTS own, small, large

OneDevice == {own}
TwoIds    == {small, large}
Sizes     == [id \in Ids |-> IF id = small THEN 1 ELSE 2]

VARIABLE part  \* the component of this behaviour

DeliveryInit ==
    /\ part \in {"inbox", "route", "connection", "friends", "sync"}
    /\ Init /\ RouteInit /\ ReconnectInit /\ FriendInit /\ SyncInit

\* The components but one stay as they are.
Rest(p) ==
    /\ p # "inbox" => UNCHANGED vars
    /\ p # "route" => UNCHANGED routeVars
    /\ p # "connection" => UNCHANGED conVars
    /\ p # "friends" => UNCHANGED friendVars
    /\ p # "sync" => UNCHANGED syncVars

DeliveryNext ==
    /\ UNCHANGED part /\ Rest(part)
    /\ \/ part = "inbox" /\ Next
       \/ part = "route" /\ RouteNext
       \/ part = "connection" /\ ReconnectNext
       \/ part = "friends" /\ FriendNext
       \/ part = "sync" /\ SyncNext

\* The fairness of each component, for the behaviours that are its own.
DeliveryFairness ==
    /\ WF_vars(part = "inbox" /\ Poll)
    /\ SF_vars(part = "inbox" /\ Serve)
    /\ SF_vars(part = "inbox" /\ Receive)
    /\ WF_routeVars(part = "route" /\ HelloTimesOut)
    /\ WF_conVars(part = "connection" /\ ReconnectTimer)
    /\ WF_conVars(part = "connection" /\ OpenEnds)
    /\ WF_conVars(part = "connection" /\ Decides)
    /\ \A u \in Users :
           /\ WF_friendVars(part = "friends" /\ RequestSent(u))
           /\ WF_friendVars(part = "friends" /\ ApplyAnswer(u))
           /\ WF_friendVars(part = "friends" /\ HydrateStore(u))
           /\ WF_friendVars(part = "friends" /\ SendRequest(u))
           /\ WF_friendVars(part = "friends" /\ RetryAnswer(u))
    /\ WF_friendVars(part = "friends" /\ Receiving)
    /\ WF_syncVars(part = "sync" /\ \E k \in InFlight : RetryTimer(k))

DeliverySpec ==
    /\ DeliveryInit
    /\ [][DeliveryNext]_<<part, vars, routeVars, conVars, friendVars, syncVars>>
    /\ DeliveryFairness
=============================================================================
