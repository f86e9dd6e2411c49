------------------------------- MODULE OnionLink -------------------------------
(***************************************************************************)
(* The state that the onion transport shows                                *)
(* (adapters/transports/onionRouterTransport.ts: start, stop and polls).   *)
(*                                                                         *)
(* A start waits for Tor and for the controller's health before it is      *)
(* connected and begins to poll.  Polls that fail degrade the connection   *)
(* and then fail it; a change between connected and degraded is held back  *)
(* by a timer, so that a single answer changes nothing.                    *)
(*                                                                         *)
(* Abstracted: the packets that polls bring (module OnionInbox), delays.   *)
(***************************************************************************)
EXTENDS Integers

CONSTANTS
    Degrading,      \* failures in a row that degrade the connection (3)
    Failing,        \* failures in a row that fail it (6)
    MaxLinkStarts   \* bound: starts and stops

ASSUME OnionLinkAssumption ==
    Degrading \in Nat \ {0} /\ Failing \in Nat /\ Degrading < Failing /\ MaxLinkStarts \in Nat

Shown == {"idle", "connecting", "connected", "degraded", "failed"}
NoTimer == "none"

VARIABLES
    link,        \* state
    lateShow,    \* what stateTimer will show, or NoTimer
    streak,      \* errorStreak
    pollers,     \* subscriptions to the shared poller that nobody has stopped
    polled,      \* whether pollerStop is there
    linkStarting, \* starts of the transport that are under way
    linkCalls,   \* starts and stops so far
    linkOverlap, restarted, outdated, refused   \* history: see the causes below

causes == <<linkOverlap, restarted, outdated, refused>>
linkStateVars == <<link, lateShow, streak, pollers, polled, linkStarting, linkCalls, causes>>

OnionLinkTypeOK ==
    /\ link \in Shown /\ lateShow \in {NoTimer, "connected", "degraded"}
    /\ streak \in 0..Failing /\ pollers \in 0..MaxLinkStarts /\ linkStarting \in 0..MaxLinkStarts

-----------------------------------------------------------------------------
Flips(next) == {link, next} = {"connected", "degraded"}

Shows(next) == link' = next /\ lateShow' = NoTimer

\* requestState, for at once and with the timer; what is shown already clears no timer.
ShowsNow(next) == IF link = next THEN UNCHANGED <<link, lateShow>> ELSE Shows(next)
Requests(next) ==
    IF Flips(next) THEN lateShow' = next /\ UNCHANGED link ELSE ShowsNow(next)

LinkStarts ==
    /\ linkCalls < MaxLinkStarts
    /\ linkCalls' = linkCalls + 1 /\ linkStarting' = linkStarting + 1
    /\ ShowsNow("connecting")
    /\ linkOverlap' = (linkOverlap \/ linkStarting > 0 \/ polled)
    /\ UNCHANGED <<streak, pollers, polled, restarted, outdated, refused>>

\* Tor is ready and the controller healthy: connected, whatever has happened meanwhile.
LinkStarted ==
    /\ linkStarting > 0
    /\ linkStarting' = linkStarting - 1
    /\ ShowsNow("connected")
    /\ pollers' = pollers + 1 /\ polled' = TRUE
    /\ restarted' = (restarted \/ streak > 0)
    /\ UNCHANGED <<streak, linkCalls, linkOverlap, outdated, refused>>

\* No Tor, or no health after three looks.
LinkRefused ==
    /\ linkStarting > 0
    /\ linkStarting' = linkStarting - 1
    /\ ShowsNow("failed")
    /\ refused' = TRUE
    /\ UNCHANGED <<streak, pollers, polled, linkCalls, linkOverlap, restarted, outdated>>

LinkStops ==
    /\ linkCalls < MaxLinkStarts
    /\ linkCalls' = linkCalls + 1
    /\ pollers' = IF polled THEN pollers - 1 ELSE pollers
    /\ polled' = FALSE /\ streak' = 0
    /\ link' = "idle" /\ lateShow' = NoTimer
    /\ linkOverlap' = (linkOverlap \/ linkStarting > 0)
    /\ UNCHANGED <<linkStarting, restarted, outdated, refused>>

\* The mutant: a success keeps the failures that were counted before it.
KeepsStreak ==
    /\ pollers > 0
    /\ IF link \in {"degraded", "failed"} THEN Requests("connected")
       ELSE UNCHANGED <<link, lateShow>>
    /\ outdated' = (link = "connected" /\ (outdated \/ lateShow = "degraded"))
    /\ UNCHANGED <<streak, pollers, polled, linkStarting, linkCalls, linkOverlap, restarted,
                   refused>>

PollSucceeds ==
    /\ pollers > 0
    /\ streak' = 0
    /\ IF link \in {"degraded", "failed"} THEN Requests("connected")
       ELSE UNCHANGED <<link, lateShow>>
    /\ outdated' = (link = "connected" /\ (outdated \/ lateShow = "degraded"))
    /\ UNCHANGED <<pollers, polled, linkStarting, linkCalls, linkOverlap, restarted, refused>>

PollFailed ==
    /\ pollers > 0
    /\ streak' = IF streak < Failing THEN streak + 1 ELSE streak
    /\ IF streak' >= Failing THEN ShowsNow("failed")
       ELSE IF streak' >= Degrading THEN Requests("degraded")
       ELSE UNCHANGED <<link, lateShow>>
    /\ outdated' = IF streak' < Degrading THEN outdated
                   ELSE link = "degraded" /\ (outdated \/ lateShow = "connected")
    /\ UNCHANGED <<pollers, polled, linkStarting, linkCalls, linkOverlap, restarted, refused>>

TimerShows ==
    /\ lateShow # NoTimer
    /\ Shows(lateShow)
    /\ UNCHANGED <<streak, pollers, polled, linkStarting, linkCalls, causes>>

OnionLinkInit ==
    /\ link = "idle" /\ lateShow = NoTimer /\ streak = 0 /\ pollers = 0 /\ polled = FALSE
    /\ linkStarting = 0 /\ linkCalls = 0
    /\ linkOverlap = FALSE /\ restarted = FALSE /\ outdated = FALSE /\ refused = FALSE

OnionLinkNext ==
    \/ LinkStarts \/ LinkStarted \/ LinkRefused \/ LinkStops
    \/ PollSucceeds \/ PollFailed \/ TimerShows

OnionLinkSpec == OnionLinkInit /\ [][OnionLinkNext]_linkStateVars

-----------------------------------------------------------------------------
\* What is shown agrees with the last answers of the controller, once no timer holds a change
\* back and no start is under way.  Two ways out are known: a start does not reset the failures
\* counted before it, and an answer that agrees with what is shown does not clear a timer that
\* earlier answers have set.
ShownIsTrue ==
    lateShow = NoTimer /\ linkStarting = 0 /\ ~linkOverlap /\ ~restarted /\ ~outdated =>
        /\ link = "connected" => streak < Degrading
        /\ link = "degraded" => streak >= Degrading
        /\ link = "failed" => streak >= Failing \/ refused

\* A transport that was stopped polls no more, and one that runs polls once, unless starts and
\* stops overlapped.
NoStrayPoller ==
    linkOverlap \/ (pollers <= 1 /\ (link = "idle" => pollers = 0) /\ (pollers = 1 <=> polled))

OnionLinkSound == OnionLinkTypeOK /\ ShownIsTrue /\ NoStrayPoller
=============================================================================
