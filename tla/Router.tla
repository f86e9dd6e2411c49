------------------------------- MODULE Router -------------------------------
(***************************************************************************)
(* How one message finds a transport (net/router.ts).  sendCiphertext      *)
(* sends it for the first time, sendOutboxRecord each time the delivery    *)
(* scheduler takes it from the outbox again; the record is due at once, so *)
(* the two run together, and an acknowledgement may come in between.       *)
(*                                                                         *)
(* A call reads the settings once, asks the gate, and tries the transport  *)
(* chosen; what is tried after it depends on the answer.  The first call   *)
(* writes the whole record again before every attempt.  Beside the calls,  *)
(* a listener keeps the onion transports started for what comes in.        *)
(*                                                                         *)
(* Abstracted: the state of routes and of the onion network, which each    *)
(* call reads once (any value), the texts that answers are recognised by,  *)
(* the trace of flow events and the diagnostics, the times of attempts.    *)
(***************************************************************************)
EXTENDS Integers, Sequences

Kinds == {"router", "self", "direct"}
Modes == Kinds
Answers == [router |-> {"target", "route", "proxy", "notready", "other"},
            self |-> {"notready", "other"}, direct |-> {"other"}]
NoCall == [pc |-> "idle", policy |-> "direct", to |-> "none", left |-> <<>>, tries |-> 0,
         failed |-> {}]

VARIABLES
    fresh,       \* the call of sendCiphertext
    again,       \* the call of sendOutboxRecord
    row,         \* whom the stored record is addressed to, "gone" without a record
    learnt,      \* the friend's device is known
    carried,     \* a transport took the message
    listens,     \* somebody handles incoming packets
    preparing,   \* inboundStartPromise: the listener starts its transports
    awaited,     \* inboundRetryTimer runs
    started      \* transportStarted

inboundVars == <<listens, preparing, awaited>>
routerVars == <<fresh, again, row, learnt, carried, inboundVars, started>>

Addresses == {"none", "alias", "device"}
CallStates == {"idle", "storing", "deferring", "trying", "sent", "ok", "later", "failed", "refused"}

RouterTypeOK ==
    /\ \A c \in {fresh, again} :
          /\ c.pc \in CallStates /\ c.policy \in Modes /\ c.to \in Addresses
          /\ c.left \in Seq(Kinds) /\ c.tries \in 0..3
          /\ c.failed \subseteq UNION {{k} \X Answers[k] : k \in Kinds}
    /\ row \in Addresses \cup {"gone"} /\ started \subseteq Kinds
    /\ {learnt, carried, listens, preparing, awaited} \subseteq BOOLEAN

-----------------------------------------------------------------------------
\* decideRouterTransport: what the settings prefer; onionEnabled goes before the mode.
Policy(mode, onion) == IF onion THEN "router" ELSE mode
OnionFirst(policy) == policy # "direct"
Guarded(policy) == policy = "router"

\* The own onion route is passed over for an address the route cannot be ready for.
Chosen(policy, target, routeReady) ==
    IF policy = "self" /\ target /\ ~routeReady THEN "router" ELSE policy

\* The gate: an onion that is not connected yet has the message wait.
Defers(mode, onion, target, connected) ==
    mode = "router" /\ onion /\ target /\ ~connected

NeverDefers(mode, onion, target, connected) == FALSE

\* What is tried after the chosen transport has failed.
Fallbacks(policy, kind, answer) ==
    CASE kind = "router" /\ answer \in {"route", "proxy"} -> <<"self", "direct">>
      [] kind = "router" /\ answer = "target" -> <<"direct">>
      [] kind = "direct" -> <<"router", "self">>
      [] policy = "self" /\ kind = "self" -> <<"router">>
      [] OTHER -> <<>>

\* Direct and own onion routes are closed in router mode, unless the answer allowed them.
Opened(c) ==
    LET kind == Head(c.left)
    IN  \/ ~Guarded(c.policy) \/ kind = "router"
        \/ kind = "direct" /\ \E a \in {"target", "route", "proxy"} : <<"router", a>> \in c.failed
        \/ kind = "self" /\ \E a \in {"route", "proxy"} : <<"router", a>> \in c.failed

-----------------------------------------------------------------------------
Called(pc, policy, to, left) ==
    [NoCall EXCEPT !.pc = pc, !.policy = policy, !.to = to, !.left = left]
Over(pc) == [NoCall EXCEPT !.pc = pc]

\* sendCiphertext: without a destination nothing is stored; else the record is, whatever follows.
FreshBegins ==
    /\ fresh.pc = "idle"
    /\ \E mode \in Modes, onion, target, connected, routeReady \in BOOLEAN, to \in Addresses :
          LET policy == Policy(mode, onion) IN
          /\ to = "device" => learnt
          /\ fresh' = IF to = "none" THEN Over("refused")
                      ELSE IF Defers(mode, onion, target, connected)
                      THEN Called("deferring", policy, to, <<>>)
                      ELSE Called("storing", policy, to, <<Chosen(policy, target, routeReady)>>)
    /\ UNCHANGED <<again, row, learnt, carried, started, inboundVars>>

FreshStored ==
    /\ fresh.pc \in {"storing", "deferring"}
    /\ row' = fresh.to
    /\ fresh' = IF fresh.pc = "deferring" THEN Over("later") ELSE [fresh EXCEPT !.pc = "trying"]
    /\ UNCHANGED <<again, learnt, carried, started, inboundVars>>

KeepsAlias == row

\* sendOutboxRecord: an alias gives way to the device of the friend, if that is known.
Addressed == IF row = "device" \/ ~learnt THEN row ELSE "device"
Refreshed == IF row = "alias" /\ ~learnt THEN "none" ELSE Addressed

AgainBegins ==
    /\ again.pc = "idle" /\ row # "gone"
    /\ row' = Addressed
    /\ \E mode \in Modes, onion, target, connected, routeReady \in BOOLEAN :
          LET policy == Policy(mode, onion) IN
          again' = IF Refreshed = "none" THEN Over("refused")
                   ELSE IF Defers(mode, onion, target, connected) THEN Over("later")
                   ELSE Called("trying", policy, Refreshed,
                                <<Chosen(policy, target, routeReady)>>)
    /\ UNCHANGED <<fresh, learnt, carried, started, inboundVars>>

\* The scheduler takes up the record that is still there.
AgainEnds ==
    /\ again.pc \in {"ok", "later", "failed", "refused"}
    /\ again' = NoCall
    /\ UNCHANGED <<fresh, row, learnt, carried, started, inboundVars>>

-----------------------------------------------------------------------------
\* What the failure of an attempt leads to.
AfterFailure(c, answer) ==
    LET kind == Head(c.left)
        known == [c EXCEPT !.tries = @ + 1, !.failed = @ \cup {<<kind, answer>>}]
        next == IF c.tries = 0 THEN Fallbacks(c.policy, kind, answer)
                ELSE IF kind = "self" /\ answer = "notready" /\ ~OnionFirst(c.policy)
                        /\ <<"self", "notready">> \notin c.failed
                THEN c.left
                ELSE Tail(c.left)
    IN  IF OnionFirst(c.policy) /\ kind # "direct" /\ answer = "notready" THEN Over("later")
        ELSE IF next = <<>> THEN Over("failed")
        ELSE [known EXCEPT !.pc = "trying", !.left = next]

\* An attempt starts the transport first, which may fail; the first call then stores the record.
TryFails(c, answer) == c.pc = "trying" /\ answer \in Answers[Head(c.left)]
TryBegins(c) == c.pc = "trying" /\ Opened(c)

FreshTries ==
    \/ /\ TryBegins(fresh)
       /\ fresh' = [fresh EXCEPT !.pc = "sent"] /\ row' = fresh.to
       /\ started' = started \cup {Head(fresh.left)}
       /\ UNCHANGED <<again, learnt, carried, inboundVars>>
    \/ \E answer \in {"notready", "other"} :
          /\ TryFails(fresh, answer) /\ fresh' = AfterFailure(fresh, answer)
          /\ UNCHANGED <<again, row, learnt, carried, started, inboundVars>>

AgainTries ==
    \/ /\ TryBegins(again)
       /\ again' = [again EXCEPT !.pc = "sent"] /\ started' = started \cup {Head(again.left)}
       /\ UNCHANGED <<fresh, row, learnt, carried, inboundVars>>
    \/ \E answer \in {"notready", "other"} :
          /\ TryFails(again, answer) /\ again' = AfterFailure(again, answer)
          /\ UNCHANGED <<fresh, row, learnt, carried, started, inboundVars>>

FreshAnswered ==
    /\ fresh.pc = "sent"
    /\ \/ carried' = TRUE /\ fresh' = Over("ok")
       \/ /\ \E answer \in Answers[Head(fresh.left)] : fresh' = AfterFailure(fresh, answer)
          /\ UNCHANGED carried
    /\ UNCHANGED <<again, row, learnt, started, inboundVars>>

AgainAnswered ==
    /\ again.pc = "sent"
    /\ \/ carried' = TRUE /\ again' = Over("ok")
       \/ /\ \E answer \in Answers[Head(again.left)] : again' = AfterFailure(again, answer)
          /\ UNCHANGED carried
    /\ UNCHANGED <<fresh, row, learnt, started, inboundVars>>

-----------------------------------------------------------------------------
\* The peer has the message and says so: the record is deleted.
AckDeletes ==
    /\ carried /\ row # "gone"
    /\ row' = "gone"
    /\ UNCHANGED <<fresh, again, learnt, carried, started, inboundVars>>

DeviceLearnt ==
    ~learnt /\ learnt' = TRUE /\ UNCHANGED <<fresh, again, row, carried, started, inboundVars>>

-----------------------------------------------------------------------------
callVars == <<fresh, again, row, learnt, carried>>

\* prewarmRouter: the transports of the settings are started, each may fail.
Prewarmed ==
    /\ \E more \in SUBSET Kinds : started' = started \cup more
    /\ UNCHANGED <<callVars, inboundVars>>

\* onIncomingPacket: a handler that finds the listener at work leaves it to it.
Subscribed ==
    /\ ~listens
    /\ listens' = TRUE /\ preparing' = TRUE
    /\ UNCHANGED <<callVars, awaited, started>>

Unsubscribed ==
    /\ listens
    /\ listens' = FALSE /\ awaited' = FALSE
    /\ UNCHANGED <<callVars, preparing, started>>

\* A start that was overtaken by that of a send may fail beside it: the retry finds it started.
ListenerPrepared ==
    /\ preparing /\ preparing' = FALSE
    /\ \E mine \in SUBSET {"router", "self"} :
          /\ started' = started \cup mine
          /\ awaited' = (awaited \/ (listens /\ "router" \notin mine))
    /\ UNCHANGED <<callVars, listens>>

ListenerRetries ==
    /\ awaited
    /\ awaited' = FALSE /\ preparing' = (preparing \/ listens)
    /\ UNCHANGED <<callVars, listens, started>>

RouterInit ==
    /\ fresh = NoCall /\ again = NoCall /\ row = "gone" /\ carried = FALSE /\ learnt \in BOOLEAN
    /\ listens = FALSE /\ preparing = FALSE /\ awaited = FALSE /\ started = {}

RouterNext ==
    \/ FreshBegins \/ FreshStored \/ FreshTries \/ FreshAnswered
    \/ AgainBegins \/ AgainEnds \/ AgainTries \/ AgainAnswered
    \/ AckDeletes \/ DeviceLearnt
    \/ Prewarmed \/ Subscribed \/ Unsubscribed \/ ListenerPrepared \/ ListenerRetries

RouterSpec == RouterInit /\ [][RouterNext]_routerVars

-----------------------------------------------------------------------------
\* What is tried after a failure is never what the guard of the attempt refuses, and in router
\* mode the peer sees the own address only after the router has answered that it has no way.
AllowedIsOpen == \A c \in {fresh, again} : c.pc \in {"trying", "sent"} => Opened(c)

\* Onion first: an onion that is not ready ends the call, it does not open another transport.
NotReadyWaits ==
    \A c \in {fresh, again} :
        c.pc \in {"trying", "sent"} /\ OnionFirst(c.policy) =>
            \A f \in c.failed : f[2] # "notready"

\* A first call that has promised a retry, or still tries, leaves the record in the outbox,
\* unless a transport took the message: then its acknowledgement may have removed the record.
KeptUnlessTaken == fresh.pc \in {"trying", "sent", "later", "failed"} => row # "gone" \/ carried

\* A retry asks for the device, whatever the first call has written over the record since.
RetriesReachDevice == again.pc \in {"trying", "sent"} => again.to = "device"

\* While somebody listens the router transport is started, or a start is under way or to come:
\* handlers come and go while the listener is at work.
InboundRetried == listens /\ "router" \notin started => preparing \/ awaited

RouterSound ==
    /\ RouterTypeOK /\ InboundRetried /\ AllowedIsOpen /\ NotReadyWaits /\ KeptUnlessTaken
    /\ RetriesReachDevice
=============================================================================
