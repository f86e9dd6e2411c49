------------------------------ MODULE TorRuntime ------------------------------
(***************************************************************************)
(* The renderer's view of Tor (net/tor/TorRuntime.ts) and the sends of the *)
(* onion transport that rely on it (onionRouterTransport.ts).              *)
(*                                                                         *)
(* A send starts the runtime, waits until it is ready, tells the           *)
(* controller which proxy to forward through and asks it to forward; an    *)
(* answer that the proxy was not there marks the runtime as degraded, and  *)
(* one that the message was queued for that reason also restarts Tor in    *)
(* the background.  Starts and stops of the runtime share a promise each;  *)
(* a start that waited for a stop does not look again at what others have  *)
(* begun meanwhile.                                                        *)
(*                                                                         *)
(* Abstracted: the process of Tor (module TorManager), addresses and       *)
(* routes, delays, aborted sends, sends without an onion address.          *)
(***************************************************************************)
EXTENDS Integers, FiniteSets

CONSTANTS
    Sends,        \* the sends that may be under way at a time
    Recovery,     \* the recovery in the background
    Nobody,       \* no start is under way
    Tries,        \* SEND_PROXY_RETRY_DELAYS_MS.length
    MaxTorFaults  \* bound: exits of Tor, failing and late starts

Starters == Sends \cup {Recovery}

ASSUME RuntimeAssumption ==
    /\ Recovery \notin Sends /\ Nobody \notin Starters
    /\ Tries \in Nat \ {0} /\ MaxTorFaults \in Nat

VARIABLES
    rt,           \* state
    rtSocks,      \* whether socksUrl is there
    torProc,      \* Tor in the main process: "off", "booting", "up"
    forward,      \* whether the controller has a proxy to forward through
    run,          \* the start of the runtime that a caller has begun
    startOf,      \* startPromise: whose start it is, or Nobody
    stopStep,     \* stopPromise: "none", "kill", "unset"
    at,           \* where a caller is
    waitsFor,     \* whose start a caller waits for
    again,        \* whether it is awaitReady that has started the runtime for a send
    callsLeft,        \* calls of a send that are left
    resynced,     \* proxyResynced
    torFaults,
    rejected, torn, crowded  \* history: see the causes below

sendVars == <<at, waitsFor, again, callsLeft, resynced>>
causeVars == <<rejected, torn, crowded>>
runtimeVars == <<rt, rtSocks, torProc, forward, run, startOf, stopStep, sendVars, torFaults,
                 causeVars>>

RuntimeTypeOK ==
    /\ rt \in {"STOPPED", "STARTING", "BOOTSTRAPPING", "READY", "DEGRADED", "STOPPING"}
    /\ torProc \in {"off", "booting", "up"} /\ stopStep \in {"none", "kill", "unset"}
    /\ \A c \in Starters :
          /\ run[c] \in {"none", "look", "adopt", "adopted", "boot", "poll", "reboot", "repoll"}
          /\ at[c] \in {"idle", "stop", "held", "joined", "wait", "sync", "set", "call", "sent"}
          /\ at[c] = "joined" => run[waitsFor[c]] # "none"
    /\ startOf \in Starters \cup {Nobody}

TorFault == torFaults < MaxTorFaults /\ torFaults' = torFaults + 1

-----------------------------------------------------------------------------
\* The mutant: the start under way is not shared.
StartsAnyway(c, ready) ==
    IF rt = "READY" THEN at' = [at EXCEPT ![c] = ready] /\ UNCHANGED <<rt, run, startOf, waitsFor>>
    ELSE IF stopStep # "none"
    THEN at' = [at EXCEPT ![c] = "held"] /\ UNCHANGED <<rt, run, startOf, waitsFor>>
    ELSE /\ at' = [at EXCEPT ![c] = "joined"] /\ waitsFor' = [waitsFor EXCEPT ![c] = c]
         /\ startOf' = c /\ run' = [run EXCEPT ![c] = "look"] /\ rt' = "STARTING"

\* start: at once if Tor is ready, with the start under way, or after the stop.
StartCalled(c, ready) ==
    IF rt = "READY" THEN at' = [at EXCEPT ![c] = ready] /\ UNCHANGED <<rt, run, startOf, waitsFor>>
    ELSE IF startOf # Nobody
    THEN /\ at' = [at EXCEPT ![c] = "joined"] /\ waitsFor' = [waitsFor EXCEPT ![c] = startOf]
         /\ UNCHANGED <<rt, run, startOf>>
    ELSE IF stopStep # "none"
    THEN at' = [at EXCEPT ![c] = "held"] /\ UNCHANGED <<rt, run, startOf, waitsFor>>
    ELSE /\ at' = [at EXCEPT ![c] = "joined"] /\ waitsFor' = [waitsFor EXCEPT ![c] = c]
         /\ startOf' = c /\ run' = [run EXCEPT ![c] = "look"] /\ rt' = "STARTING"

SendBegins(c) ==
    /\ c \in Sends /\ at[c] = "idle" /\ run[c] = "none"
    /\ StartCalled(c, "sync")
    /\ again' = [again EXCEPT ![c] = FALSE]
    /\ callsLeft' = [callsLeft EXCEPT ![c] = Tries] /\ resynced' = [resynced EXCEPT ![c] = FALSE]
    /\ UNCHANGED <<rtSocks, torProc, forward, stopStep, torFaults, causeVars>>

\* awaitReady: a runtime that is not ready any more is started once more.
StartAgain(c) ==
    /\ at[c] = "wait" /\ rt # "READY" /\ ~again[c] /\ run[c] = "none"
    /\ StartCalled(c, "sync")
    /\ again' = [again EXCEPT ![c] = TRUE]
    /\ UNCHANGED <<rtSocks, torProc, forward, stopStep, callsLeft, resynced, torFaults, causeVars>>

ReadySeen(c) ==
    /\ at[c] = "wait" /\ rt = "READY"
    /\ at' = [at EXCEPT ![c] = "sync"]
    /\ UNCHANGED <<rt, rtSocks, torProc, forward, run, startOf, stopStep, waitsFor, again, callsLeft,
                   resynced, torFaults, causeVars>>

\* A degraded runtime refuses a send; one that is never ready does after the timeout.
WaitEnds(c) ==
    /\ at[c] = "wait" /\ again[c] /\ rt # "READY"
    /\ at' = [at EXCEPT ![c] = "idle"]
    /\ UNCHANGED <<rt, rtSocks, torProc, forward, run, startOf, stopStep, waitsFor, again, callsLeft,
                   resynced, torFaults, causeVars>>

\* What waited for the stop starts the runtime, whether or not another start is under way.
HeldStarts(c) ==
    /\ at[c] = "held" /\ stopStep = "none" /\ run[c] = "none"
    /\ at' = [at EXCEPT ![c] = "joined"] /\ waitsFor' = [waitsFor EXCEPT ![c] = c]
    /\ startOf' = c /\ run' = [run EXCEPT ![c] = "look"] /\ rt' = "STARTING"
    /\ crowded' = (crowded \/ \E o \in Starters \ {c} : run[o] # "none")
    /\ UNCHANGED <<rtSocks, torProc, forward, stopStep, again, callsLeft, resynced, torFaults,
                   rejected, torn>>

-----------------------------------------------------------------------------
\* The end of a start is known to all that wait for it; the promise is cleared, whose ever it is.
\* A failing start ends a send, unless it was awaitReady that had asked for it, and a recovery.
RunEnds(c, ok) ==
    /\ run' = [run EXCEPT ![c] = "none"]
    /\ startOf' = Nobody
    /\ at' = [d \in Starters |->
                IF at[d] # "joined" \/ waitsFor[d] # c THEN at[d]
                ELSE IF d # Recovery /\ (ok \/ again[d]) THEN "wait" ELSE "idle"]

AsideRun == UNCHANGED <<waitsFor, again, callsLeft, resynced, stopStep>>

\* fetchStatus and adoptIfHealthy: the proxy is taken over if Tor runs and answers.
Looks(c) ==
    /\ run[c] \in {"look", "poll", "repoll"}
    /\ IF torProc = "up" THEN rtSocks' = TRUE /\ run' = [run EXCEPT ![c] = "adopt"]
       ELSE run[c] = "look" /\ run' = [run EXCEPT ![c] = "boot"] /\ UNCHANGED rtSocks
    /\ UNCHANGED <<rt, torProc, forward, startOf, at, torFaults, causeVars>> /\ AsideRun

AdoptsProxy(c) ==
    /\ run[c] = "adopt"
    /\ forward' = TRUE /\ run' = [run EXCEPT ![c] = "adopted"]
    /\ UNCHANGED <<rt, rtSocks, torProc, startOf, at, torFaults, causeVars>> /\ AsideRun

Adopted(c) ==
    /\ run[c] = "adopted"
    /\ rt' = "READY" /\ RunEnds(c, TRUE)
    /\ UNCHANGED <<rtSocks, torProc, forward, torFaults, causeVars>> /\ AsideRun

Boots(c) ==
    /\ run[c] \in {"boot", "reboot"}
    /\ torProc' = IF torProc = "off" THEN "booting" ELSE torProc
    /\ run' = [run EXCEPT ![c] = IF @ = "boot" THEN "poll" ELSE "repoll"]
    /\ rt' = "BOOTSTRAPPING"
    /\ UNCHANGED <<rtSocks, forward, startOf, at, torFaults, causeVars>> /\ AsideRun

\* startTor is rejected: the state stays as it is.
BootFails(c) ==
    /\ run[c] \in {"boot", "reboot"} /\ TorFault
    /\ rejected' = TRUE /\ RunEnds(c, FALSE)
    /\ UNCHANGED <<rt, rtSocks, torProc, forward, torn, crowded>> /\ AsideRun

\* Another process holds the data directory: the start is repeated with a directory of its own.
Conflict(c) ==
    /\ run[c] = "poll" /\ torProc # "up" /\ TorFault
    /\ run' = [run EXCEPT ![c] = "reboot"]
    /\ UNCHANGED <<rt, rtSocks, torProc, forward, startOf, at, causeVars>> /\ AsideRun

StartTimesOut(c) ==
    /\ run[c] \in {"poll", "repoll"} /\ torProc # "up"
    /\ IF torProc = "off" THEN UNCHANGED torFaults ELSE TorFault
    /\ rt' = "DEGRADED" /\ RunEnds(c, FALSE)
    /\ UNCHANGED <<rtSocks, torProc, forward, causeVars>> /\ AsideRun

-----------------------------------------------------------------------------
\* recover: the runtime is stopped, unless a stop is under way, and started again.
Recovers ==
    /\ rt' = IF rt = "STOPPED" THEN rt ELSE "STOPPING"
    /\ stopStep' = "kill"

StopKills ==
    /\ stopStep = "kill"
    /\ torProc' = "off" /\ stopStep' = "unset"
    /\ UNCHANGED <<rt, rtSocks, forward, run, startOf, sendVars, torFaults, causeVars>>

StopEnds ==
    /\ stopStep = "unset"
    /\ forward' = FALSE /\ rtSocks' = FALSE /\ rt' = "STOPPED" /\ stopStep' = "none"
    /\ torn' = (torn \/ \E c \in Starters : run[c] \in {"adopt", "adopted"})
    /\ UNCHANGED <<torProc, run, startOf, sendVars, torFaults, rejected, crowded>>

RecoveryStarts ==
    /\ at[Recovery] = "stop" /\ stopStep = "none" /\ run[Recovery] = "none"
    /\ StartCalled(Recovery, "idle")
    /\ UNCHANGED <<rtSocks, torProc, forward, stopStep, again, callsLeft, resynced, torFaults,
                   causeVars>>

-----------------------------------------------------------------------------
AsideSend == UNCHANGED <<rtSocks, torProc, run, startOf, waitsFor, again, torFaults, causeVars>>

\* syncOnionForwardProxyFromRuntime, before the first call and between two.
Syncs(c) ==
    /\ at[c] = "sync"
    /\ at' = [at EXCEPT ![c] = IF torProc = "up" THEN "set" ELSE "call"]
    /\ UNCHANGED <<rt, forward, stopStep, callsLeft, resynced>> /\ AsideSend

SetsProxy(c) ==
    /\ at[c] = "set"
    /\ forward' = TRUE /\ at' = [at EXCEPT ![c] = "call"]
    /\ resynced' = [resynced EXCEPT ![c] = callsLeft[c] < Tries]
    /\ UNCHANGED <<rt, stopStep, callsLeft>> /\ AsideSend

Forwards == forward /\ torProc = "up"

CallForwarded(c) ==
    /\ at[c] = "call" /\ Forwards
    /\ at' = [at EXCEPT ![c] = "sent"]
    /\ UNCHANGED <<rt, forward, stopStep, callsLeft, resynced>> /\ AsideSend

\* The mutant: a send that fails for the last time leaves the state of the runtime alone.
StillReady(c) ==
    /\ at[c] = "call" /\ ~Forwards
    /\ IF callsLeft[c] > 1
       THEN /\ callsLeft' = [callsLeft EXCEPT ![c] = @ - 1]
            /\ at' = [at EXCEPT ![c] = IF resynced[c] THEN "call" ELSE "sync"]
       ELSE at' = [at EXCEPT ![c] = "idle"] /\ UNCHANGED callsLeft
    /\ UNCHANGED <<rt, forward, stopStep, resynced>> /\ AsideSend

\* The controller has put the message aside because the proxy was not there.
CallQueued(c) ==
    /\ at[c] = "call" /\ ~Forwards
    /\ IF at[Recovery] = "idle"
       THEN Recovers /\ at' = [at EXCEPT ![c] = "idle", ![Recovery] = "stop"]
       ELSE rt' = "DEGRADED" /\ at' = [at EXCEPT ![c] = "idle"] /\ UNCHANGED stopStep
    /\ UNCHANGED <<forward, callsLeft, resynced>> /\ AsideSend

\* It has refused the message: once more after a look at the proxy, or the send fails.
CallRefused(c) ==
    /\ at[c] = "call" /\ ~Forwards
    /\ IF callsLeft[c] > 1
       THEN /\ callsLeft' = [callsLeft EXCEPT ![c] = @ - 1]
            /\ at' = [at EXCEPT ![c] = IF resynced[c] THEN "call" ELSE "sync"]
            /\ UNCHANGED rt
       ELSE rt' = "DEGRADED" /\ at' = [at EXCEPT ![c] = "idle"] /\ UNCHANGED callsLeft
    /\ UNCHANGED <<forward, stopStep, resynced>> /\ AsideSend

\* Any other failure ends the send and says nothing of Tor.
CallFails(c) ==
    /\ at[c] = "call" /\ TorFault
    /\ at' = [at EXCEPT ![c] = "idle"]
    /\ UNCHANGED <<rt, rtSocks, torProc, forward, run, startOf, stopStep, waitsFor, again, callsLeft,
                   resynced, causeVars>>

SendOver(c) ==
    /\ at[c] = "sent"
    /\ at' = [at EXCEPT ![c] = "idle"]
    /\ UNCHANGED <<rt, forward, stopStep, callsLeft, resynced>> /\ AsideSend

-----------------------------------------------------------------------------
TorBoots ==
    /\ torProc = "booting" /\ torProc' = "up"
    /\ UNCHANGED <<rt, rtSocks, forward, run, startOf, stopStep, sendVars, torFaults, causeVars>>

TorExits ==
    /\ torProc # "off" /\ TorFault /\ torProc' = "off"
    /\ UNCHANGED <<rt, rtSocks, forward, run, startOf, stopStep, sendVars, causeVars>>

RuntimeInit ==
    /\ rt = "STOPPED" /\ rtSocks = FALSE /\ torProc = "off" /\ forward = FALSE
    /\ run = [c \in Starters |-> "none"] /\ startOf = Nobody /\ stopStep = "none"
    /\ at = [c \in Starters |-> "idle"] /\ waitsFor = [c \in Starters |-> c]
    /\ again = [c \in Starters |-> FALSE] /\ callsLeft = [c \in Starters |-> Tries]
    /\ resynced = [c \in Starters |-> FALSE] /\ torFaults = 0
    /\ rejected = FALSE /\ torn = FALSE /\ crowded = FALSE

RunSteps(c) == Looks(c) \/ AdoptsProxy(c) \/ Adopted(c) \/ Boots(c) \/ StartTimesOut(c)
SendSteps(c) ==
    \/ SendBegins(c) \/ StartAgain(c) \/ ReadySeen(c) \/ WaitEnds(c) \/ HeldStarts(c)
    \/ Syncs(c) \/ SetsProxy(c) \/ CallForwarded(c) \/ CallQueued(c) \/ CallRefused(c)
    \/ SendOver(c)
StopSteps == StopKills \/ StopEnds \/ RecoveryStarts

RuntimeNext ==
    \/ \E c \in Starters : RunSteps(c) \/ BootFails(c) \/ Conflict(c)
    \/ \E c \in Sends : SendSteps(c) \/ CallFails(c)
    \/ StopSteps \/ TorBoots \/ TorExits

\* What runs goes on, Tor boots when nothing happens to it, and there is always more to send.
RuntimeFairness ==
    /\ WF_runtimeVars(StopSteps) /\ WF_runtimeVars(TorBoots)
    /\ \A c \in Starters : WF_runtimeVars(RunSteps(c))
    /\ \A c \in Sends : WF_runtimeVars(SendSteps(c))

RuntimeSpec == RuntimeInit /\ [][RuntimeNext]_runtimeVars /\ RuntimeFairness

-----------------------------------------------------------------------------
\* The runtime only says that Tor starts while a start is under way, or after startTor was
\* rejected: that leaves the state as it was.
StartingHasStarter ==
    rt \in {"STARTING", "BOOTSTRAPPING"} => rejected \/ \E c \in Starters : run[c] # "none"

\* A runtime that is ready has a proxy, unless a stop ended between adopting it and saying so.
ReadyHasProxy == rt = "READY" => rtSocks \/ torn

\* There is one start of Tor at a time, unless several had waited for the same stop.
OneStart == crowded \/ Cardinality({c \in Starters : run[c] # "none"}) <= 1

RuntimeSound == RuntimeTypeOK /\ StartingHasStarter /\ ReadyHasProxy /\ OneStart

\* Whatever state exits of Tor, failing starts and recoveries have left the runtime in, sends
\* get through again, if they come one at a time: those that overlap can go on stopping the Tor
\* that the other has just started.
OneAtATime == Cardinality({c \in Sends : at[c] # "idle"}) <= 1
SendsGetThrough == <>[]OneAtATime => []<>(\E c \in Sends : at[c] = "sent")
=============================================================================
