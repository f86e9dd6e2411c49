------------------------------- MODULE MCMain -------------------------------
(***************************************************************************)
(* The components of the main process and of its native worker, for TLC:   *)
(* the offline queue, the client of the worker, the proxy pool and the     *)
(* manager of the Tor process; the state that the renderer's onion         *)
(* transport shows of them; background work, the end of the application    *)
(* and its updates.                                                        *)
(*                                                                         *)
(* They share no variable.  A behaviour is one of one component, which     *)
(* `part` names, while the others stay in their initial states, so that    *)
(* the states of a run add up instead of multiplying.                      *)
(***************************************************************************)
EXTENDS OfflineQueue, WorkerClient, ProxyPool, TorManager, OnionLink, Background,
        AppUpdate

CONSTANTS m1, m2, f1, f2, refusal, p1, p2

TwoMsgs     == {m1, m2}
TwoFriends  == {f1, f2}
OtherFriend == [m \in TwoMsgs |-> IF m = m1 THEN f1 ELSE f2]
InTurn      == [m \in TwoMsgs |-> IF m = m1 THEN 1 ELSE 2]
OneKind     == {refusal}
ShortDelay  == [k \in OneKind |-> 1]
LongDelay   == [k \in OneKind |-> 2]
TwoProxies  == {p1, p2}

\* What a store of the older format holds: the first message.
OneOlder ==
    [msgs |-> [m \in TwoMsgs |->
                  [status |-> IF m = m1 THEN "PENDING" ELSE "ABSENT", attempts |-> 0,
                   nextAttemptAt |-> 0]],
     friends |-> {f1}]

VARIABLE part  \* the component of this behaviour

MainInit ==
    /\ part \in {"queue", "worker", "pool", "tor", "onionlink", "background", "update"}
    /\ Init /\ WorkerInit /\ PoolInit /\ TorInit /\ OnionLinkInit
    /\ BackgroundInit /\ UpdateInit
    /\ part # "background" => enabled /\ toTray /\ window = "shown"

\* The components but one stay as they are.
Rest(p) ==
    /\ p # "queue" => UNCHANGED vars
    /\ p # "worker" => UNCHANGED workerVars
    /\ p # "pool" => UNCHANGED poolVars
    /\ p # "tor" => UNCHANGED torVars
    /\ p # "onionlink" => UNCHANGED linkStateVars
    /\ p # "background" => UNCHANGED backVars
    /\ p # "update" => UNCHANGED updateVars

MainNext ==
    /\ UNCHANGED part /\ Rest(part)
    /\ \/ part = "queue" /\ Next
       \/ part = "worker" /\ WorkerNext
       \/ part = "pool" /\ PoolNext
       \/ part = "tor" /\ TorNext
       \/ part = "onionlink" /\ OnionLinkNext
       \/ part = "background" /\ BackgroundNext
       \/ part = "update" /\ AppUpdateNext

\* The fairness of each component, for the behaviours that are its own.
MainFairness ==
    /\ WF_vars(part = "queue" /\ Open)
    /\ SF_vars(part = "queue" /\ FlushStart)
    /\ WF_vars(part = "queue" /\ FlushStep)
    /\ WF_vars(part = "queue" /\ PersistStep)
    /\ WF_vars(part = "queue" /\ Tick)
    /\ WF_workerVars(part = "worker" /\ Deadline)
    /\ WF_workerVars(part = "worker" /\ Ending)
    /\ WF_torVars(part = "tor" /\ Starting)
    /\ WF_torVars(part = "tor" /\ Ended)

MainSpec ==
    /\ MainInit
    /\ [][MainNext]_<<part, vars, workerVars, poolVars, torVars, linkStateVars,
            backVars, updateVars>>
    /\ MainFairness

\* What the last three keep.
ShellSound == OnionLinkSound /\ BackgroundSound /\ AppUpdateSound
=============================================================================
