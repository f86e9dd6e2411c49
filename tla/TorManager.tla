----------------------------- MODULE TorManager -----------------------------
(***************************************************************************)
(* The Tor process of the application (main/torManager.ts) and the start   *)
(* of the application that prepares it (main.ts).                          *)
(*                                                                         *)
(* start() and stop() are asked for by the renderer at any time; each is a *)
(* chain of awaits, and events of the process come in between.  `starting` *)
(* is where the one start is: looking for the binary, preparing the        *)
(* directory, about to spawn, waiting for the port and the bootstrap, or   *)
(* waiting for the stop() it has called itself.                            *)
(*                                                                         *)
(* Abstracted: ports, paths, the log, bridges but for the second start     *)
(* with them, the causes of a failure.  A binary that cannot be spawned is *)
(* a process that dies at once.  Left out: the repairs on macOS, and the   *)
(* second start with a data directory of its own.                          *)
(***************************************************************************)
EXTENDS Naturals, FiniteSets

CONSTANTS
    MaxSpawns,   \* bound: processes
    MaxCalls     \* bound: calls of start and stop

ASSUME TorAssumption == MaxSpawns \in Nat /\ MaxCalls \in Nat

VARIABLES
    tor,         \* status.state
    proc,        \* this.process, 0 for none
    live,        \* processes that run
    unheard,     \* processes that have ended and whose exit event is still to come
    expectExit,  \* expectProcessExit
    starting,    \* where startInternal is
    stopping,    \* the process stop() waits for, 0 for none
    waiting,     \* a start() or ensureHiddenService() waits for that stop()
    retry,       \* the start will try again with bridges
    bridged,     \* bridgeModeOverride
    service,     \* hsConfig is set
    prepared,    \* configureHiddenService in main.ts: "no", "yes", "thrown"
    spawned, called,  \* bounds
    asked,       \* history: the last call, "start" or "stop"
    crossed,     \* history: a call met a start that could not take notice of it
    slow, broken  \* history: a process outlived its kill, a preparation failed

torVars == <<tor, proc, live, unheard, expectExit, starting, stopping, waiting, retry, bridged,
             service, prepared, spawned, called, asked, crossed, slow, broken>>
historyVars == <<asked, crossed, slow, broken>>

Processes == 1..MaxSpawns

TorTypeOK ==
    /\ tor \in {"unavailable", "starting", "running", "failed"}
    /\ proc \in 0..MaxSpawns /\ stopping \in 0..MaxSpawns
    /\ live \subseteq Processes /\ unheard \subseteq Processes
    /\ starting \in {"no", "find", "prepare", "spawn", "wait", "restop"}
    /\ expectExit \in BOOLEAN /\ waiting \in BOOLEAN /\ retry \in BOOLEAN
    /\ bridged \in BOOLEAN /\ service \in BOOLEAN /\ crossed \in BOOLEAN
    /\ slow \in BOOLEAN /\ broken \in BOOLEAN
    /\ prepared \in {"no", "yes", "thrown"}
    /\ spawned \in 0..MaxSpawns /\ called \in 0..MaxCalls
    /\ asked \in {"start", "stop"}

-----------------------------------------------------------------------------
\* start() after its wait: nothing when there is a process or a start.
Begun == IF proc = 0 /\ starting = "no" THEN "find" ELSE starting

\* stop() ends; what waited for it goes on.
SaysLifecycle == "stopped"
SaysStopped == "unavailable"

NothingAfterStop == tor
StatusAfterStop == IF starting = "restop" /\ ~retry THEN "failed" ELSE SaysStopped

EndStop ==
    /\ proc' = 0
    /\ stopping' = 0
    /\ waiting' = FALSE
    /\ starting' = CASE starting = "restop" -> IF retry THEN "find" ELSE "no"
                     [] starting # "restop" /\ waiting -> IF starting = "no" THEN "find"
                                                                             ELSE starting
                     [] OTHER -> starting
    /\ tor' = StatusAfterStop

-----------------------------------------------------------------------------
TorCall == called < MaxCalls /\ called' = called + 1

Start ==
    /\ TorCall
    /\ asked' = "start"
    /\ crossed' = (crossed \/ (starting # "no" /\ tor # "starting"))
    /\ IF stopping # 0
       THEN waiting' = TRUE /\ UNCHANGED starting
       ELSE starting' = Begun /\ UNCHANGED waiting
    /\ UNCHANGED <<tor, proc, live, unheard, expectExit, stopping, retry, bridged, service, prepared, spawned, slow, broken>>

\* stopInternal up to its await; without a process it is done at once.
LetGo == /\ expectExit' = TRUE
         /\ tor' = "unavailable" /\ proc' = 0
         /\ UNCHANGED stopping
Kill ==
    IF proc = 0
    THEN expectExit' = FALSE /\ tor' = "unavailable" /\ UNCHANGED <<stopping, proc>>
    ELSE expectExit' = TRUE /\ stopping' = proc /\ UNCHANGED <<tor, proc>>

Stop ==
    /\ TorCall
    /\ asked' = "stop"
    /\ crossed' = (crossed \/ starting \in {"find", "restop"} \/ waiting)
    /\ IF stopping # 0 THEN UNCHANGED <<tor, expectExit, stopping, proc>> ELSE Kill
    /\ UNCHANGED <<live, unheard, starting, waiting, retry, bridged, service, prepared, spawned, slow, broken>>

\* ensureHiddenService: a process without the service is stopped first.
EnsureHiddenService ==
    /\ TorCall
    /\ prepared = "yes" \/ prepared = "thrown"
    /\ asked' = "start"
    /\ service' = TRUE
    /\ crossed' = (crossed \/ (starting # "no" /\ tor # "starting"))
    /\ IF stopping # 0 \/ (~service /\ proc # 0)
       THEN /\ waiting' = TRUE /\ UNCHANGED starting
            /\ IF stopping # 0 THEN UNCHANGED <<tor, expectExit, stopping, proc>> ELSE Kill
       ELSE /\ starting' = Begun /\ UNCHANGED <<waiting, tor, expectExit, stopping, proc>>
    /\ UNCHANGED <<live, unheard, retry, bridged, prepared, spawned, slow, broken>>

\* main.ts, when the controller is there: configureHiddenService throws if a process
\* runs without the service, and then the listeners of the status are never added.
Prepare ==
    /\ prepared = "no"
    /\ prepared' = IF proc # 0 THEN "thrown" ELSE "yes"
    /\ service' = (service \/ proc = 0)
    /\ UNCHANGED <<tor, proc, live, unheard, expectExit, starting, stopping, waiting, retry,
                   bridged, spawned, called, historyVars>>

-----------------------------------------------------------------------------
(***************************************************************************)
(* startInternal.                                                          *)
(***************************************************************************)

FindBinary ==
    /\ starting = "find"
    /\ \/ starting' = "prepare" /\ tor' = "starting"
       \/ starting' = "no" /\ tor' = "unavailable"
    /\ UNCHANGED <<proc, live, unheard, expectExit, stopping, waiting, retry, bridged, service,
                   prepared, spawned, called, historyVars>>

WriteTorrc ==
    /\ starting = "prepare"
    /\ starting' = "spawn"
    /\ UNCHANGED <<tor, proc, live, unheard, expectExit, stopping, waiting, retry, bridged,
                   service, prepared, spawned, called, historyVars>>

\* A file cannot be written: start() rejects, and the status stays as it is.
PrepareFails ==
    /\ starting = "prepare"
    /\ starting' = "no"
    /\ broken' = TRUE
    /\ UNCHANGED <<tor, proc, live, unheard, expectExit, stopping, waiting, retry, bridged,
                   service, prepared, spawned, called, asked, crossed, slow>>

NotCancelled == FALSE
Cancelled == tor # "starting"

Spawn ==
    /\ starting = "spawn"
    /\ ~Cancelled /\ spawned < MaxSpawns
    /\ spawned' = spawned + 1
    /\ proc' = spawned' /\ live' = live \cup {spawned'}
    /\ expectExit' = FALSE
    /\ starting' = "wait"
    /\ UNCHANGED <<tor, unheard, stopping, waiting, retry, bridged, service, prepared,
                   called, asked, crossed, slow, broken>>

\* A stop() came before the process, or while it was waited for.
GiveUpStart ==
    /\ starting \in {"spawn", "wait"}
    /\ Cancelled
    /\ starting' = "no"
    /\ UNCHANGED <<tor, proc, live, unheard, expectExit, stopping, waiting, retry, bridged,
                   service, prepared, spawned, called, historyVars>>

\* The port was open and the bootstrap done when they were looked at last.
Ready ==
    /\ starting = "wait"
    /\ ~Cancelled
    /\ tor' = "running"
    /\ starting' = "no"
    /\ UNCHANGED <<proc, live, unheard, expectExit, stopping, waiting, retry, bridged, service,
                   prepared, spawned, called, historyVars>>

\* The time is up: the start stops Tor itself, and tries bridges once.
NotReady ==
    /\ starting = "wait"
    /\ ~Cancelled
    /\ retry' \in {FALSE, ~bridged}
    /\ bridged' = (bridged \/ retry')
    /\ starting' = "restop"
    /\ stopping # 0 \/ proc # 0
    /\ crossed' = (crossed \/ stopping # 0)
    /\ IF stopping # 0 THEN UNCHANGED <<tor, expectExit, stopping, proc>> ELSE Kill
    /\ UNCHANGED <<live, unheard, waiting, service, prepared, spawned, called, asked, slow,
                   broken>>

-----------------------------------------------------------------------------
\* A process ends, by its own or by a signal.
Dies(p) ==
    /\ p \in live
    /\ live' = live \ {p} /\ unheard' = unheard \cup {p}
    /\ UNCHANGED <<tor, proc, expectExit, starting, stopping, waiting, retry, bridged, service,
                   prepared, spawned, called, historyVars>>

\* The exit handler does not look whose exit it is.
SaysRunning == tor
SaysFailed == "failed"

TorExit(p) ==
    /\ p \in unheard
    /\ unheard' = unheard \ {p}
    /\ expectExit' = FALSE
    /\ IF stopping = p
       THEN EndStop
       ELSE /\ proc' = 0
            /\ tor' = IF expectExit THEN tor ELSE SaysFailed
            /\ UNCHANGED <<starting, stopping, waiting>>
    /\ UNCHANGED <<live, retry, bridged, service, prepared, spawned, called, historyVars>>

\* Three seconds after the signal nothing has been heard of the process.
StopGivesUp ==
    /\ stopping # 0
    /\ EndStop
    /\ slow' = TRUE
    /\ UNCHANGED <<live, unheard, expectExit, retry, bridged, service, prepared, spawned,
                   called, asked, crossed, broken>>

TorInit ==
    /\ tor = "unavailable" /\ proc = 0 /\ live = {} /\ unheard = {} /\ expectExit = FALSE
    /\ starting = "no" /\ stopping = 0 /\ waiting = FALSE /\ retry = FALSE /\ bridged = FALSE
    /\ service = FALSE /\ prepared = "no" /\ spawned = 0 /\ called = 0
    /\ asked = "stop" /\ crossed = FALSE /\ slow = FALSE /\ broken = FALSE

Starting == FindBinary \/ WriteTorrc \/ Spawn \/ GiveUpStart \/ Ready \/ NotReady
Ended == StopGivesUp \/ \E p \in Processes : TorExit(p)

TorNext ==
    \/ Start \/ Stop \/ EnsureHiddenService \/ Prepare
    \/ Starting \/ PrepareFails \/ Ended
    \/ \E p \in Processes : Dies(p)

\* Awaits end: file-system calls, the polls with their limits, the kill with its own.
TorFairness == WF_torVars(Starting) /\ WF_torVars(Ended)

TorSpec == TorInit /\ [][TorNext]_torVars /\ TorFairness

-----------------------------------------------------------------------------
\* At most one Tor runs on the data directory, whatever calls overlap, as long as no
\* process outlives the three seconds that stop() gives it.
OneTor == Cardinality(live) <= 1 \/ slow

\* A status "running" that no stop() is about to withdraw has a process, or its exit is
\* just to be heard of.
RunningHasProcess ==
    tor = "running" /\ stopping = 0 => proc \in live \cup unheard \/ slow

\* The last call decides: after a stop() nothing is left running once everything has
\* come to rest, unless the call met a start that cannot take notice of it (one that is
\* looking for its binary, or about to try again), or a process was slow to end.
LastStopWins ==
    asked = "stop" /\ starting = "no" /\ stopping = 0 /\ ~waiting =>
        live = {} \/ crossed \/ slow

\* Tor's status does not stay "starting", unless the preparation failed.
StatusSettles ==
    (tor = "starting") ~> (tor # "starting" \/ broken \/ spawned = MaxSpawns)

\* Over overlapping starts, stops and late exits there is one Tor process at most, a running
\* status has its process, and a stop is not undone.
TorSound == TorTypeOK /\ OneTor /\ RunningHasProcess /\ LastStopWins
=============================================================================
