---------------------------- MODULE WorkerClient ----------------------------
(***************************************************************************)
(* The main process and its native worker: the client of the worker        *)
(* (main/nativeWorkerClient.ts), the manager that asks for flushes         *)
(* (main/nativeOfflineQueueManager.ts), the start and the shutdown in      *)
(* main.ts, and the worker's loop (main in native/nkc-worker/main.go).     *)
(*                                                                         *)
(* The main process has one thread, so a handler is one action, together   *)
(* with the continuations of the promises it settles.  What interleaves is *)
(* the worker: its reader, the goroutine that serves queue requests one by *)
(* one, one goroutine for any other request, its death, and the time.      *)
(*                                                                         *)
(* A request is its rank; ids, parameters, results and frames are left     *)
(* out, and so are requests too large for a frame.                         *)
(***************************************************************************)
EXTENDS Naturals, Sequences, FiniteSets

CONSTANT MaxRequests   \* bound: requests of a behaviour

ASSUME RequestsAssumption == MaxRequests \in Nat

VARIABLES
    child,     \* the worker: "none", "up", "eof" (its input has ended), "dead"
    attached,  \* client.process is set
    startup,   \* the start in main.ts: "none", "busy", "ready", "failed"
    requests,  \* the requests so far: where each is, and what its caller has
    timer,     \* the manager's chain of timers: "off", "set", "flushing"
    running,   \* the manager's flag of that name
    quit       \* the shutdown: "no", "closing", "stopping", "done"

workerVars == <<child, attached, startup, requests, timer, running, quit>>

QueueKinds == {"init", "flush", "enqueue"}
RequestKinds == QueueKinds \cup {"health", "fetch"}
AtWorker == {"pipe", "held", "served"}
Request == [kind : RequestKinds,
            at : AtWorker \cup {"answered", "gone"},  \* in which queue or hands
            promise : {"pending", "resolved", "rejected"}]

WorkerTypeOK ==
    /\ child \in {"none", "up", "eof", "dead"}
    /\ attached \in BOOLEAN /\ running \in BOOLEAN
    /\ startup \in {"none", "busy", "ready", "failed"}
    /\ requests \in Seq(Request)
    /\ timer \in {"off", "set", "flushing"}
    /\ quit \in {"no", "closing", "stopping", "done"}

-----------------------------------------------------------------------------
Asked == DOMAIN requests
At(place) == {i \in Asked : requests[i].at = place}
OfKind(kinds) == {i \in Asked : requests[i].kind \in kinds}
Pending == {i \in Asked : requests[i].promise = "pending"}
New(kind) == [kind |-> kind, at |-> "pipe", promise |-> "pending"]

\* requestFrame: without a process the promise is rejected at once.
Ask(kind) == attached /\ Len(requests) < MaxRequests /\ requests' = Append(requests, New(kind))

\* The promises of ids are settled, and what awaits them goes on: the start asks for
\* queue.init once it has the answer to health, the manager resets its flag.
KeepFlag(ids) == running
FlagAfter(ids) == running /\ ids \cap OfKind({"flush"}) = {}

AnyAnswerOpens(ids) == ids \cap OfKind({"init", "health"}) # {}
Opens(ids) == ids \cap OfKind({"init"}) # {}

Settle(ids, outcome, moved) ==
    LET settled == [i \in Asked |->
            [moved[i] EXCEPT !.promise = IF i \in ids THEN outcome ELSE @]]
        greeted == outcome = "resolved" /\ ids \cap OfKind({"health"}) # {}
        opened  == outcome = "resolved" /\ Opens(ids)
        refused == outcome = "rejected" /\ ids \cap OfKind({"health", "init"}) # {}
    IN  /\ running' = FlagAfter(ids)
        /\ requests' = IF greeted THEN Append(settled, New("init")) ELSE settled
        /\ startup' = CASE opened -> "ready"
                        [] refused -> "failed"
                        [] OTHER -> startup
        /\ timer' = CASE opened -> "set"
                      [] timer = "flushing" /\ ~running' -> "set"
                      [] OTHER -> timer

Put(i, place) == [requests EXCEPT ![i].at = place]

-----------------------------------------------------------------------------
\* The start in main.ts: the worker is spawned and asked for its health.
StartWorker ==
    /\ startup = "none"
    /\ child' = "up" /\ attached' = TRUE /\ startup' = "busy"
    /\ requests' = <<New("health")>>
    /\ UNCHANGED <<timer, running, quit>>

\* flushNow, asked for by the renderer and by the timer; while one is awaited it
\* returns at once.
FlushNow ==
    /\ ~running
    /\ Ask("flush")
    /\ running' = TRUE

AskFlush == startup = "ready" /\ FlushNow /\ UNCHANGED <<child, attached, startup, timer, quit>>

TimerFires ==
    /\ timer = "set"
    /\ FlushNow
    /\ timer' = "flushing"
    /\ UNCHANGED <<child, attached, startup, quit>>

\* Requests of the renderer and of the controller.
AskAnything ==
    /\ startup = "ready"
    /\ \E kind \in {"enqueue", "fetch"} : Ask(kind)
    /\ UNCHANGED <<child, attached, startup, timer, running, quit>>

\* handleFrame; the answer to a request that is no longer pending is ignored.  The
\* pipe delivers what the worker wrote before it died, too.
Deliver(i, outcome) ==
    /\ i \in At("answered")
    /\ Settle({i} \cap Pending, outcome, Put(i, "gone"))
    /\ UNCHANGED <<child, attached, quit>>

\* The timeout of a request, or an error of its write: the worker may still serve it.
Forget(i) == UNCHANGED <<startup, requests, timer, running>>
TimedOut(i) == Settle({i}, "timed out", requests)
GiveUp(i) == Settle({i}, "rejected", requests)

TimesOut(i) ==
    /\ i \in Pending
    /\ GiveUp(i)
    /\ UNCHANGED <<child, attached, quit>>

\* The exit handler rejects everything.
WorkerExit ==
    /\ child = "dead"
    /\ attached \/ Pending # {}
    /\ attached' = FALSE
    /\ Settle(Pending, "rejected", requests)
    /\ UNCHANGED <<child, quit>>

-----------------------------------------------------------------------------
(***************************************************************************)
(* The worker's loop.                                                      *)
(***************************************************************************)

Lost(place) == place \in AtWorker
Die == /\ child' = "dead"
       /\ requests' = [i \in Asked |->
              [requests[i] EXCEPT !.at = IF Lost(@) THEN "gone" ELSE @]]

NoneIsQueue(i) == FALSE
IsQueue(i) == requests[i].kind \in QueueKinds
Serving == {i \in At("served") : IsQueue(i)}

\* The reader hands a queue request to its goroutine and waits until that takes it;
\* it starts a goroutine for any other.
ReadFrame ==
    /\ child \in {"up", "eof"}
    /\ At("held") = {}
    /\ \E i \in At("pipe") :
           /\ \A j \in At("pipe") : i <= j
           /\ requests' = Put(i, IF IsQueue(i) THEN "held" ELSE "served")
    /\ UNCHANGED <<child, attached, startup, timer, running, quit>>

TakeQueueRequest ==
    /\ Serving = {}
    /\ \E i \in At("held") : requests' = Put(i, "served")
    /\ UNCHANGED <<child, attached, startup, timer, running, quit>>

Respond(i) ==
    /\ i \in At("served")
    /\ requests' = Put(i, "answered")
    /\ UNCHANGED <<child, attached, startup, timer, running, quit>>

\* At the end of its input the worker ends, once everything it has read is served.
WorkerEnds ==
    /\ child = "eof"
    /\ \A place \in AtWorker : At(place) = {}
    /\ child' = "dead"
    /\ UNCHANGED <<attached, startup, requests, timer, running, quit>>

WorkerDies ==
    /\ child \in {"up", "eof"}
    /\ Die
    /\ UNCHANGED <<attached, startup, timer, running, quit>>

-----------------------------------------------------------------------------
(***************************************************************************)
(* shutdownBackgroundRuntimes.                                             *)
(***************************************************************************)

\* The manager is stopped, and the controller and Tor are closed.
BeginShutdown ==
    /\ startup # "none"
    /\ quit = "no"
    /\ timer' = "off"
    /\ quit' = "closing"
    /\ UNCHANGED <<child, attached, startup, requests, running>>

\* client.stop(), when the start has stored a client by now.
StopWorker ==
    /\ quit = "closing"
    /\ IF startup = "ready" /\ attached
       THEN /\ attached' = FALSE
            /\ child' = IF child = "up" THEN "eof" ELSE child
            /\ quit' = "stopping"
       ELSE quit' = "done" /\ UNCHANGED <<child, attached>>
    /\ UNCHANGED <<startup, requests, timer, running>>

\* The worker has exited in time, or is killed after two seconds.
StoppedAnyway ==
    /\ quit = "stopping"
    /\ quit' = "done"
    /\ UNCHANGED <<child, attached, startup, requests, timer, running>>
StoppedInTime ==
    /\ quit = "stopping" /\ child = "dead"
    /\ quit' = "done"
    /\ UNCHANGED <<child, attached, startup, requests, timer, running>>
Stopped ==
    /\ quit = "stopping"
    /\ \/ child = "dead" /\ UNCHANGED <<child, requests>>
       \/ child # "dead" /\ Die
    /\ quit' = "done"
    /\ UNCHANGED <<attached, startup, timer, running>>

\* The main process ends, and with it the worker's input.
AppEnds ==
    /\ quit = "done" /\ child = "up"
    /\ child' = "eof"
    /\ UNCHANGED <<attached, startup, requests, timer, running, quit>>

WorkerInit ==
    /\ child = "none" /\ attached = FALSE /\ startup = "none" /\ requests = <<>>
    /\ timer = "off" /\ running = FALSE /\ quit = "no"

Answers == \E i \in Asked : Respond(i) \/ Deliver(i, "resolved") \/ Deliver(i, "rejected")
Deadline == \E i \in Asked : TimesOut(i)
Ending == StopWorker \/ Stopped \/ AppEnds

WorkerNext ==
    \/ StartWorker \/ AskFlush \/ TimerFires \/ AskAnything
    \/ Answers \/ Deadline \/ WorkerExit
    \/ ReadFrame \/ TakeQueueRequest \/ WorkerEnds \/ WorkerDies
    \/ BeginShutdown \/ Ending

\* Deadlines pass, and a shutdown that has begun goes on.  The worker may hang.
WorkerFairness == WF_workerVars(Deadline) /\ WF_workerVars(Ending)

WorkerSpec == WorkerInit /\ [][WorkerNext]_workerVars /\ WorkerFairness

-----------------------------------------------------------------------------
\* One flush is awaited at a time, and the flag and the chain of timers wait for a
\* flush that is really awaited: a rejected, timed out or answered flush, a dead worker
\* or a shutdown never leaves them waiting, after which nothing would flush again.
FlushIsAwaited ==
    /\ Cardinality(Pending \cap OfKind({"flush"})) = IF running THEN 1 ELSE 0
    /\ timer = "flushing" => running

\* The worker serves queue requests one at a time and in the order in which they were
\* asked, also when a flush has timed out and the manager has asked for the next.
QueueInOrder ==
    \A i \in At("served") \cap OfKind(QueueKinds), j \in OfKind(QueueKinds) :
        j < i => requests[j].at \in {"answered", "gone"}

\* No message is queued, listed or flushed in a worker whose queue was not opened.
OpenedFirst ==
    \A i \in OfKind({"flush", "enqueue"}) :
        \E j \in OfKind({"init"}) : j < i /\ requests[j].promise = "resolved"

\* The shutdown leaves no worker that it had stored a client for: it has ended or was
\* killed, whatever it was doing.
NoWorkerLeft == quit = "done" /\ startup = "ready" /\ ~attached => child = "dead"

\* Every request comes to an end for its caller, although the worker may hang or die.
EveryRequestEnds ==
    \A i \in 1..MaxRequests : (i \in Pending) ~> (i \in Asked \ Pending)

\* A shutdown comes to its end, although the worker may hang.
ShutdownEnds == (quit = "closing") ~> (quit = "done")

\* What the renderer and the main process may rely on in the worker's client: a flush that is
\* waited for is under way, the queue is served in order, from an opened file, and no worker
\* outlives the program.
WorkerSound == WorkerTypeOK /\ FlushIsAwaited /\ QueueInOrder /\ OpenedFirst /\ NoWorkerLeft

\* Every request gets an answer or an error (timeouts, exits), and so does the shutdown.
WorkerSettles == EveryRequestEnds /\ ShutdownEnds
=============================================================================
