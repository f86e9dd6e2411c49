---------------------------- MODULE RouteManager ----------------------------
(***************************************************************************)
(* The manager of internal onion routes (net/internalOnion): the builds of *)
(* routeManager.ts, the discovery and the configuration of runtime.ts, and *)
(* what a relay answers in relayNetwork.ts.                                *)
(*                                                                         *)
(* A build says hello to one relay after the other and awaits its answer.  *)
(* Starts, stops, timers and late answers come in between; a build that is *)
(* overtaken has its promise rejected, and its `catch` runs after the      *)
(* synchronous part of whatever overtook it, in the same action.           *)
(*                                                                         *)
(* A hop is its index, a circuit its rank, 0 for none.  Abstracted: which  *)
(* peers are relays (any number of them each time), the path of a message  *)
(* through the relays (it arrives or is lost), signatures, and delays.     *)
(***************************************************************************)
EXTENDS Naturals, Sequences, FiniteSets

CONSTANTS
    MaxHops,     \* MAX_HOPS
    MissLimit,   \* keepaliveMissLimit
    MaxCircuits, \* bound: circuits of a behaviour
    MaxSyncs     \* bound: changes of the configuration

ASSUME RouteAssumption ==
    MaxHops \in Nat \ {0} /\ MissLimit \in Nat /\ MaxCircuits \in Nat /\ MaxSyncs \in Nat

VARIABLES
    routing,    \* running, and activeByConfig with it
    wanted,     \* desiredHops
    route,      \* routeState.status
    hops,       \* the status of each hop
    circuit,    \* currentCircuitId
    circuits,   \* bound: the circuits so far
    awaited,    \* the hellos that builds await an answer to: [circuit, hop]
    greeted,    \* history: the hellos that were sent
    vouched,    \* history: the hellos whose relay has said yes, and was heard
    pings,      \* pendingPings: 0 for none, or the misses and 1
    keepalive,  \* the interval of pings is set
    rebuild,    \* the timer of the next rebuild is set
    syncs       \* bound

routeVars == <<routing, wanted, route, hops, circuit, circuits, awaited, greeted, vouched, pings,
               keepalive, rebuild, syncs>>

Hops == 1..MaxHops
Hello == [circuit : 1..MaxCircuits, hop : Hops]

RouteTypeOK ==
    /\ routing \in BOOLEAN /\ keepalive \in BOOLEAN /\ rebuild \in BOOLEAN
    /\ wanted \in Hops
    /\ route \in {"idle", "expired", "building", "rebuilding", "degraded", "ready"}
    /\ hops \in [Hops -> {"none", "pending", "ok", "dead"}]
    /\ circuit \in 0..MaxCircuits /\ circuits \in 0..MaxCircuits
    /\ awaited \subseteq Hello /\ greeted \subseteq Hello /\ vouched \subseteq greeted
    /\ pings \in [Hops -> 0..MissLimit + 1]
    /\ syncs \in 0..MaxSyncs

-----------------------------------------------------------------------------
\* createHops for n selected peers; a hop without a peer is never established ("none").
CreateHops(n) == [h \in Hops |-> IF h <= n THEN "pending" ELSE "none"]
EstablishedHops(states) == Cardinality({h \in Hops : states[h] = "ok"})
MarkDead(states, hellos) ==
    [h \in Hops |-> IF states[h] # "none" /\ h \in {x.hop : x \in hellos} THEN "dead"
                                                                          ELSE states[h]]
NoPings == [h \in Hops |-> 0]

ForgetToSchedule(hellos, status, states, timer, on) ==
    /\ route' = IF hellos = {} THEN status ELSE "degraded"
    /\ hops' = MarkDead(states, hellos)
    /\ rebuild' = timer
ScheduleAnyway(hellos, status, states, timer, on) ==
    /\ route' = IF hellos = {} THEN status ELSE "degraded"
    /\ hops' = MarkDead(states, hellos)
    /\ rebuild' = (timer \/ hellos # {})

\* The catch of builds whose hello failed or was overtaken: it degrades the state that
\* is current by then, and scheduleRebuild does nothing once the manager is stopped.
Fail(hellos, status, states, timer, on) ==
    /\ route' = IF hellos = {} THEN status ELSE "degraded"
    /\ hops' = MarkDead(states, hellos)
    /\ rebuild' = (timer \/ (hellos # {} /\ on))

\* clearPendingHelloAcks: nothing is awaited any more, and all of it fails.
NoneOvertaken == {}
Overtaken == awaited

\* buildRouteInternal up to its first await, with n relays in reach.
Build(n, d, status, timer) ==
    LET selected == IF n < d THEN n ELSE d
    IN  /\ wanted' = d
        /\ keepalive' = FALSE
        /\ pings' = NoPings
        /\ IF selected = 0
           THEN /\ circuit' = 0
                /\ awaited' = awaited \ Overtaken
                /\ Fail(Overtaken, "idle", CreateHops(0), TRUE, TRUE)
                /\ UNCHANGED <<circuits, greeted>>
           ELSE /\ circuits < MaxCircuits
                /\ circuits' = circuits + 1
                /\ circuit' = circuits'
                /\ awaited' = (awaited \ Overtaken) \cup {[circuit |-> circuit', hop |-> 1]}
                /\ greeted' = greeted \cup awaited'
                /\ Fail(Overtaken, status, CreateHops(selected), timer, TRUE)

\* start, at every change of the configuration that selects this mode; a route that is
\* ready is kept when the number of hops is the same.
Sync(n, d) ==
    /\ syncs < MaxSyncs
    /\ syncs' = syncs + 1
    /\ routing' = TRUE
    /\ IF d = wanted /\ route = "ready"
       THEN /\ keepalive' = TRUE
            /\ UNCHANGED <<wanted, route, hops, circuit, circuits, awaited, greeted, pings,
                           rebuild>>
       ELSE Build(n, d, "building", rebuild)
    /\ UNCHANGED vouched

\* stop, when the configuration selects another mode.
Halt(status) ==
    /\ syncs < MaxSyncs
    /\ syncs' = syncs + 1
    /\ routing' = FALSE
    /\ circuit' = 0
    /\ keepalive' = FALSE
    /\ pings' = NoPings
    /\ awaited' = awaited \ Overtaken
    /\ Fail(Overtaken, status, CreateHops(0), FALSE, FALSE)
    /\ UNCHANGED <<wanted, circuits, greeted, vouched>>

\* The discovery's interval: rebuildRoute when there are relays, no build is under way,
\* and a ready route can grow.
Discovery(n) ==
    /\ routing
    /\ n > 0
    /\ route \notin {"building", "rebuilding"}
    /\ route = "ready" => EstablishedHops(hops) < wanted /\ n > EstablishedHops(hops)
    /\ Build(n, wanted, "rebuilding", FALSE)
    /\ UNCHANGED <<routing, vouched, syncs>>

\* The rebuild timer; it may be a ready route that it rebuilds.
RebuildTimer(n) ==
    /\ rebuild /\ routing
    /\ Build(n, wanted, "rebuilding", FALSE)
    /\ UNCHANGED <<routing, vouched, syncs>>

-----------------------------------------------------------------------------
\* A relay's acknowledgement reaches handleHelloAck; one of an earlier circuit or for a
\* hop that is not awaited is dropped.  `ok` is false for a refusal or another peer's.
\* After the last hop the route is ready.
FitsHop(hello) == \E x \in awaited : x.hop = hello.hop
Fits(hello) == hello.circuit = circuit /\ hello \in awaited

HelloAck(hello, ok) ==
    /\ hello \in greeted
    /\ Fits(hello)
    /\ LET h == hello.hop
           mine == {x \in awaited : x.hop = h}
           acked == [hops EXCEPT ![h] = "ok"]
           last == h = MaxHops \/ hops[h + 1] = "none"
           next == [circuit |-> circuit, hop |-> h + 1]
       IN  IF ~ok
           THEN /\ awaited' = awaited \ mine
                /\ Fail(mine, route, hops, rebuild, routing)
                /\ UNCHANGED <<greeted, vouched, keepalive>>
           ELSE IF last
           THEN /\ awaited' = awaited \ mine
                /\ vouched' = vouched \cup {hello}
                /\ route' = "ready"
                /\ hops' = [x \in Hops |-> IF acked[x] = "dead" THEN "pending" ELSE acked[x]]
                /\ keepalive' = TRUE
                /\ UNCHANGED <<greeted, rebuild>>
           ELSE /\ awaited' = (awaited \ mine) \cup {next}
                /\ greeted' = greeted \cup {next}
                /\ vouched' = vouched \cup {hello}
                /\ hops' = acked
                /\ UNCHANGED <<route, keepalive, rebuild>>
    /\ UNCHANGED <<routing, wanted, circuit, circuits, pings, syncs>>

\* No answer in time.
NoTimeout(hello) == FALSE
HelloTimeout(hello) ==
    /\ hello \in awaited
    /\ awaited' = awaited \ {hello}
    /\ Fail({hello}, route, hops, rebuild, routing)
    /\ UNCHANGED <<routing, wanted, circuit, circuits, greeted, vouched, pings, keepalive,
                   syncs>>

\* handlePingPong.
Pong(hello) ==
    /\ hello \in greeted
    /\ hello.circuit = circuit /\ pings[hello.hop] > 0
    /\ pings' = [pings EXCEPT ![hello.hop] = 0]
    /\ hops' = [hops EXCEPT ![hello.hop] = "ok"]
    /\ UNCHANGED <<routing, wanted, route, circuit, circuits, awaited, greeted, vouched,
                   keepalive, rebuild, syncs>>

\* keepaliveTick: the first hop that has missed too many pings ends the route.
TooFewMisses == {h \in Hops : hops[h] = "ok" /\ pings[h] > MissLimit + 1}
TooManyMisses == {h \in Hops : hops[h] = "ok" /\ pings[h] > MissLimit}

KeepaliveTick ==
    /\ keepalive
    /\ routing /\ route = "ready" /\ circuit # 0
    /\ LET gone == {h \in TooManyMisses : \A x \in TooManyMisses : h <= x}
           pinged == {h \in Hops : hops[h] = "ok" /\ \A x \in gone : h < x}
       IN  /\ pings' = [h \in Hops |-> CASE h \in gone -> 0
                                          [] h \in pinged -> pings[h] + 1
                                          [] OTHER -> pings[h]]
           /\ keepalive' = (gone = {})
           /\ Fail({[circuit |-> circuit, hop |-> h] : h \in gone}, route, hops, rebuild, TRUE)
    /\ UNCHANGED <<routing, wanted, circuit, circuits, awaited, greeted, vouched, syncs>>

RouteInit ==
    /\ routing = FALSE /\ wanted = MaxHops /\ route = "idle" /\ hops = CreateHops(0)
    /\ circuit = 0 /\ circuits = 0 /\ awaited = {} /\ greeted = {} /\ vouched = {}
    /\ pings = NoPings
    /\ keepalive = FALSE /\ rebuild = FALSE /\ syncs = 0

HelloTimesOut == \E hello \in Hello : HelloTimeout(hello)

RouteNext ==
    \/ \E n \in 0..MaxHops, d \in Hops : Sync(n, d)
    \/ \E status \in {"idle", "expired"} : Halt(status)
    \/ \E n \in 0..MaxHops : Discovery(n) \/ RebuildTimer(n)
    \/ HelloTimesOut \/ KeepaliveTick
    \/ \E hello \in Hello : Pong(hello) \/ \E ok \in BOOLEAN : HelloAck(hello, ok)

\* The timer of a hello fires, if no answer comes before.
RouteFairness == WF_routeVars(HelloTimesOut)

RouteSpec == RouteInit /\ [][RouteNext]_routeVars /\ RouteFairness

-----------------------------------------------------------------------------
\* Two builds never go on side by side: what is awaited is one hello, of the current
\* circuit, whatever start, timer or discovery came in the middle of a build.
OneBuild ==
    /\ Cardinality(awaited) <= 1
    /\ \A hello \in awaited : hello.circuit = circuit /\ circuit = circuits

\* A route that is ready has been acknowledged hop by hop on its own circuit: late
\* acknowledgements of an earlier circuit and the marks of an overtaken build, which
\* fall on the new state, leave no hop out.
ReadyMeansReady ==
    route = "ready" =>
        /\ hops[1] = "ok"
        /\ \A h \in Hops :
               hops[h] # "none" => hops[h] = "ok" /\ [circuit |-> circuit, hop |-> h] \in vouched

\* A manager that runs is never left without a next step: a build awaits an answer that
\* has a timeout, a rebuild is scheduled, or the route is ready and its relays are
\* pinged, so that losing one is noticed.
NeverAbandoned ==
    routing => awaited # {} \/ rebuild \/ (route = "ready" /\ keepalive)

\* A manager that is stopped starts nothing by itself, although the build it stopped
\* has still marked its state as degraded.
StoppedIsQuiet ==
    ~routing => awaited = {} /\ ~rebuild /\ ~keepalive /\ circuit = 0 /\ route # "ready"

\* Every build ends, although relays and the messages to them may be lost.
EveryBuildEnds == (awaited # {}) ~> (awaited = {})

\* Over rebuilds, late acknowledgements, lost relays and stops, one build goes on at a time, a
\* ready route is one that was acknowledged, and a manager that runs is never without a way on.
RouteSound == RouteTypeOK /\ OneBuild /\ ReadyMeansReady /\ NeverAbandoned /\ StoppedIsQuiet
=============================================================================
